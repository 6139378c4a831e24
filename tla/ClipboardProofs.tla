---------------------------- MODULE ClipboardProofs ----------------------------
(***************************************************************************)
(* TLAPS proofs about Clipboard, for any number of copies.                 *)
(***************************************************************************)
EXTENDS Clipboard, TLAPS

\* A copy that has not been recorded, and whose recording has not failed.
InHistory(c) == \E i \in 1 .. Len(recorded) : recorded[i] = c
Unrecorded(c) == c \notin failures /\ reports[c] = 0 /\ ~InHistory(c)

\* What the place of a copy says of everything else that is kept of it.  A written
\* copy rejects only in the host's handler.
CopyOK(c) ==
    /\ c \in bitmaps => pc[c] = "encoding"
    /\ pc[c] \in {"recording", "resolved"} => c \in written
    /\ pc[c] \in {"idle", "decoding", "encoding", "writing"} => c \notin written
    /\ c \in written /\ pc[c] = "rejected" => HandlerMayThrow
    /\ pc[c] \notin {"resolved", "rejected"} => Unrecorded(c)
    /\ pc[c] = "resolved" =>
        /\ host.recorder => /\ c \in failures => ~InHistory(c)
                            /\ c \notin failures => InHistory(c)
        /\ reports[c] = IF c \in failures THEN 1 ELSE 0

Clipboards ==
    /\ pc \in [Copies -> {"idle", "decoding", "encoding", "writing", "recording", "resolved", "rejected"}]
    /\ reports \in [Copies -> Nat]
    /\ recorded \in Seq(Copies)
    /\ HistoryFollowsWrites
    /\ \A c \in Copies : CopyOK(c)

LEMMA ClipboardsInit == Init => Clipboards
BY DEF Init, Clipboards, HistoryFollowsWrites, CopyOK, Unrecorded, InHistory

-----------------------------------------------------------------------------
(* Steps before the recording *)

\* A step of one copy leaves what is kept of the others.
LEMMA OthersStayOK ==
    ASSUME Clipboards, NEW c \in Copies, NEW d \in Copies, d # c,
           pc'[d] = pc[d], reports'[d] = reports[d], host' = host,
           bitmaps' \subseteq bitmaps \cup {c}, written' \ {c} = written \ {c},
           failures' \ {c} = failures \ {c},
           recorded' = recorded \/ recorded' = Append(recorded, c)
    PROVE  CopyOK(d)'
<1>1. /\ d \in bitmaps' => d \in bitmaps
      /\ d \in written' <=> d \in written
      /\ d \in failures' <=> d \in failures
  OBVIOUS
<1>2. InHistory(d)' <=> InHistory(d)
  <2>1. CASE recorded' = recorded
    BY <2>1 DEF InHistory
  <2>2. CASE recorded' = Append(recorded, c)
    <3>1. /\ Len(recorded) \in Nat /\ Len(recorded') = Len(recorded) + 1
          /\ \A i \in 1 .. Len(recorded) : recorded'[i] = recorded[i]
          /\ recorded'[Len(recorded) + 1] = c
      BY <2>2 DEF Clipboards
    <3> QED BY <3>1 DEF InHistory
  <2> QED BY <2>1, <2>2
<1> QED BY <1>1, <1>2 DEF Clipboards, CopyOK, Unrecorded

\* A step that records nothing and takes nothing back.
LEMMA HistoryStays ==
    ASSUME Clipboards, recorded' = recorded, written \subseteq written'
    PROVE  HistoryFollowsWrites'
BY DEF Clipboards, HistoryFollowsWrites

LEMMA BeforeWriteOK ==
    ASSUME Clipboards, NEW c \in Copies,
           \/ CopyText(c) \/ CopyPng(c) \/ CopyOther(c) \/ Decoded(c) \/ Encoded(c)
    PROVE  Clipboards'
<1>1. PICK where \in {"decoding", "encoding", "writing", "rejected"} : Goto(c, where)
  BY DEF CopyText, CopyPng, CopyOther, Decoded, Encoded, Write
<1>2. /\ pc[c] \in {"idle", "decoding", "encoding"}
      /\ UNCHANGED <<host, written, recorded, failures, reports>>
      /\ bitmaps' \subseteq bitmaps \cup {c}
      /\ c \in bitmaps' => where = "encoding"
  BY <1>1 DEF CopyText, CopyPng, CopyOther, Decoded, Encoded, Write, Goto, Clipboards, CopyOK
<1>3. /\ pc' \in [Copies -> {"idle", "decoding", "encoding", "writing", "recording", "resolved", "rejected"}]
      /\ pc'[c] = where /\ \A d \in Copies \ {c} : pc'[d] = pc[d]
  BY <1>1 DEF Goto, Clipboards
<1>4. CopyOK(c)'
  BY <1>2, <1>3 DEF Clipboards, CopyOK, Unrecorded, InHistory
<1>5. \A d \in Copies : CopyOK(d)'
  BY <1>2, <1>3, <1>4, OthersStayOK
<1> QED BY <1>2, <1>3, <1>5, HistoryStays DEF Clipboards

LEMMA WriteSettledOK ==
    ASSUME Clipboards, NEW c \in Copies, WriteSettled(c)
    PROVE  Clipboards'
<1>1. PICK where \in {"recording", "resolved", "rejected"} :
        /\ Goto(c, where)
        /\ written' = IF where = "rejected" THEN written ELSE written \cup {c}
        /\ where = "resolved" => ~host.recorder
  BY DEF WriteSettled
<1>2. /\ pc[c] = "writing"
      /\ UNCHANGED <<host, bitmaps, recorded, failures, reports>>
  BY DEF WriteSettled
<1>3. /\ pc' \in [Copies -> {"idle", "decoding", "encoding", "writing", "recording", "resolved", "rejected"}]
      /\ pc'[c] = where /\ \A d \in Copies \ {c} : pc'[d] = pc[d]
  BY <1>1 DEF Goto, Clipboards
<1>4. CopyOK(c)'
  BY <1>1, <1>2, <1>3 DEF Clipboards, CopyOK, Unrecorded, InHistory
<1>5. \A d \in Copies : CopyOK(d)'
  BY <1>1, <1>2, <1>3, <1>4, OthersStayOK
<1> QED BY <1>1, <1>2, <1>3, <1>5, HistoryStays DEF Clipboards

-----------------------------------------------------------------------------
(* The recording *)

LEMMA RecordedOK ==
    ASSUME Clipboards, NEW c \in Copies, Recorded(c)
    PROVE  Clipboards'
<1> DEFINE n == Len(recorded)
<1>1. /\ pc[c] = "recording" /\ c \in written /\ Unrecorded(c)
      /\ UNCHANGED <<host, bitmaps, written, failures, reports>>
  BY DEF Recorded, Clipboards, CopyOK
<1>2. /\ pc' \in [Copies -> {"idle", "decoding", "encoding", "writing", "recording", "resolved", "rejected"}]
      /\ pc'[c] = "resolved" /\ \A d \in Copies \ {c} : pc'[d] = pc[d]
  BY DEF Recorded, Goto, Clipboards
<1>3. /\ recorded' = Append(recorded, c) /\ recorded' \in Seq(Copies)
      /\ n \in Nat /\ Len(recorded') = n + 1
      /\ \A i \in 1 .. n : recorded'[i] = recorded[i]
      /\ recorded'[n + 1] = c
  BY DEF Recorded, Clipboards
<1>4. CopyOK(c)'
  BY <1>1, <1>2, <1>3 DEF Clipboards, CopyOK, Unrecorded, InHistory
<1>5. \A d \in Copies : CopyOK(d)'
  BY <1>1, <1>2, <1>3, <1>4, OthersStayOK
<1>6. HistoryFollowsWrites'
  <2>1. \A i \in 1 .. n + 1 : recorded'[i] \in written
    BY <1>1, <1>3 DEF Clipboards, HistoryFollowsWrites
  <2>2. \A i \in 1 .. n : recorded'[i] # c
    BY <1>1, <1>3 DEF Unrecorded, InHistory
  <2>3. ASSUME NEW i \in 1 .. n + 1, NEW j \in 1 .. n + 1, recorded'[i] = recorded'[j]
        PROVE  i = j
    <3>1. CASE i = n + 1 \/ j = n + 1
      BY <1>3, <2>2, <2>3, <3>1
    <3>2. CASE i \in 1 .. n /\ j \in 1 .. n
      BY <1>3, <2>3, <3>2 DEF Clipboards, HistoryFollowsWrites
    <3> QED BY <1>3, <3>1, <3>2
  <2> QED BY <1>1, <1>3, <2>1, <2>3 DEF HistoryFollowsWrites
<1> QED BY <1>1, <1>2, <1>3, <1>5, <1>6 DEF Clipboards

LEMMA RecordFailedOK ==
    ASSUME Clipboards, NEW c \in Copies, RecordFailed(c)
    PROVE  Clipboards'
<1>1. PICK where \in {"resolved", "rejected"} :
        Goto(c, where) /\ (where = "rejected" => HandlerMayThrow)
  BY DEF RecordFailed
<1>2. /\ pc[c] = "recording" /\ c \in written /\ Unrecorded(c)
      /\ failures' = failures \cup {c}
      /\ UNCHANGED <<host, bitmaps, written, recorded>>
  BY DEF RecordFailed, Clipboards, CopyOK
<1>3. /\ reports' \in [Copies -> Nat]
      /\ reports'[c] = reports[c] + 1 /\ \A d \in Copies \ {c} : reports'[d] = reports[d]
  BY DEF RecordFailed, Clipboards
<1>4. /\ pc' \in [Copies -> {"idle", "decoding", "encoding", "writing", "recording", "resolved", "rejected"}]
      /\ pc'[c] = where /\ \A d \in Copies \ {c} : pc'[d] = pc[d]
  BY <1>1 DEF Goto, Clipboards
<1>5. CopyOK(c)'
  BY <1>1, <1>2, <1>3, <1>4 DEF Clipboards, CopyOK, Unrecorded, InHistory
<1>6. \A d \in Copies : CopyOK(d)'
  BY <1>2, <1>3, <1>4, <1>5, OthersStayOK
<1> QED BY <1>2, <1>3, <1>4, <1>6, HistoryStays DEF Clipboards

-----------------------------------------------------------------------------

LEMMA ClipboardsNext == Clipboards /\ [Next]_vars => Clipboards'
<1> SUFFICES ASSUME Clipboards, [Next]_vars PROVE Clipboards'
  OBVIOUS
<1>1. CASE UNCHANGED vars \/ OtherCopy
  BY <1>1 DEF vars, OtherCopy, Clipboards, HistoryFollowsWrites, CopyOK, Unrecorded, InHistory
<1>2. ASSUME NEW c \in Copies, CopyText(c) \/ CopyPng(c) \/ CopyOther(c) \/ Step(c)
      PROVE  Clipboards'
  BY <1>2, BeforeWriteOK, WriteSettledOK, RecordedOK, RecordFailedOK DEF Step
<1> QED BY <1>1, <1>2 DEF Next

LEMMA ClipboardsAlways == Spec => []Clipboards
<1>1. Init => Clipboards
  BY ClipboardsInit
<1>2. Clipboards /\ [Next]_vars => Clipboards'
  BY ClipboardsNext
<1> QED BY <1>1, <1>2, PTL DEF Spec

\* The history of the host holds only copies that were on the clipboard, each once.
THEOREM HistoryIsTrue == Spec => []HistoryFollowsWrites
<1>1. Clipboards => HistoryFollowsWrites
  BY DEF Clipboards
<1> QED BY <1>1, ClipboardsAlways, PTL

\* Whichever way a copy settles, its bitmap is closed; a resolved one is written,
\* and recorded or reported.
THEOREM SettledCopiesAreAccountedFor == Spec => []SettledIsAccountedFor
<1>1. Clipboards => SettledIsAccountedFor
  BY DEF Clipboards, CopyOK, InHistory, SettledIsAccountedFor, Settled
<1> QED BY <1>1, ClipboardsAlways, PTL

WrittenOK == written \subseteq Copies

LEMMA WrittenAreCopies == Spec => []WrittenOK
<1>1. Init => WrittenOK
  BY DEF Init, WrittenOK
<1>2. WrittenOK /\ [Next]_vars => WrittenOK'
  BY DEF WrittenOK, Next, vars, Step, CopyText, CopyPng, CopyOther, Decoded, Encoded, WriteSettled,
         Recorded, RecordFailed, OtherCopy
<1> QED BY <1>1, <1>2, PTL DEF Spec

\* With a handler that does not throw, a history failure never fails the copy.
THEOREM HistoryNeverFailsTheCopy ==
    ASSUME HandlerMayThrow = FALSE
    PROVE  Spec => []WrittenNeverRejects
<1>1. WrittenOK /\ Clipboards => WrittenNeverRejects
  BY DEF WrittenOK, Clipboards, CopyOK, WrittenNeverRejects
<1> QED BY <1>1, WrittenAreCopies, ClipboardsAlways, PTL
=============================================================================

------------------------------- MODULE Clipboard ------------------------------
(***************************************************************************)
(* ClipboardService over WebClipboard (clients/typescript/src/clipboard.ts)*)
(* A host starts copies of text and images, several at once; each one is   *)
(* converted if it must be, written to the system clipboard, and then      *)
(* recorded in the history of the host, if the host has a recorder.  The   *)
(* browser, the recorder and the host's error handler may each fail.       *)
(***************************************************************************)
EXTENDS Integers, Sequences, FiniteSets

CONSTANTS
    Copies,          \* calls of copyText and copyImage
    HandlerMayThrow  \* the host's onRecordError may throw

ASSUME ClipboardAssumption == HandlerMayThrow \in BOOLEAN

\* What the host offers: navigator.clipboard.writeText and .write with
\* ClipboardItem, createImageBitmap with OffscreenCanvas, a recorder.
Hosts == [writeText : BOOLEAN, writeImage : BOOLEAN, convert : BOOLEAN, recorder : BOOLEAN]

VARIABLES
    host,      \* capabilities and options, fixed when the service is built
    pc,        \* where each copy is
    bitmaps,   \* copies that hold a decoded bitmap
    board,     \* the copy the system clipboard holds
    written,   \* history: copies the browser has written
    recorded,  \* the host's history, in order
    failures,  \* history: copies whose recording failed
    reports    \* history: calls of onRecordError per copy

vars == <<host, pc, bitmaps, board, written, recorded, failures, reports>>

Nothing == "nothing"
Settled == {"resolved", "rejected"}

Init ==
    /\ host \in Hosts
    /\ pc = [c \in Copies |-> "idle"]
    /\ bitmaps = {}
    /\ board = Nothing
    /\ written = {}
    /\ recorded = <<>>
    /\ failures = {}
    /\ reports = [c \in Copies |-> 0]

Goto(c, where) == pc' = [pc EXCEPT ![c] = where]

-----------------------------------------------------------------------------
\* WebClipboard.writeText and writeImage up to the browser's promise: without
\* the API they throw, and the copy rejects.
Write(c, able) == Goto(c, IF able THEN "writing" ELSE "rejected")

CopyText(c) ==
    /\ pc[c] = "idle"
    /\ Write(c, host.writeText)
    /\ UNCHANGED <<host, bitmaps, board, written, recorded, failures, reports>>

\* A PNG is taken as it is: the write follows in the same task.
CopyPng(c) ==
    /\ pc[c] = "idle"
    /\ Write(c, host.writeImage)
    /\ UNCHANGED <<host, bitmaps, board, written, recorded, failures, reports>>

\* Any other image is converted first, if the host can.
CopyOther(c) ==
    /\ pc[c] = "idle"
    /\ Goto(c, IF host.convert THEN "decoding" ELSE "rejected")
    /\ UNCHANGED <<host, bitmaps, board, written, recorded, failures, reports>>

\* createImageBitmap settles.  No 2d context: throw, through the finally.
Decoded(c) ==
    /\ pc[c] = "decoding"
    /\ \/ Goto(c, "encoding") /\ bitmaps' = bitmaps \cup {c}
       \/ Goto(c, "rejected") /\ UNCHANGED bitmaps
    /\ UNCHANGED <<host, board, written, recorded, failures, reports>>

\* Mutant: the bitmap is closed after the conversion, not in a finally.
EncodedWithoutFinally(c) ==
    /\ pc[c] = "encoding"
    /\ \/ Write(c, host.writeImage) /\ bitmaps' = bitmaps \ {c}
       \/ Goto(c, "rejected") /\ UNCHANGED bitmaps
    /\ UNCHANGED <<host, board, written, recorded, failures, reports>>

\* Mutant: a conversion that yields no blob leaves its promise unsettled.
EncodedUnanswered(c) ==
    /\ pc[c] = "encoding"
    /\ bitmaps' = bitmaps \ {c}
    /\ \/ Write(c, host.writeImage)
       \/ Goto(c, "forgotten")
    /\ UNCHANGED <<host, board, written, recorded, failures, reports>>

\* convertToBlob settles; the finally closes the bitmap either way.
Encoded(c) ==
    /\ pc[c] = "encoding"
    /\ bitmaps' = bitmaps \ {c}
    /\ \/ Write(c, host.writeImage)
       \/ Goto(c, "rejected")
    /\ UNCHANGED <<host, board, written, recorded, failures, reports>>

\* Mutant: history is written although the browser refused.
WriteSettledEitherWay(c) ==
    /\ pc[c] = "writing"
    /\ \/ board' = c /\ written' = written \cup {c}
       \/ UNCHANGED <<board, written>>
    /\ Goto(c, IF host.recorder THEN "recording" ELSE "resolved")
    /\ UNCHANGED <<host, bitmaps, recorded, failures, reports>>

\* The browser's write settles.
WriteSettled(c) ==
    /\ pc[c] = "writing"
    /\ \/ /\ board' = c
          /\ written' = written \cup {c}
          /\ Goto(c, IF host.recorder THEN "recording" ELSE "resolved")
       \/ Goto(c, "rejected") /\ UNCHANGED <<board, written>>
    /\ UNCHANGED <<host, bitmaps, recorded, failures, reports>>

\* The recorder has recorded the copy.
Recorded(c) ==
    /\ pc[c] = "recording"
    /\ recorded' = Append(recorded, c)
    /\ Goto(c, "resolved")
    /\ UNCHANGED <<host, bitmaps, board, written, failures, reports>>

\* Mutant: the recorder's error is thrown on instead of reported.
RecordFailedThrows(c) ==
    /\ pc[c] = "recording"
    /\ failures' = failures \cup {c}
    /\ Goto(c, "rejected")
    /\ UNCHANGED <<host, bitmaps, board, written, recorded, reports>>

\* The recorder rejects: onRecordError is called, in the catch block.
RecordFailed(c) ==
    /\ pc[c] = "recording"
    /\ failures' = failures \cup {c}
    /\ reports' = [reports EXCEPT ![c] = @ + 1]
    /\ \/ Goto(c, "resolved")
       \/ HandlerMayThrow /\ Goto(c, "rejected")
    /\ UNCHANGED <<host, bitmaps, board, written, recorded>>

\* Another application, or the user, copies something else.
OtherCopy ==
    /\ board # Nothing
    /\ board' = Nothing
    /\ UNCHANGED <<host, pc, bitmaps, written, recorded, failures, reports>>

Step(c) == Decoded(c) \/ Encoded(c) \/ WriteSettled(c) \/ Recorded(c) \/ RecordFailed(c)

Next ==
    \/ \E c \in Copies : CopyText(c) \/ CopyPng(c) \/ CopyOther(c) \/ Step(c)
    \/ OtherCopy

Spec == Init /\ [][Next]_vars

\* Every promise of the browser and of the recorder settles some day.
FairSpec == Spec /\ \A c \in Copies : WF_vars(Step(c))

-----------------------------------------------------------------------------
(* Properties *)

\* The history holds nothing that never was on the clipboard, and holds it once:
\* a copy is recorded after the fact.
HistoryFollowsWrites ==
    /\ \A i \in 1 .. Len(recorded) : recorded[i] \in written
    /\ \A i, j \in 1 .. Len(recorded) : recorded[i] = recorded[j] => i = j

\* "A history failure never fails the copy": a copy that reached the clipboard
\* does not reject.
WrittenNeverRejects == \A c \in written : pc[c] # "rejected"

\* A copy that settled holds no bitmap, whichever way its conversion ended; one
\* that resolved reached the clipboard, and its recording either is in the history
\* or was reported to the host, once.
SettledIsAccountedFor ==
    \A c \in Copies :
        /\ pc[c] \in Settled => c \notin bitmaps
        /\ pc[c] = "resolved" =>
            /\ c \in written
            /\ host.recorder => (c \in failures) # (\E i \in 1 .. Len(recorded) : recorded[i] = c)
            /\ reports[c] = IF c \in failures THEN 1 ELSE 0

\* Every copy that was started is answered.
EveryCopySettles == \A c \in Copies : pc[c] # "idle" ~> pc[c] \in Settled
=============================================================================

-------------------------- MODULE ReactiveSyncProofs --------------------------
(***************************************************************************)
(* TLAPS proofs about ReactiveSync, for any consumers, cursors, retries.   *)
(***************************************************************************)
EXTENDS ReactiveSync, TLAPS

(***************************************************************************)
(* The control part of the inductive invariant: what each kind of pending  *)
(* work says of the connection and of the phase of the snapshot.           *)
(***************************************************************************)

\* A call whose subscriber is open is the one the connection waits for.
CallsOK ==
    \A c \in calls :
        /\ c.closed <=> c.aborted
        /\ ~c.closed => /\ connected /\ c.execution = execution
                        /\ c.cursor = position /\ c.attempt = soFar
                        /\ ~timer /\ todo = "none" /\ snapshot.phase = "pulling"

TimerOK == timer => connected /\ todo = "none" /\ snapshot.phase = "pulling"

\* The rest of a task belongs to an open connection, in the phase it needs.
TodoOK ==
    /\ todo # "none" => connected /\ ~hasCompleted
    /\ todo = "start" => snapshot.phase = "idle"
    /\ todo \in {"firstPull", "nextPull", "completed"} => snapshot.phase = "pulling"
    /\ todo = "complete" => Finished

\* The reference count: connected and open exactly while somebody is attached.
ShareOK ==
    /\ ~connected => snapshot = Initial /\ ~hasCompleted /\ Attached = {}
    /\ connected /\ ~hasCompleted => Attached # {}
    /\ hasCompleted => connected /\ Finished /\ Attached = {}

\* An open connection with no work at hand waits for an answer or its timer.
WaitOK ==
    connected /\ ~hasCompleted /\ todo = "none" =>
        snapshot.phase = "pulling" /\ (timer \/ \E c \in calls : ~c.closed)

Control == TypeOK /\ CallsOK /\ TimerOK /\ TodoOK /\ ShareOK /\ WaitOK

USE SyncAssumption DEF SyncAssumption

LEMMA InitialType == Initial \in Snapshots
  BY DEF Initial, Snapshots, AnyCursor

LEMMA ControlInit == Init => Control
<1> SUFFICES ASSUME Init PROVE Control
  OBVIOUS
<1>1. TypeOK
  <2>1. seen \in [Subscribers -> Snapshots] /\ snapshot \in Snapshots
    BY InitialType DEF Init
  <2>2. issued \in [AnyCursor -> Nat] /\ accepted \in Seq([from : AnyCursor, page : Pages])
    BY DEF Init, NothingIssued
  <2>3. requestedCursors \subseteq AnyCursor /\ position \in AnyCursor
    BY DEF Init, FreshHistory, AnyCursor
  <2>4. status \in [Subscribers -> {"out", "in", "ended"}]
    BY DEF Init
  <2>6. execution \in Executions /\ soFar \in 0 .. MaxRetries
    BY DEF Init
  <2>7. ~connected /\ ~hasCompleted /\ ~timer
    BY DEF Init
  <2>5. calls \subseteq PullCalls /\ orphans \subseteq PullCalls /\ todo = "none"
    BY DEF Init
  <2> QED BY <2>1, <2>2, <2>3, <2>4, <2>5, <2>6, <2>7 DEF Init, TypeOK
<1>2. CallsOK /\ TimerOK /\ TodoOK /\ ShareOK /\ WaitOK
  BY DEF Init, CallsOK, TimerOK, TodoOK, ShareOK, WaitOK, Attached
<1> QED BY <1>1, <1>2 DEF Control

-----------------------------------------------------------------------------
(* What the operators return. *)

\* In the phases it accepts, the reducer returns a snapshot and never throws.
LEMMA StartedType ==
  ASSUME NEW st \in Snapshots, st.phase = "idle"
  PROVE  /\ ReduceStarted(st) = [st EXCEPT !.phase = "pulling"]
         /\ ReduceStarted(st) \in Snapshots
  BY DEF Reduce, ReduceStarted, Snapshots

LEMMA CompletedType ==
  ASSUME NEW st \in Snapshots, st.phase = "pulling"
  PROVE  /\ ReduceCompleted(st) = [st EXCEPT !.phase = "completed"]
         /\ ReduceCompleted(st) \in Snapshots
  BY DEF Reduce, ReduceCompleted, Snapshots

LEMMA FailedType ==
  ASSUME NEW st \in Snapshots, st.phase = "pulling", NEW k \in FailureKinds
  PROVE  /\ ReduceFailed(st, k) = [st EXCEPT !.phase = "failed", !.failure = k]
         /\ ReduceFailed(st, k) \in Snapshots
  BY DEF Reduce, ReduceFailed, Snapshots, FailureKinds

LEMMA PageReceivedType ==
  ASSUME NEW st \in Snapshots, st.phase = "pulling", NEW p \in Pages
  PROVE  /\ ReducePageReceived(st, p) =
              [st EXCEPT !.cursor = p.cursor,
                         !.receivedPages = st.receivedPages + 1,
                         !.receivedMutations = st.receivedMutations + p.mutations]
         /\ ReducePageReceived(st, p) \in Snapshots
<1>1. ReducePageReceived(st, p) =
        [st EXCEPT !.cursor = p.cursor,
                   !.receivedPages = st.receivedPages + 1,
                   !.receivedMutations = st.receivedMutations + p.mutations]
  BY DEF Reduce, ReducePageReceived
<1>2. p.cursor \in AnyCursor /\ p.mutations \in Nat
  BY DEF Pages
<1>3. st.receivedPages + 1 \in Nat /\ st.receivedMutations + p.mutations \in Nat
  BY <1>2 DEF Snapshots
<1> QED BY <1>1, <1>2, <1>3 DEF Snapshots

LEMMA ClassifyType == \A e : ClassifySyncFailure(e) \in FailureKinds
  BY DEF ClassifySyncFailure, FailureKinds

LEMMA CallType ==
  ASSUME NEW e \in Executions, NEW c \in AnyCursor, NEW a \in 0 .. MaxRetries
  PROVE  PullCall(e, c, a) \in PullCalls
  BY DEF PullCall, PullCalls

LEMMA TeardownType ==
  ASSUME NEW c \in PullCalls
  PROVE  /\ Teardown(c) \in PullCalls
         /\ Teardown(c).closed = TRUE
         /\ Teardown(c).aborted = TRUE
  BY DEF Teardown, PullCalls

LEMMA EmitType ==
  ASSUME TypeOK, NEW next \in Snapshots, Emit(next)
  PROVE  snapshot' \in Snapshots /\ seen' \in [Subscribers -> Snapshots]
  BY DEF TypeOK, Emit

LEMMA IssueType ==
  ASSUME TypeOK, NEW c \in AnyCursor, NEW a \in 0 .. MaxRetries, IssuePull(c, a)
  PROVE  calls' \subseteq PullCalls /\ issued' \in [AnyCursor -> Nat]
<1>1. PullCall(execution, c, a) \in PullCalls
  BY CallType DEF TypeOK
<1> QED BY <1>1 DEF TypeOK, IssuePull

-----------------------------------------------------------------------------
(* Every action keeps the control invariant. *)

LEMMA FirstSubscribeControl ==
  ASSUME Control, NEW s \in Subscribers, FirstSubscribe(s)
  PROVE  Control'
<1> USE DEF Control
<1>1. TypeOK'
  <2>1. /\ seen' \in [Subscribers -> Snapshots]
        /\ status' \in [Subscribers -> {"out", "in", "ended"}]
    BY InitialType DEF FirstSubscribe, TypeOK
  <2>2. execution' \in Executions /\ connected' = TRUE /\ todo' = "start"
    BY DEF FirstSubscribe
  <2> QED BY <2>1, <2>2 DEF FirstSubscribe, TypeOK, pullVars, history
<1>2. CallsOK' /\ TimerOK'
  BY DEF FirstSubscribe, CallsOK, TimerOK, pullVars, history
<1>3. TodoOK'
  BY DEF FirstSubscribe, ShareOK, TodoOK, Initial
<1>4. s \in Attached'
  BY DEF FirstSubscribe, Attached, TypeOK
<1>5. ShareOK' /\ WaitOK'
  BY <1>4 DEF FirstSubscribe, ShareOK, WaitOK
<1> QED BY <1>1, <1>2, <1>3, <1>5

LEMMA LateSubscribeControl ==
  ASSUME Control, NEW s \in Subscribers, LateSubscribe(s)
  PROVE  Control'
<1> USE DEF Control
<1>1. TypeOK'
  <2>1. /\ seen' \in [Subscribers -> Snapshots]
        /\ status' \in [Subscribers -> {"out", "in", "ended"}]
    BY DEF LateSubscribe, TypeOK
  <2> QED BY <2>1 DEF LateSubscribe, TypeOK, shareVars, pullVars, history
<1>2. CallsOK' /\ TimerOK' /\ WaitOK' /\ TodoOK'
  BY DEF LateSubscribe, CallsOK, TimerOK, WaitOK, TodoOK, Finished, shareVars, pullVars, history
<1>3. ShareOK'
  <2>1. hasCompleted => Attached' = Attached
    BY DEF LateSubscribe, Attached, TypeOK
  <2>2. ~hasCompleted => s \in Attached'
    BY DEF LateSubscribe, Attached, TypeOK
  <2> QED BY <2>1, <2>2 DEF LateSubscribe, ShareOK, Finished, shareVars
<1> QED BY <1>1, <1>2, <1>3

LEMMA UnsubscribeControl ==
  ASSUME Control, NEW s \in Subscribers, Unsubscribe(s)
  PROVE  Control'
<1> USE DEF Control
<1>1. /\ seen' \in [Subscribers -> Snapshots]
      /\ status' \in [Subscribers -> {"out", "in", "ended"}]
  BY InitialType DEF Unsubscribe, TypeOK
<1>2. s \in Attached /\ Attached' = Attached \ {s}
  BY DEF Unsubscribe, Attached, TypeOK
<1>3. connected /\ ~hasCompleted
  BY <1>2 DEF ShareOK
<1>4. /\ UNCHANGED <<execution, hasCompleted, requestedCursors, position, soFar>>
  BY DEF Unsubscribe
<1>5. CASE Attached = {s}
  <2>1. ResetConnection
    BY <1>3, <1>5 DEF Unsubscribe
  <2>2. \A c \in calls' : c \in PullCalls /\ c.closed /\ c.aborted
    <3> SUFFICES ASSUME NEW d \in calls'
                 PROVE  d \in PullCalls /\ d.closed /\ d.aborted
      OBVIOUS
    <3>1. PICK c \in calls :
            d = IF c.execution = execution /\ ~c.closed THEN Teardown(c) ELSE c
      BY <2>1 DEF ResetConnection
    <3>2. c \in PullCalls
      BY DEF TypeOK
    <3>3. CASE ~c.closed
      BY <3>1, <3>2, <3>3, TeardownType DEF CallsOK
    <3>4. CASE c.closed
      BY <3>1, <3>2, <3>4 DEF CallsOK
    <3> QED BY <3>3, <3>4
  <2>3. orphans' \subseteq PullCalls
    <3>1. snapshot.cursor \in AnyCursor
      BY DEF TypeOK, Snapshots
    <3>2. PullCall(execution, snapshot.cursor, 0) \in PullCalls
      BY <3>1 DEF TypeOK, PullCall, PullCalls
    <3>3. orphans \subseteq PullCalls
      BY DEF TypeOK
    <3>4. orphans' \subseteq orphans \cup {PullCall(execution, snapshot.cursor, 0)}
      BY <2>1 DEF ResetConnection
    <3> QED BY <3>2, <3>3, <3>4
  <2>4. /\ accepted' \in Seq([from : AnyCursor, page : Pages])
        /\ issued' \in [AnyCursor -> Nat]
    BY <2>1 DEF ResetConnection, NothingIssued
  <2>5. /\ snapshot' = Initial /\ snapshot' \in Snapshots
        /\ connected' = FALSE /\ timer' = FALSE /\ todo' = "none"
    BY <2>1, InitialType DEF ResetConnection
  <2>6. TypeOK'
    <3>1. calls' \subseteq PullCalls
      BY <2>2
    <3> QED BY <1>1, <1>4, <2>3, <2>4, <2>5, <3>1 DEF TypeOK
  <2>7. CallsOK' /\ TimerOK'
    BY <2>2, <2>5 DEF CallsOK, TimerOK
  <2>8. TodoOK' /\ ShareOK' /\ WaitOK'
    BY <1>2, <1>3, <1>4, <1>5, <2>5 DEF TodoOK, ShareOK, WaitOK
  <2> QED BY <2>6, <2>7, <2>8
<1>6. CASE Attached # {s}
  <2>1. UNCHANGED <<connected, snapshot, calls, timer, todo, orphans, history>>
    BY <1>6 DEF Unsubscribe
  <2>2. TypeOK'
    BY <1>1, <1>4, <2>1 DEF TypeOK, history
  <2>3. CallsOK' /\ TimerOK' /\ WaitOK' /\ TodoOK'
    BY <1>4, <2>1 DEF CallsOK, TimerOK, WaitOK, TodoOK, Finished
  <2>4. ShareOK'
    BY <1>2, <1>3, <1>4, <1>6, <2>1 DEF ShareOK
  <2> QED BY <2>2, <2>3, <2>4
<1> QED BY <1>5, <1>6

LEMMA EmitStartedControl ==
  ASSUME Control, EmitStarted
  PROVE  Control'
<1> USE DEF Control
<1>1. /\ snapshot \in Snapshots /\ snapshot.phase = "idle"
      /\ connected /\ ~hasCompleted /\ todo = "start"
  BY DEF EmitStarted, TodoOK, TypeOK
<1>2. Emit(ReduceStarted(snapshot)) /\ todo' = "firstPull"
  BY DEF EmitStarted
<1>3. snapshot' \in Snapshots /\ seen' \in [Subscribers -> Snapshots]
  BY <1>1, <1>2, StartedType, EmitType
<1>4. snapshot'.phase = "pulling"
  BY <1>1, <1>2, StartedType DEF Emit, Snapshots
<1>5. TypeOK'
  BY <1>2, <1>3 DEF EmitStarted, TypeOK, shareVars, pullVars, history
<1>6. CallsOK' /\ TimerOK'
  BY <1>1, <1>2 DEF EmitStarted, CallsOK, TimerOK, shareVars, pullVars
<1>7. Attached' = Attached
  BY DEF EmitStarted, Attached
<1>8. TodoOK' /\ ShareOK' /\ WaitOK'
  BY <1>1, <1>2, <1>4, <1>7 DEF EmitStarted, TodoOK, ShareOK, WaitOK, shareVars
<1> QED BY <1>5, <1>6, <1>8

\* The step FirstPull, NextPull and RetryTimer share.
LEMMA IssueControl ==
  ASSUME Control, connected, ~hasCompleted, snapshot.phase = "pulling",
         \A c \in calls : c.closed,
         IssuePull(position', soFar'), position' \in AnyCursor, soFar' \in 0 .. MaxRetries,
         requestedCursors' \subseteq AnyCursor, timer' = FALSE, todo' = "none",
         UNCHANGED <<consumerVars, shareVars, snapshot, orphans, accepted>>
  PROVE  Control'
<1> USE DEF Control
<1> DEFINE new == PullCall(execution, position', soFar')
<1>1. calls' = calls \cup {new}
  BY DEF IssuePull
<1>2. calls' \subseteq PullCalls /\ issued' \in [AnyCursor -> Nat]
  BY IssueType
<1>3. TypeOK'
  BY <1>2 DEF TypeOK, consumerVars, shareVars
<1>4. /\ new.execution = execution /\ new.cursor = position' /\ new.attempt = soFar'
      /\ new.closed = FALSE /\ new.aborted = FALSE
  BY DEF PullCall
<1>5. CallsOK'
  <2> SUFFICES ASSUME NEW c \in calls'
               PROVE  /\ c.closed <=> c.aborted
                      /\ ~c.closed => /\ connected' /\ c.execution = execution'
                                      /\ c.cursor = position' /\ c.attempt = soFar'
                                      /\ ~timer' /\ todo' = "none"
                                      /\ snapshot'.phase = "pulling"
    BY DEF CallsOK
  <2>1. CASE c \in calls
    BY <2>1 DEF CallsOK
  <2>2. CASE c = new
    BY <1>4, <2>2 DEF shareVars
  <2> QED BY <1>1, <2>1, <2>2
<1>6. TimerOK' /\ TodoOK' /\ WaitOK'
  BY <1>1, <1>4 DEF TimerOK, TodoOK, WaitOK, shareVars
<1>7. ShareOK'
  BY DEF ShareOK, Attached, Finished, consumerVars, shareVars
<1> QED BY <1>3, <1>5, <1>6, <1>7

LEMMA FirstPullControl ==
  ASSUME Control, FirstPull
  PROVE  Control'
<1>1. todo = "firstPull"
  BY DEF FirstPull
<1>2. /\ connected /\ ~hasCompleted /\ snapshot.phase = "pulling"
      /\ \A c \in calls : c.closed
      /\ timer = FALSE
  BY <1>1 DEF Control, TodoOK, CallsOK, TimerOK, TypeOK
<1>3. /\ position' \in AnyCursor /\ soFar' \in 0 .. MaxRetries
      /\ requestedCursors' \subseteq AnyCursor
  BY DEF FirstPull, AnyCursor, FreshHistory
<1>4. IssuePull(position', soFar')
  BY DEF FirstPull
<1>5. /\ timer' = FALSE /\ todo' = "none"
      /\ UNCHANGED <<consumerVars, shareVars, snapshot, orphans, accepted>>
  BY <1>2 DEF FirstPull
<1> QED BY <1>2, <1>3, <1>4, <1>5, IssueControl

LEMMA NextPullControl ==
  ASSUME Control, NextPull
  PROVE  Control'
<1>1. todo = "nextPull"
  BY DEF NextPull
<1>2. /\ connected /\ ~hasCompleted /\ snapshot.phase = "pulling"
      /\ \A c \in calls : c.closed
      /\ timer = FALSE
  BY <1>1 DEF Control, TodoOK, CallsOK, TimerOK, TypeOK
<1>3. requestedCursors \subseteq AnyCursor /\ snapshot.cursor \in AnyCursor
  BY DEF Control, TypeOK, Snapshots
<1>4. /\ position' \in AnyCursor /\ soFar' \in 0 .. MaxRetries
      /\ requestedCursors' \subseteq AnyCursor
  BY <1>3 DEF NextPull
<1>5. IssuePull(position', soFar')
  BY DEF NextPull
<1>6. /\ timer' = FALSE /\ todo' = "none"
      /\ UNCHANGED <<consumerVars, shareVars, snapshot, orphans, accepted>>
  BY <1>2 DEF NextPull
<1> QED BY <1>2, <1>4, <1>5, <1>6, IssueControl

LEMMA RetryTimerControl ==
  ASSUME Control, RetryTimer
  PROVE  Control'
<1>1. timer /\ todo = "none"
  BY DEF RetryTimer, Quiet
<1>2. /\ connected /\ snapshot.phase = "pulling"
      /\ \A c \in calls : c.closed
  BY <1>1 DEF Control, CallsOK, TimerOK
<1>3. ~hasCompleted
  BY <1>2 DEF Control, ShareOK, Finished
<1>4. /\ requestedCursors \subseteq AnyCursor
      /\ position \in AnyCursor /\ soFar \in 0 .. MaxRetries
  BY DEF Control, TypeOK
<1>5. /\ position' = position /\ soFar' = soFar /\ requestedCursors' = requestedCursors
      /\ timer' = FALSE /\ todo' = "none"
      /\ UNCHANGED <<consumerVars, shareVars, snapshot, orphans, accepted>>
  BY <1>1 DEF RetryTimer
<1>6. IssuePull(position', soFar')
  BY <1>5 DEF RetryTimer
<1> QED BY <1>2, <1>3, <1>4, <1>5, <1>6, IssueControl

LEMMA EmitCompletedControl ==
  ASSUME Control, EmitCompleted
  PROVE  Control'
<1> USE DEF Control
<1>1. /\ snapshot \in Snapshots /\ snapshot.phase = "pulling"
      /\ connected /\ ~hasCompleted /\ todo = "completed"
  BY DEF EmitCompleted, TodoOK, TypeOK
<1>2. Emit(ReduceCompleted(snapshot)) /\ todo' = "complete"
  BY DEF EmitCompleted
<1>3. snapshot' \in Snapshots /\ seen' \in [Subscribers -> Snapshots]
  BY <1>1, <1>2, CompletedType, EmitType
<1>4. snapshot'.phase = "completed"
  BY <1>1, <1>2, CompletedType DEF Emit, Snapshots
<1>5. TypeOK'
  BY <1>2, <1>3 DEF EmitCompleted, TypeOK, shareVars, pullVars, history
<1>6. CallsOK' /\ TimerOK'
  BY <1>1, <1>2 DEF EmitCompleted, CallsOK, TimerOK, shareVars, pullVars
<1>7. Attached' = Attached
  BY DEF EmitCompleted, Attached
<1>8. TodoOK' /\ ShareOK' /\ WaitOK'
  BY <1>1, <1>2, <1>4, <1>7 DEF EmitCompleted, TodoOK, ShareOK, WaitOK, Finished, shareVars
<1> QED BY <1>5, <1>6, <1>8

LEMMA CompleteControl ==
  ASSUME Control, Complete
  PROVE  Control'
<1> USE DEF Control
<1>1. connected /\ ~hasCompleted /\ todo = "complete" /\ Finished
  BY DEF Complete, TodoOK
<1>2. hasCompleted' = TRUE /\ todo' = "none" /\ Finished' /\ connected'
  BY <1>1 DEF Complete, Finished
<1>3. Attached' = {}
  BY DEF Complete, Attached, TypeOK
<1>4. status' \in [Subscribers -> {"out", "in", "ended"}]
  BY DEF Complete, TypeOK
<1>5. TypeOK'
  BY <1>2, <1>4 DEF Complete, TypeOK, pullVars, history
<1>6. CallsOK' /\ TimerOK'
  BY <1>1, <1>2 DEF Complete, CallsOK, TimerOK, pullVars
<1>7. TodoOK' /\ ShareOK' /\ WaitOK'
  BY <1>2, <1>3 DEF TodoOK, ShareOK, WaitOK
<1> QED BY <1>5, <1>6, <1>7

LEMMA OrphanPullControl ==
  ASSUME Control, NEW call \in orphans, OrphanPull(call)
  PROVE  Control'
<1> USE DEF Control
<1>1. call \in PullCalls
  BY DEF TypeOK
<1>2. /\ calls' = calls \cup {Teardown(call)} /\ orphans' \subseteq orphans
      /\ UNCHANGED <<consumerVars, shareVars, snapshot, pullVars, todo, history>>
  BY DEF OrphanPull
<1>3. Teardown(call) \in PullCalls /\ Teardown(call).closed /\ Teardown(call).aborted
  BY <1>1, TeardownType
<1>4. calls' \subseteq PullCalls /\ orphans' \subseteq PullCalls
  BY <1>2, <1>3 DEF TypeOK
<1>5. TypeOK'
  BY <1>2, <1>4 DEF TypeOK, consumerVars, shareVars, pullVars, history
<1>6. CallsOK' /\ TimerOK' /\ WaitOK'
  BY <1>2, <1>3 DEF CallsOK, TimerOK, WaitOK, shareVars, pullVars
<1>7. TodoOK' /\ ShareOK'
  BY <1>2 DEF TodoOK, ShareOK, Finished, Attached, consumerVars, shareVars
<1> QED BY <1>5, <1>6, <1>7

\* At most one call has an open subscriber: two would agree in every field.
LEMMA OpenIsUnique ==
  ASSUME TypeOK, CallsOK, NEW c \in calls, NEW d \in calls, ~c.closed, ~d.closed
  PROVE  c = d
<1>1. /\ c.execution = d.execution /\ c.cursor = d.cursor /\ c.attempt = d.attempt
      /\ ~c.aborted /\ ~d.aborted
  BY DEF CallsOK
<1>2. c \in PullCalls /\ d \in PullCalls
  BY DEF TypeOK
<1>3. c.closed = d.closed /\ c.aborted = d.aborted
  BY <1>1, <1>2 DEF PullCalls
<1> QED BY <1>1, <1>2, <1>3 DEF PullCalls

\* An answer that is not dropped is the one the connection waits for, and
\* leaves no other open call.
LEMMA AnsweredFacts ==
  ASSUME Control, NEW call \in calls, Answered(call)
  PROVE  /\ connected /\ ~hasCompleted /\ snapshot.phase = "pulling"
         /\ timer = FALSE /\ todo = "none" /\ orphans = {}
         /\ call.cursor = position /\ call.attempt = soFar
         /\ calls' \subseteq PullCalls
         /\ \A c \in calls' : c.closed /\ c.aborted
<1> USE DEF Control
<1>1. /\ ~call.closed /\ todo = "none" /\ orphans = {} /\ calls' = calls \ {call}
  BY DEF Answered, Closed, Quiet
<1>2. /\ connected /\ snapshot.phase = "pulling" /\ timer = FALSE
      /\ call.cursor = position /\ call.attempt = soFar
  BY <1>1 DEF CallsOK, TypeOK
<1>3. ~hasCompleted
  BY <1>2 DEF ShareOK, Finished
<1>4. \A c \in calls' : c.closed /\ c.aborted
  BY <1>1, OpenIsUnique DEF CallsOK
<1>5. calls' \subseteq PullCalls
  BY <1>1 DEF TypeOK
<1> QED BY <1>1, <1>2, <1>3, <1>4, <1>5

LEMMA DropAnswerControl ==
  ASSUME Control, NEW call \in calls, DropAnswer(call)
  PROVE  Control'
<1> USE DEF Control
<1>1. /\ calls' = calls \ {call} /\ call.closed
      /\ UNCHANGED <<consumerVars, shareVars, snapshot, pullVars, todo, orphans, history>>
  BY DEF DropAnswer, Closed
<1>2. calls' \subseteq PullCalls
  BY <1>1 DEF TypeOK
<1>3. TypeOK'
  BY <1>1, <1>2 DEF TypeOK, consumerVars, shareVars, pullVars, history
<1>4. CallsOK' /\ TimerOK' /\ WaitOK'
  BY <1>1 DEF CallsOK, TimerOK, WaitOK, shareVars, pullVars
<1>5. TodoOK' /\ ShareOK'
  BY <1>1 DEF TodoOK, ShareOK, Finished, Attached, consumerVars, shareVars
<1> QED BY <1>3, <1>4, <1>5

LEMMA AcceptPageControl ==
  ASSUME Control, NEW call \in calls, NEW page \in Pages, AcceptPage(call, page)
  PROVE  Control'
<1> USE DEF Control
<1>1. Answered(call)
  BY DEF AcceptPage
<1>2. /\ connected /\ ~hasCompleted /\ snapshot.phase = "pulling" /\ timer = FALSE
      /\ calls' \subseteq PullCalls
      /\ \A c \in calls' : c.closed /\ c.aborted
  BY <1>1, AnsweredFacts
<1>3. /\ Emit(ReducePageReceived(snapshot, page))
      /\ todo' \in {"nextPull", "completed"}
      /\ accepted' = Append(accepted, [from |-> call.cursor, page |-> page])
      /\ UNCHANGED <<status, shareVars, position, soFar, timer, orphans, issued>>
  BY DEF AcceptPage
<1>4. snapshot \in Snapshots
  BY DEF TypeOK
<1>5. /\ snapshot' \in Snapshots /\ seen' \in [Subscribers -> Snapshots]
  BY <1>2, <1>3, <1>4, PageReceivedType, EmitType
<1>6. snapshot'.phase = "pulling"
  <2>1. snapshot' = ReducePageReceived(snapshot, page)
    BY <1>3 DEF Emit
  <2>2. snapshot' = [snapshot EXCEPT !.cursor = page.cursor,
                               !.receivedPages = snapshot.receivedPages + 1,
                               !.receivedMutations = snapshot.receivedMutations + page.mutations]
    BY <1>2, <1>4, <2>1, PageReceivedType
  <2> QED BY <1>2, <1>4, <2>2 DEF Snapshots
<1>7. requestedCursors' \subseteq AnyCursor
  <2>1. page.cursor \in AnyCursor /\ requestedCursors \subseteq AnyCursor
    BY DEF Pages, TypeOK
  <2> QED BY <2>1 DEF AcceptPage
<1>8. accepted' \in Seq([from : AnyCursor, page : Pages])
  <2>1. call.cursor \in AnyCursor
    BY DEF TypeOK, PullCalls
  <2>2. [from |-> call.cursor, page |-> page] \in [from : AnyCursor, page : Pages]
    BY <2>1
  <2>3. accepted \in Seq([from : AnyCursor, page : Pages])
    BY DEF TypeOK
  <2> QED BY <1>3, <2>2, <2>3
<1>9. TypeOK'
  BY <1>2, <1>3, <1>5, <1>7, <1>8 DEF TypeOK, shareVars
<1>10. CallsOK' /\ TimerOK'
  BY <1>2, <1>3 DEF CallsOK, TimerOK
<1>11. Attached' = Attached
  BY <1>3 DEF Attached
<1>12. TodoOK' /\ ShareOK' /\ WaitOK'
  BY <1>2, <1>3, <1>6, <1>11 DEF TodoOK, ShareOK, WaitOK, shareVars
<1> QED BY <1>9, <1>10, <1>12

\* The end RejectStall and GiveUp share.
LEMMA FailControl ==
  ASSUME Control, NEW call \in calls, Answered(call), NEW error, Fail(error)
  PROVE  Control'
<1> USE DEF Control
<1>1. /\ connected /\ ~hasCompleted /\ snapshot.phase = "pulling" /\ timer = FALSE
      /\ calls' \subseteq PullCalls
      /\ \A c \in calls' : c.closed /\ c.aborted
  BY AnsweredFacts
<1>2. /\ Emit(ReduceFailed(snapshot, ClassifySyncFailure(error)))
      /\ todo' = "complete"
      /\ UNCHANGED <<status, shareVars, pullVars, orphans, history>>
  BY DEF Fail
<1>3. snapshot \in Snapshots /\ ClassifySyncFailure(error) \in FailureKinds
  BY ClassifyType DEF TypeOK
<1>4. snapshot' \in Snapshots /\ seen' \in [Subscribers -> Snapshots]
  BY <1>1, <1>2, <1>3, FailedType, EmitType
<1>5. snapshot'.phase = "failed"
  <2>1. snapshot' = ReduceFailed(snapshot, ClassifySyncFailure(error))
    BY <1>2 DEF Emit
  <2>2. snapshot' = [snapshot EXCEPT !.phase = "failed", !.failure = ClassifySyncFailure(error)]
    BY <1>1, <1>3, <2>1, FailedType
  <2> QED BY <1>3, <2>2 DEF Snapshots
<1>6. TypeOK'
  BY <1>1, <1>2, <1>4 DEF TypeOK, shareVars, pullVars, history
<1>7. CallsOK' /\ TimerOK'
  BY <1>1, <1>2 DEF CallsOK, TimerOK, pullVars
<1>8. Attached' = Attached
  BY <1>2 DEF Attached
<1>9. TodoOK' /\ ShareOK' /\ WaitOK'
  BY <1>1, <1>2, <1>5, <1>8 DEF TodoOK, ShareOK, WaitOK, Finished, shareVars
<1> QED BY <1>6, <1>7, <1>9

LEMMA ScheduleRetryControl ==
  ASSUME Control, NEW call \in calls, ScheduleRetry(call)
  PROVE  Control'
<1> USE DEF Control
<1>1. Answered(call)
  BY DEF ScheduleRetry
<1>2. /\ connected /\ ~hasCompleted /\ snapshot.phase = "pulling" /\ todo = "none"
      /\ calls' \subseteq PullCalls
      /\ \A c \in calls' : c.closed /\ c.aborted
  BY <1>1, AnsweredFacts
<1>3. soFar' \in 0 .. MaxRetries
  BY DEF ScheduleRetry, TypeOK
<1>4. /\ timer' = TRUE
      /\ UNCHANGED <<consumerVars, shareVars, snapshot, requestedCursors, position,
                     todo, orphans, history>>
  BY DEF ScheduleRetry
<1>5. TypeOK'
  BY <1>2, <1>3, <1>4 DEF TypeOK, consumerVars, shareVars, history
<1>6. CallsOK' /\ TimerOK' /\ WaitOK'
  BY <1>2, <1>4 DEF CallsOK, TimerOK, WaitOK, shareVars
<1>7. TodoOK' /\ ShareOK'
  BY <1>4 DEF TodoOK, ShareOK, Finished, Attached, consumerVars, shareVars
<1> QED BY <1>5, <1>6, <1>7

LEMMA AnswerControl ==
  ASSUME Control, NEW call \in calls, Answer(call)
  PROVE  Control'
<1>1. CASE DropAnswer(call)
  BY <1>1, DropAnswerControl
<1>2. ASSUME NEW page \in Pages, AcceptPage(call, page)
      PROVE  Control'
  BY <1>2, AcceptPageControl
<1>3. ASSUME NEW page \in Pages, RejectStall(call, page)
      PROVE  Control'
  BY <1>3, FailControl DEF RejectStall
<1>4. ASSUME NEW error, AttemptFails(call, error)
      PROVE  Control'
  BY <1>4, ScheduleRetryControl, FailControl DEF AttemptFails, GiveUp
<1> QED BY <1>1, <1>2, <1>3, <1>4 DEF Answer

LEMMA ControlNext == Control /\ [Next]_vars => Control'
<1> SUFFICES ASSUME Control, [Next]_vars PROVE Control'
  OBVIOUS
<1>1. CASE UNCHANGED vars
  BY <1>1 DEF vars, Control, TypeOK, CallsOK, TimerOK, TodoOK, ShareOK, WaitOK, Finished,
              Attached, consumerVars, shareVars, pullVars, history
<1>2. ASSUME NEW s \in Subscribers, FirstSubscribe(s) \/ LateSubscribe(s) \/ Unsubscribe(s)
      PROVE  Control'
  BY <1>2, FirstSubscribeControl, LateSubscribeControl, UnsubscribeControl
<1>3. CASE Continue
  BY <1>3, EmitStartedControl, FirstPullControl, NextPullControl, EmitCompletedControl,
     CompleteControl, OrphanPullControl DEF Continue
<1>4. ASSUME NEW call \in calls, Answer(call)
      PROVE  Control'
  BY <1>4, AnswerControl
<1>5. CASE RetryTimer
  BY <1>5, RetryTimerControl
<1> QED BY <1>1, <1>2, <1>3, <1>4, <1>5 DEF Next

LEMMA ControlAlways == Spec => []Control
<1>1. Init => Control
  BY ControlInit
<1>2. Control /\ [Next]_vars => Control'
  BY ControlNext
<1> QED BY <1>1, <1>2, PTL DEF Spec

\* Every variable keeps its type; the reducer is never handed an event it
\* refuses, so the stream never ends in an exception of its own.
THEOREM TypeCorrect == Spec => []TypeOK
<1>1. Control => TypeOK
  BY DEF Control
<1> QED BY <1>1, ControlAlways, PTL

\* "Shares exactly one effect execution": at most one request is live, and it
\* is the one the connected execution waits for.
THEOREM RequestsAreShared == Spec => []OneLiveRequest
<1>1. Control => OneLiveRequest
  BY OpenIsUnique DEF Control, OneLiveRequest, OpenCalls, CallsOK
<1> QED BY <1>1, ControlAlways, PTL

\* "Aborts the active HTTP request when its last subscriber unsubscribes".
THEOREM DetachStopsEverything == Spec => []NothingRunsUnobserved
<1>1. Control => NothingRunsUnobserved
  <2> SUFFICES ASSUME Control, Attached = {}
               PROVE  OpenCalls = {} /\ ~timer /\ todo = "none"
    BY DEF NothingRunsUnobserved
  <2>1. ~connected \/ hasCompleted
    BY DEF Control, ShareOK
  <2>2. ~connected \/ Finished
    BY <2>1 DEF Control, ShareOK
  <2>3. todo = "none"
    BY <2>1 DEF Control, TodoOK
  <2>4. ~timer /\ OpenCalls = {}
    BY <2>2 DEF Control, TimerOK, CallsOK, OpenCalls, Finished
  <2> QED BY <2>3, <2>4
<1> QED BY <1>1, ControlAlways, PTL

\* An open stream always waits for one thing: an answer or its retry timer.
THEOREM PullIsDriven == Spec => []NeverStranded
<1>1. Control => NeverStranded
  BY DEF Control, NeverStranded, Quiet, WaitOK, CallsOK, OpenCalls
<1> QED BY <1>1, ControlAlways, PTL
=============================================================================

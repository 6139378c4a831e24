--------------------------- MODULE SyncServiceProofs --------------------------
(***************************************************************************)
(* TLAPS proofs about ReactiveSync together with SyncService: for a log of *)
(* any length, any consumers and retries, and answers that are late, lost  *)
(* or read again.  They build on the invariants of the stream alone.       *)
(***************************************************************************)
EXTENDS SyncService, ReactiveSyncHistory, FiniteSetTheorems

USE SyncAssumption DEF SyncAssumption
USE PlacesAssumption DEF PlacesAssumption

-----------------------------------------------------------------------------
(* The invariant *)

Places == 0 .. Cardinality(Cursors)

LogOK == log \in Places /\ startLog \in Places /\ startLog <= log

\* The client's calls that a reply may answer are told apart by these.
SameRequest(c, d) == c.execution = d.execution /\ c.cursor = d.cursor /\ c.attempt = d.attempt

\* Each reply is a page for a call that has not settled, and is the only one.
RepliesOK ==
    /\ \A r \in replies : r.page \in Pages /\ r.page.mutations = r.page.cursor - r.cursor
    /\ \A r \in replies : \E c \in calls : Answers(r, c)
    /\ \A r, q \in replies : SameRequest(r, q) => r = q

\* Calls that were torn down belong to executions of the past.
OwnCalls ==
    connected =>
        /\ \A c \in calls : c.execution = execution => ~c.closed
        /\ \A c \in orphans : c.execution # execution

Ending == todo = "completed" \/ snapshot.phase = "completed"

\* A last page that the client will take was read after the execution began.
FreshOK ==
    /\ \A c \in calls, r \in replies :
        ~c.closed /\ Answers(r, c) /\ ~r.page.has_more => r.page.cursor >= startLog
    /\ Ending => snapshot.cursor >= startLog

Service ==
    /\ LogOK
    /\ RepliesOK
    /\ OwnCalls
    /\ FreshOK
    /\ MutationsExactlyOnce

LEMMA PlacesAreCursors == Cardinality(Cursors) \in Nat /\ AnyCursor = Places
  <1>1. Cardinality(Cursors) \in Nat
    BY FS_CardinalityType
  <1>2. AnyCursor = (1 .. Cardinality(Cursors)) \cup {0}
    BY DEF AnyCursor
  <1> QED
    BY <1>1, <1>2 DEF Places

LEMMA ServedPagesArePages ==
    ASSUME log \in Places, NEW place \in Places, NEW page \in ServedPages(place)
    PROVE  /\ page \in Pages /\ page.mutations = page.cursor - place
           /\ page.has_more \/ page.cursor = log
  <1>1. PICK next \in place .. log :
            /\ page = [cursor |-> next, has_more |-> next < log, mutations |-> next - place]
            /\ next <= place + MaxMutations
    BY DEF ServedPages
  <1>2. next \in AnyCursor /\ next - place \in 0 .. MaxMutations + 1 /\ (next < log) \in BOOLEAN
    BY <1>1, PlacesAreCursors DEF Places
  <1>3. page \in Pages
    BY <1>1, <1>2 DEF Pages
  <1>4. next < log \/ next = log
    BY <1>1, PlacesAreCursors DEF Places
  <1> QED
    BY <1>1, <1>3, <1>4

-----------------------------------------------------------------------------
(* Steps of the client alone *)

\* What such a step does with the snapshot and the calls.
Kept ==
    /\ MutationsExactlyOnce'
    /\ OwnCalls'
    /\ \A c \in calls : \E d \in calls' : SameRequest(c, d)
    /\ \A d \in calls' : ~d.closed => d \in calls \/ \A c \in calls : c.execution # d.execution
    /\ Ending' => Ending /\ snapshot'.cursor = snapshot.cursor

LEMMA SameCountKept ==
    ASSUME MutationsExactlyOnce, snapshot'.cursor = snapshot.cursor,
           snapshot'.receivedMutations = snapshot.receivedMutations
    PROVE  MutationsExactlyOnce'
  BY DEF MutationsExactlyOnce

LEMMA InitialCounts ==
    ASSUME snapshot' = Initial
    PROVE  MutationsExactlyOnce' /\ snapshot'.phase = "idle"
  <1>1. InitialCursor \in Int
    BY PlacesAreCursors DEF AnyCursor, Places
  <1> QED
    BY <1>1 DEF MutationsExactlyOnce, Initial

LEMMA LateSubscribeKept ==
    ASSUME Service, NEW s \in Subscribers, LateSubscribe(s)
    PROVE  Kept
  BY SameCountKept DEF Service, LateSubscribe, Kept, OwnCalls, Ending, SameRequest, shareVars

LEMMA UnsubscribeKept ==
    ASSUME Control, Service, NEW s \in Subscribers, Unsubscribe(s)
    PROVE  Kept
  <1>1. CASE UNCHANGED <<connected, snapshot, calls, todo, orphans>>
    BY <1>1, SameCountKept DEF Unsubscribe, Service, Kept, OwnCalls, Ending, SameRequest
  <1>2. CASE ResetConnection
    <2>1. /\ connected' = FALSE /\ snapshot' = Initial /\ todo' = "none"
          /\ calls' = {IF c.execution = execution /\ ~c.closed THEN Teardown(c) ELSE c : c \in calls}
      BY <1>2 DEF ResetConnection
    <2>2. MutationsExactlyOnce' /\ ~Ending'
      BY <2>1, InitialCounts DEF Ending
    <2>3. OwnCalls'
      BY <2>1 DEF OwnCalls
    <2>4. \A c \in calls : SameRequest(c, Teardown(c)) /\ Teardown(c).closed
      BY TeardownType DEF Control, TypeOK, Teardown, PullCalls, SameRequest
    <2>5. \A c \in calls : ~c.closed => c.execution = execution
      BY DEF Control, CallsOK
    <2>6. \A c \in calls : \E d \in calls' : SameRequest(c, d)
      BY <2>1, <2>4 DEF SameRequest
    <2>7. \A d \in calls' : d.closed
      BY <2>1, <2>4, <2>5
    <2> QED
      BY <2>2, <2>3, <2>6, <2>7 DEF Kept
  <1> QED
    BY <1>1, <1>2 DEF Unsubscribe

LEMMA EmissionKept ==
    ASSUME Control, Service, EmitStarted \/ EmitCompleted
    PROVE  Kept
  <1>1. snapshot \in Snapshots /\ UNCHANGED <<connected, execution, calls, orphans>>
    BY DEF Control, TypeOK, EmitStarted, EmitCompleted, shareVars
  <1>2. /\ snapshot'.cursor = snapshot.cursor
        /\ snapshot'.receivedMutations = snapshot.receivedMutations
        /\ Ending' => Ending
    <2>1. CASE EmitStarted
      <3>1. snapshot' = [snapshot EXCEPT !.phase = "pulling"] /\ todo' = "firstPull"
        BY <1>1, <2>1, StartedType DEF EmitStarted, Emit, Control, TodoOK
      <3> QED
        BY <1>1, <3>1 DEF Snapshots, Ending
    <2>2. CASE EmitCompleted
      <3>1. snapshot' = [snapshot EXCEPT !.phase = "completed"] /\ todo = "completed"
        BY <1>1, <2>2, CompletedType DEF EmitCompleted, Emit, Control, TodoOK
      <3> QED
        BY <1>1, <3>1 DEF Snapshots, Ending
    <2> QED
      BY <2>1, <2>2
  <1> QED
    BY <1>1, <1>2, SameCountKept DEF Service, Kept, OwnCalls, SameRequest

\* A call of the port is made: no call of this execution is left.
LEMMA IssueKept ==
    ASSUME Control, Service, NEW cursor, NEW attempt, IssuePull(cursor, attempt), connected,
           \A c \in calls : c.closed, todo' = "none", UNCHANGED <<snapshot, connected, execution, orphans>>
    PROVE  Kept
  <1> DEFINE new == PullCall(execution, cursor, attempt)
  <1>1. calls' = calls \cup {new} /\ new.execution = execution /\ new.closed = FALSE
    BY DEF IssuePull, PullCall
  <1>2. \A c \in calls : c.execution # execution
    BY DEF Service, OwnCalls
  <1>3. OwnCalls'
    BY <1>1, <1>2 DEF Service, OwnCalls
  <1>4. MutationsExactlyOnce'
    BY SameCountKept DEF Service
  <1>5. Ending' => Ending /\ snapshot'.cursor = snapshot.cursor
    BY DEF Ending
  <1>6. \A c \in calls : \E d \in calls' : SameRequest(c, d)
    BY <1>1 DEF SameRequest
  <1>7. \A d \in calls' : ~d.closed => d \in calls \/ \A c \in calls : c.execution # d.execution
    BY <1>1, <1>2
  <1> QED
    BY <1>3, <1>4, <1>5, <1>6, <1>7 DEF Kept

LEMMA OrphanPullKept ==
    ASSUME Control, Service, NEW call \in orphans, OrphanPull(call)
    PROVE  Kept
  <1>1. /\ calls' = calls \cup {Teardown(call)} /\ orphans' = orphans \ {call}
        /\ UNCHANGED <<connected, execution, snapshot, todo>>
    BY DEF OrphanPull, shareVars
  <1>2. Teardown(call).execution = call.execution /\ Teardown(call).closed
    BY TeardownType DEF Control, TypeOK, Teardown, PullCalls
  <1>3. OwnCalls'
    BY <1>1, <1>2 DEF Service, OwnCalls
  <1> QED
    BY <1>1, <1>2, <1>3, SameCountKept DEF Service, Kept, Ending, SameRequest

LEMMA ContinueKept ==
    ASSUME Control, Service, Continue
    PROVE  Kept
  <1>1. CASE FirstPull \/ NextPull
    <2>1. todo # "none" /\ todo' = "none" /\ UNCHANGED <<snapshot, connected, execution, orphans>>
      BY <1>1 DEF FirstPull, NextPull, shareVars
    <2>2. connected /\ \A c \in calls : c.closed
      BY <2>1 DEF Control, TodoOK, CallsOK
    <2>3. \E cursor : IssuePull(cursor, 0)
      BY <1>1 DEF FirstPull, NextPull
    <2> QED
      BY <2>1, <2>2, <2>3, IssueKept
  <1>2. CASE Complete
    <2>1. /\ UNCHANGED <<connected, execution, snapshot, calls, orphans>> /\ todo' = "none"
      BY <1>2 DEF Complete
    <2> QED
      BY <2>1, SameCountKept DEF Service, Kept, OwnCalls, Ending, SameRequest
  <1> QED
    BY <1>1, <1>2, EmissionKept, OrphanPullKept DEF Continue

LEMMA RetryTimerKept ==
    ASSUME Control, Service, RetryTimer
    PROVE  Kept
  <1>1. /\ timer /\ todo' = "none" /\ UNCHANGED <<snapshot, connected, execution, orphans>>
        /\ IssuePull(position, soFar)
    BY DEF RetryTimer, Quiet, shareVars
  <1>2. connected /\ \A c \in calls : c.closed
    BY <1>1 DEF Control, TimerOK, CallsOK
  <1> QED
    BY <1>1, <1>2, IssueKept

\* A step of the client alone keeps the invariant.
LEMMA KeptIsEnough ==
    ASSUME Service, Kept, UNCHANGED serviceVars
    PROVE  Service'
  <1>1. log' = log /\ replies' = replies /\ startLog' = startLog
    BY DEF serviceVars
  <1>2. LogOK'
    BY <1>1 DEF Service, LogOK
  <1>3. RepliesOK'
    <2>1. ASSUME NEW r \in replies
          PROVE  \E d \in calls' : Answers(r, d)
      <3>1. PICK c \in calls : Answers(r, c)
        BY DEF Service, RepliesOK
      <3>2. PICK d \in calls' : SameRequest(c, d)
        BY DEF Kept
      <3> QED
        BY <3>1, <3>2 DEF Answers, SameRequest
    <2> QED
      BY <1>1, <2>1 DEF Service, RepliesOK
  <1>4. FreshOK'
    <2>1. ASSUME NEW d \in calls', NEW r \in replies, ~d.closed, Answers(r, d), ~r.page.has_more
          PROVE  r.page.cursor >= startLog
      <3>1. PICK c \in calls : Answers(r, c)
        BY DEF Service, RepliesOK
      <3>2. c.execution = d.execution
        BY <2>1, <3>1 DEF Answers
      <3>3. d \in calls
        BY <2>1, <3>2 DEF Kept
      <3> QED
        BY <2>1, <3>3 DEF Service, FreshOK
    <2>2. Ending' => snapshot'.cursor >= startLog
      BY DEF Kept, Service, FreshOK
    <2> QED
      BY <1>1, <2>1, <2>2 DEF FreshOK
  <1> QED
    BY <1>2, <1>3, <1>4 DEF Service, Kept

\* A new execution begins with the log as it is now.
LEMMA FirstSubscribeService ==
    ASSUME Control, Service, NEW s \in Subscribers, FirstSubscribe(s), startLog' = log,
           UNCHANGED <<log, replies>>
    PROVE  Service'
  <1>1. /\ ~connected /\ todo' = "start" /\ execution' \notin InUse
        /\ UNCHANGED <<snapshot, calls, orphans>>
    BY DEF FirstSubscribe
  <1>2. snapshot = Initial /\ \A c \in calls : c.closed
    BY <1>1 DEF Control, ShareOK, CallsOK
  <1>3. LogOK'
    BY PlacesAreCursors DEF Service, LogOK, Places
  <1>4. RepliesOK'
    BY <1>1 DEF Service, RepliesOK
  <1>5. OwnCalls'
    BY <1>1 DEF OwnCalls, InUse
  <1>6. ~Ending'
    BY <1>1, <1>2 DEF Ending, Initial
  <1>7. FreshOK'
    BY <1>1, <1>2, <1>6 DEF FreshOK
  <1>8. MutationsExactlyOnce'
    BY <1>1, SameCountKept DEF Service
  <1> QED
    BY <1>3, <1>4, <1>5, <1>7, <1>8 DEF Service

-----------------------------------------------------------------------------
(* Steps of the service, and answers *)

LEMMA PublishService ==
    ASSUME Service, Publish
    PROVE  Service'
  <1>1. LogOK'
    BY PlacesAreCursors DEF Service, LogOK, Places, Publish
  <1>2. UNCHANGED <<connected, execution, calls, orphans, todo, snapshot, replies, startLog>>
    BY DEF Publish, vars, shareVars
  <1> QED
    BY <1>1, <1>2 DEF Service, RepliesOK, OwnCalls, FreshOK, Ending, MutationsExactlyOnce

LEMMA ServeService ==
    ASSUME Control, Service, NEW call \in calls, Serve(call)
    PROVE  Service'
  <1>1. UNCHANGED <<connected, execution, calls, orphans, todo, snapshot, log, startLog>>
    BY DEF Serve, vars, shareVars
  <1>2. PICK page \in ServedPages(call.cursor) :
            replies' = replies \cup {[execution |-> call.execution, cursor |-> call.cursor,
                                      attempt |-> call.attempt, page |-> page]}
    BY DEF Serve
  <1> DEFINE new == [execution |-> call.execution, cursor |-> call.cursor,
                     attempt |-> call.attempt, page |-> page]
  <1>3. call.cursor \in Places
    BY PlacesAreCursors DEF Control, TypeOK, PullCalls
  <1>4. page \in Pages /\ page.mutations = page.cursor - call.cursor /\ (page.has_more \/ page.cursor = log)
    BY <1>3, ServedPagesArePages DEF Service, LogOK
  <1>5. Answers(new, call) /\ \A r \in replies : ~Answers(r, call)
    BY DEF Serve, Answers
  <1>6. RepliesOK'
    <2>1. \A r \in replies' : r.page \in Pages /\ r.page.mutations = r.page.cursor - r.cursor
      BY <1>2, <1>4 DEF Service, RepliesOK
    <2>2. \A r \in replies' : \E c \in calls' : Answers(r, c)
      BY <1>1, <1>2, <1>5 DEF Service, RepliesOK
    <2>3. \A r \in replies : ~SameRequest(r, new)
      BY <1>5 DEF Answers, SameRequest
    <2>4. \A r, q \in replies' : SameRequest(r, q) => r = q
      BY <1>2, <2>3 DEF Service, RepliesOK, SameRequest
    <2> QED
      BY <2>1, <2>2, <2>4 DEF RepliesOK
  <1>7. new.page.has_more \/ new.page.cursor >= startLog
    BY <1>4, PlacesAreCursors DEF Service, LogOK, Places
  <1>8. FreshOK'
    BY <1>1, <1>2, <1>7 DEF Service, FreshOK, Ending
  <1> QED
    BY <1>1, <1>6, <1>8 DEF Service, LogOK, OwnCalls, MutationsExactlyOnce

\* A call has settled, and its reply is gone.
LEMMA SettledCall ==
    ASSUME Service, NEW call \in calls, calls' = calls \ {call}, replies' \subseteq replies,
           \A r \in replies' : ~Answers(r, call),
           UNCHANGED <<connected, execution, orphans, log, startLog>>,
           MutationsExactlyOnce', Ending' => snapshot'.cursor >= startLog
    PROVE  Service'
  <1>1. RepliesOK'
    BY DEF Service, RepliesOK
  <1>2. OwnCalls' /\ LogOK' /\ FreshOK'
    BY DEF Service, OwnCalls, LogOK, FreshOK
  <1> QED
    BY <1>1, <1>2 DEF Service

\* The client drops the answer, tries again, or fails.
LEMMA NoPageTaken ==
    ASSUME Control, Service, NEW call \in calls,
           \/ DropAnswer(call)
           \/ \E error : AttemptFails(call, error)
           \/ \E page : RejectStall(call, page)
    PROVE  /\ calls' = calls \ {call} /\ UNCHANGED <<connected, execution, orphans>>
           /\ MutationsExactlyOnce' /\ (Ending' => snapshot'.cursor >= startLog)
  <1>1. CASE DropAnswer(call) \/ ScheduleRetry(call)
    <2>1. calls' = calls \ {call} /\ UNCHANGED <<connected, execution, orphans, snapshot, todo>>
      BY <1>1 DEF DropAnswer, ScheduleRetry, Answered, shareVars
    <2> QED
      BY <2>1, SameCountKept DEF Service, FreshOK, Ending
  <1>2. ASSUME NEW error, Answered(call), Fail(error)
        PROVE  /\ calls' = calls \ {call} /\ UNCHANGED <<connected, execution, orphans>>
               /\ MutationsExactlyOnce' /\ ~Ending'
    <2>1. calls' = calls \ {call} /\ todo' = "complete" /\ UNCHANGED <<connected, execution, orphans>>
      BY <1>2 DEF Answered, Fail, shareVars
    <2>2. snapshot \in Snapshots /\ snapshot.phase = "pulling"
      BY <1>2, AnsweredFacts DEF Control, TypeOK
    <2>3. snapshot' = [snapshot EXCEPT !.phase = "failed", !.failure = ClassifySyncFailure(error)]
      BY <1>2, <2>2, FailedType, ClassifyType DEF Fail, Emit
    <2>4. /\ snapshot'.cursor = snapshot.cursor /\ snapshot'.phase = "failed"
          /\ snapshot'.receivedMutations = snapshot.receivedMutations
      BY <2>2, <2>3 DEF Snapshots
    <2> QED
      BY <2>1, <2>4, SameCountKept DEF Service, Ending
  <1> QED
    BY <1>1, <1>2 DEF AttemptFails, GiveUp, RejectStall

\* The client takes a page that was read for the place its snapshot ends at.
LEMMA PageTaken ==
    ASSUME Control, Accounts, Service, NEW call \in calls, NEW reply \in replies,
           Answers(reply, call), AcceptPage(call, reply.page)
    PROVE  /\ calls' = calls \ {call} /\ UNCHANGED <<connected, execution, orphans>>
           /\ MutationsExactlyOnce' /\ (Ending' => snapshot'.cursor >= startLog)
  <1> DEFINE page == reply.page
  <1>1. Answered(call) /\ Emit(ReducePageReceived(snapshot, page))
        /\ todo' = IF page.has_more THEN "nextPull" ELSE "completed"
    BY DEF AcceptPage
  <1>2. calls' = calls \ {call} /\ ~call.closed
    BY <1>1 DEF Answered, Closed
  <1>3. snapshot \in Snapshots /\ snapshot.phase = "pulling" /\ call.cursor = snapshot.cursor
    BY <1>1, AnsweredAccounts DEF Control, TypeOK, Accounts, ChainOK
  <1>4. page \in Pages /\ page.mutations = page.cursor - snapshot.cursor
    BY <1>3 DEF Service, RepliesOK, Answers
  <1>5. snapshot' = [snapshot EXCEPT !.cursor = page.cursor,
                                     !.receivedPages = snapshot.receivedPages + 1,
                                     !.receivedMutations = snapshot.receivedMutations + page.mutations]
    BY <1>1, <1>3, <1>4, PageReceivedType DEF Emit
  <1>6. /\ snapshot'.cursor = page.cursor /\ snapshot'.phase = "pulling"
        /\ snapshot'.receivedMutations = snapshot.receivedMutations + page.mutations
    BY <1>3, <1>5 DEF Snapshots
  <1>7. MutationsExactlyOnce'
    <2>1. /\ snapshot.cursor \in Int /\ page.cursor \in Int /\ InitialCursor \in Int
          /\ snapshot.receivedMutations \in Int
      BY <1>3, <1>4, PlacesAreCursors DEF Snapshots, Pages, Places
    <2>2. snapshot.receivedMutations = snapshot.cursor - InitialCursor
      BY DEF Service, MutationsExactlyOnce
    <2> QED
      BY <1>4, <1>6, <2>1, <2>2 DEF MutationsExactlyOnce
  <1>8. Ending' => ~page.has_more
    BY <1>1, <1>6 DEF Ending
  <1>9. ~page.has_more => page.cursor >= startLog
    BY <1>2 DEF Service, FreshOK
  <1>10. Ending' => snapshot'.cursor >= startLog
    <2>1. snapshot'.cursor = page.cursor
      BY <1>6
    <2> QED
      BY <2>1, <1>8, <1>9
  <1>11. connected' = connected /\ execution' = execution /\ orphans' = orphans
    BY DEF AcceptPage, shareVars
  <1> QED
    BY <1>2, <1>7, <1>10, <1>11

LEMMA DeliverService ==
    ASSUME Control, Accounts, Service, NEW call \in calls, NEW reply \in replies, Deliver(call, reply)
    PROVE  Service'
  <1>1. /\ Answers(reply, call) /\ replies' = replies \ {reply} /\ UNCHANGED <<log, startLog>>
        /\ DropAnswer(call) \/ AcceptPage(call, reply.page) \/ RejectStall(call, reply.page)
    BY DEF Deliver
  <1>2. \A r \in replies' : ~Answers(r, call)
    BY <1>1 DEF Service, RepliesOK, Answers, SameRequest
  <1>3. /\ calls' = calls \ {call} /\ UNCHANGED <<connected, execution, orphans>>
        /\ MutationsExactlyOnce' /\ (Ending' => snapshot'.cursor >= startLog)
    BY <1>1, NoPageTaken, PageTaken
  <1> QED
    BY <1>1, <1>2, <1>3, SettledCall

LEMMA LoseService ==
    ASSUME Control, Service, NEW call \in calls, Lose(call)
    PROVE  Service'
  <1>1. /\ replies' = {r \in replies : ~Answers(r, call)} /\ UNCHANGED <<log, startLog>>
        /\ DropAnswer(call) \/ \E error : AttemptFails(call, error)
    BY DEF Lose
  <1>2. /\ calls' = calls \ {call} /\ UNCHANGED <<connected, execution, orphans>>
        /\ MutationsExactlyOnce' /\ (Ending' => snapshot'.cursor >= startLog)
    BY <1>1, NoPageTaken
  <1>3. replies' \subseteq replies
    BY <1>1
  <1>4. \A r \in replies' : ~Answers(r, call)
    BY <1>1
  <1>5. MutationsExactlyOnce' /\ (Ending' => snapshot'.cursor >= startLog)
    BY <1>2
  <1> QED
    BY <1>1, <1>2, <1>3, <1>4, <1>5, SettledCall

-----------------------------------------------------------------------------
(* All steps *)

\* The service answers with pages the stream was modelled for: each step of both
\* is a step of ReactiveSync or leaves it alone.
LEMMA ServiceStepsStream ==
    ASSUME Service, ServiceNext
    PROVE  [Next]_vars
  <1>1. ASSUME NEW call \in calls, NEW reply \in replies, Deliver(call, reply)
        PROVE  Answer(call)
    <2>1. reply.page \in Pages
      BY DEF Service, RepliesOK
    <2> QED
      BY <1>1, <2>1 DEF Deliver, Answer
  <1>2. ASSUME NEW call \in calls, Lose(call)
        PROVE  Answer(call)
    BY <1>2 DEF Lose, Answer
  <1> QED
    BY <1>1, <1>2 DEF ServiceNext, Next, Publish, Serve

LEMMA ServiceBegins == ServiceInit => Service
  <1> SUFFICES ASSUME ServiceInit
               PROVE  Service
    OBVIOUS
  <1>1. /\ calls = {} /\ replies = {} /\ ~connected /\ snapshot = Initial /\ todo = "none"
        /\ log = InitialCursor /\ startLog = log
    BY DEF ServiceInit, Init
  <1>2. InitialCursor \in Places /\ InitialCursor \in Int
    BY PlacesAreCursors DEF Places, AnyCursor
  <1>3. LogOK /\ RepliesOK /\ OwnCalls
    BY <1>1, <1>2 DEF LogOK, RepliesOK, OwnCalls
  <1>4. FreshOK /\ MutationsExactlyOnce
    BY <1>1, <1>2 DEF FreshOK, Ending, MutationsExactlyOnce, Initial
  <1> QED
    BY <1>3, <1>4 DEF Service

LEMMA ServiceGoesOn ==
    ASSUME Control, Accounts, Service, [ServiceNext]_<<vars, serviceVars>>
    PROVE  Service'
  <1>1. CASE UNCHANGED <<vars, serviceVars>>
    <2>1. UNCHANGED <<connected, execution, calls, orphans, todo, snapshot, log, replies, startLog>>
      BY <1>1 DEF vars, shareVars, serviceVars
    <2> QED
      BY <2>1 DEF Service, LogOK, RepliesOK, OwnCalls, FreshOK, Ending, MutationsExactlyOnce
  <1>2. CASE Publish
    BY <1>2, PublishService
  <1>3. ASSUME NEW call \in calls, Serve(call) \/ Lose(call)
        PROVE  Service'
    BY <1>3, ServeService, LoseService
  <1>4. ASSUME NEW call \in calls, NEW reply \in replies, Deliver(call, reply)
        PROVE  Service'
    BY <1>4, DeliverService
  <1>5. ASSUME NEW s \in Subscribers, FirstSubscribe(s), startLog' = log, UNCHANGED <<log, replies>>
        PROVE  Service'
    BY <1>5, FirstSubscribeService
  <1>6. ASSUME NEW s \in Subscribers, LateSubscribe(s) \/ Unsubscribe(s), UNCHANGED serviceVars
        PROVE  Service'
    BY <1>6, LateSubscribeKept, UnsubscribeKept, KeptIsEnough
  <1>7. CASE (Continue \/ RetryTimer) /\ UNCHANGED serviceVars
    BY <1>7, ContinueKept, RetryTimerKept, KeptIsEnough
  <1> QED
    BY <1>1, <1>2, <1>3, <1>4, <1>5, <1>6, <1>7 DEF ServiceNext

LEMMA ServiceAlways == ServiceSpec => [](Control /\ Accounts /\ Service)
  <1> DEFINE All == Control /\ Accounts /\ Service
  <1>1. ServiceInit => All
    BY ControlInit, AccountsInit, ServiceBegins DEF ServiceInit
  <1>2. All /\ [ServiceNext]_<<vars, serviceVars>> => All'
    <2> SUFFICES ASSUME All, [ServiceNext]_<<vars, serviceVars>>
                 PROVE  All'
      OBVIOUS
    <2>1. [Next]_vars
      BY ServiceStepsStream
    <2>2. Control' /\ Accounts'
      BY <2>1, ControlNext, AccountsNext
    <2>3. Service'
      BY ServiceGoesOn
    <2> QED
      BY <2>2, <2>3
  <1> QED
    BY <1>1, <1>2, PTL DEF ServiceSpec

\* However pages are cut, repeated, delayed or lost while the log grows: what the
\* consumers were given is what lies between the first cursor and the last.
THEOREM EveryMutationOnce == ServiceSpec => []MutationsExactlyOnce
  BY ServiceAlways, PTL DEF Service

\* A pull that says it is complete has everything the service held when it began.
THEOREM CompletionIsFresh == ServiceSpec => []CompletedIsFresh
  <1>1. Service => CompletedIsFresh
    BY DEF Service, FreshOK, Ending, CompletedIsFresh
  <1> QED
    BY <1>1, ServiceAlways, PTL
=============================================================================

----------------------------- MODULE ReactiveSync -----------------------------
(***************************************************************************)
(* The reactive sync stream of the TypeScript client: the observable that  *)
(* observeSyncPull (clients/typescript/src/reactive-sync.ts) returns.      *)
(*                                                                         *)
(* Consumers subscribe and unsubscribe as they like; the stream is shared  *)
(* through shareReplay({bufferSize: 1, refCount: true}).  One connection   *)
(* of the shared stream is an "execution": it pulls the sync pages one     *)
(* after the other, retries a failing page, and ends in "completed" or     *)
(* "failed".  JavaScript runs one task to its end, but an emission calls   *)
(* the consumers back in the middle of the pipeline, and they may          *)
(* subscribe and unsubscribe there.  So every emission ends a step, and    *)
(* what the pipeline still has to do after it is kept in todo and orphans. *)
(***************************************************************************)
EXTENDS Integers, Sequences, FiniteSets

CONSTANTS
    Subscribers,    \* the consumers of one observable
    Cursors,        \* the cursors a server may name
    NoCursor,       \* null
    InitialCursor,  \* request.cursor ?? null
    MaxRetries,     \* retryPolicy.maxRetries
    MaxMutations,   \* the page limit of normalizePullResponse (500)
    PortErrors,     \* what port.pull may reject with
    Executions      \* names of executions: bounds those with a call in flight

\* Error classes told apart by classifySyncFailure.
Errors == {"HttpErrorWithCode", "ApiError", "ContractError", "OtherError"}

ASSUME SyncAssumption ==
    /\ NoCursor \notin Cursors
    /\ InitialCursor \in Cursors \cup {NoCursor}
    /\ MaxRetries \in Nat
    /\ MaxMutations \in Nat
    /\ PortErrors \subseteq Errors

AnyCursor == Cursors \cup {NoCursor}

\* Responses of the port, the malformed ones included.
Pages == [cursor : AnyCursor, has_more : BOOLEAN, mutations : 0 .. MaxMutations + 1]

VARIABLES
    status,            \* subscription of each consumer: "out", "in", "ended"
    seen,              \* the snapshot each consumer was last handed
    connected,         \* share: connection !== null
    execution,         \* name of the latest execution
    hasCompleted,      \* share: the source has completed
    snapshot,          \* the accumulator of scan, also the replayed value
    requestedCursors,  \* cursor history of the execution
    position,          \* cursor of the page being pulled
    soFar,             \* failed attempts at that page
    timer,             \* the retry timer is armed
    todo,              \* what the connected pipeline does after the emission
    orphans,           \* the same for pipelines torn down by a callback
    calls,             \* calls of port.pull that have not settled
    accepted,          \* history: the pages of this execution, in order
    issued             \* history: calls of port.pull per cursor

consumerVars == <<status, seen>>
shareVars    == <<connected, execution, hasCompleted>>
pullVars     == <<requestedCursors, position, soFar, timer>>
history      == <<accepted, issued>>
vars == <<consumerVars, shareVars, snapshot, pullVars, todo, orphans, calls, history>>

-----------------------------------------------------------------------------
(* The pure core: normalizePullResponse, classifySyncFailure, the reducer. *)

Normalized(page) ==
    /\ page.mutations <= MaxMutations
    /\ page.has_more => page.cursor # NoCursor

ClassifySyncFailure(error) ==
    CASE error = "HttpErrorWithCode" -> "http_code"
      [] error = "ApiError"          -> "http"
      [] error = "ContractError"     -> "contract"
      [] OTHER                       -> "transport"

FailureKinds == {"http_code", "http", "contract", "transport"}

Snapshots ==
    [phase : {"idle", "pulling", "completed", "failed"}, cursor : AnyCursor,
     receivedPages : Nat, receivedMutations : Nat, failure : FailureKinds \cup {"none"}]

Initial ==
    [phase |-> "idle", cursor |-> InitialCursor, receivedPages |-> 0,
     receivedMutations |-> 0, failure |-> "none"]

\* What invalidTransition leaves: the reducer threw.  No Snapshot.
Thrown == [Initial EXCEPT !.phase = "thrown"]

Reduce(state, from, next) == IF state.phase = from THEN next ELSE Thrown

ReduceStarted(state) == Reduce(state, "idle", [state EXCEPT !.phase = "pulling"])

\* Mutant: the last page does not move the cursor.
ReduceKeepsLastCursor(state, page) ==
    Reduce(state, "pulling",
           [state EXCEPT !.cursor = IF page.has_more THEN page.cursor ELSE @,
                         !.receivedPages = @ + 1,
                         !.receivedMutations = @ + page.mutations])

ReducePageReceived(state, page) ==
    Reduce(state, "pulling",
           [state EXCEPT !.cursor = page.cursor,
                         !.receivedPages = @ + 1,
                         !.receivedMutations = @ + page.mutations])

ReduceCompleted(state) == Reduce(state, "pulling", [state EXCEPT !.phase = "completed"])

ReduceFailed(state, kind) ==
    Reduce(state, "pulling", [state EXCEPT !.phase = "failed", !.failure = kind])

-----------------------------------------------------------------------------
(* Helpers *)

\* share's refCount is the number of these.
Attached == {s \in Subscribers : status[s] = "in"}

\* scan, then shareReplay: buffer the snapshot and hand it to every observer.
Emit(next) ==
    /\ snapshot' = next
    /\ seen' = [s \in Subscribers |-> IF s \in Attached THEN next ELSE seen[s]]

\* No callback is running: the event loop may take the next task.
Quiet == todo = "none" /\ orphans = {}

\* Mutant: answers are taken without looking at the subscriber.
NeverClosed(call) == FALSE

\* The first-come check of pullPage's .then and .catch.
Closed(call) == call.closed

\* Mutant: the attempt is closed but its request goes on.
TeardownWithoutAbort(call) == [call EXCEPT !.closed = TRUE]

\* Unsubscribing a running attempt closes its subscriber and aborts its request.
Teardown(call) == [call EXCEPT !.closed = TRUE, !.aborted = TRUE]

PullCall(exec, cursor, attempt) ==
    [execution |-> exec, cursor |-> cursor, attempt |-> attempt,
     closed |-> FALSE, aborted |-> FALSE]

\* Mutant: only a cursor that repeats at once is noticed, no longer cycle.
CursorRepeats(page) == page.has_more /\ page.cursor = position

PullCalls ==
    [execution : Executions, cursor : AnyCursor, attempt : 0 .. MaxRetries,
     closed : BOOLEAN, aborted : BOOLEAN]

\* The guard outside the retry scope: has the server stopped advancing?
CursorStalls(page) == page.has_more /\ page.cursor \in requestedCursors

\* defer: each execution starts with a history of its own.
FreshHistory == {InitialCursor}

\* Subscribing to pullPage calls the port at once.
IssuePull(cursor, attempt) ==
    /\ calls' = calls \cup {PullCall(execution, cursor, attempt)}
    /\ issued' = [issued EXCEPT ![cursor] = @ + 1]

InUse == {c.execution : c \in calls} \cup {c.execution : c \in orphans}

NothingIssued == [c \in AnyCursor |-> 0]

-----------------------------------------------------------------------------
Init ==
    /\ status = [s \in Subscribers |-> "out"]
    /\ seen = [s \in Subscribers |-> Initial]
    /\ connected = FALSE
    /\ execution \in Executions
    /\ hasCompleted = FALSE
    /\ snapshot = Initial
    /\ requestedCursors = FreshHistory
    /\ position = InitialCursor
    /\ soFar = 0
    /\ timer = FALSE
    /\ todo = "none"
    /\ orphans = {}
    /\ calls = {}
    /\ accepted = <<>>
    /\ issued = NothingIssued

(***************************************************************************)
(* Consumers.  They run between tasks or inside a callback of an emission. *)
(***************************************************************************)

\* The first subscriber connects the source, which emits "idle" at once.
FirstSubscribe(s) ==
    /\ status[s] # "in"
    /\ ~connected
    /\ \E e \in Executions \ InUse : execution' = e
    /\ connected' = TRUE
    /\ status' = [status EXCEPT ![s] = "in"]
    /\ seen' = [seen EXCEPT ![s] = Initial]
    /\ todo' = "start"
    /\ UNCHANGED <<hasCompleted, snapshot, pullVars, orphans, calls, history>>

\* Mutant: completion resets the share, so a late subscriber pulls again.
LateSubscribeRestarts(s) ==
    /\ status[s] # "in"
    /\ connected
    /\ status' = [status EXCEPT ![s] = "in"]
    /\ seen' = [seen EXCEPT ![s] = IF hasCompleted THEN Initial ELSE snapshot]
    /\ snapshot' = seen'[s]
    /\ hasCompleted' = FALSE
    /\ todo' = IF hasCompleted THEN "start" ELSE todo
    /\ UNCHANGED <<connected, execution, pullVars, orphans, calls, history>>

\* A later one is handed the buffered snapshot, and the end if there was one.
LateSubscribe(s) ==
    /\ status[s] # "in"
    /\ connected
    /\ status' = [status EXCEPT ![s] = IF hasCompleted THEN "ended" ELSE "in"]
    /\ seen' = [seen EXCEPT ![s] = snapshot]
    /\ UNCHANGED <<shareVars, snapshot, pullVars, todo, orphans, calls, history>>

\* Mutant: the retry timer survives the reset.
ResetKeepsTimer ==
    /\ connected' = FALSE
    /\ snapshot' = Initial
    /\ calls' = {IF c.execution = execution /\ ~c.closed THEN Teardown(c) ELSE c : c \in calls}
    /\ todo' = "none"
    /\ accepted' = <<>>
    /\ issued' = NothingIssued
    /\ UNCHANGED <<timer, orphans>>

\* Mutant: the next execution goes on from the snapshot of this one.
ResetKeepsSnapshot ==
    /\ connected' = FALSE
    /\ calls' = {IF c.execution = execution /\ ~c.closed THEN Teardown(c) ELSE c : c \in calls}
    /\ timer' = FALSE
    /\ todo' = "none"
    /\ accepted' = <<>>
    /\ issued' = NothingIssued
    /\ UNCHANGED <<snapshot, orphans>>

\* share's reset: drop the subject and unsubscribe the connection.  expand is
\* not stopped by it: if it is emitting a page, it will still pull the next one.
ResetConnection ==
    /\ connected' = FALSE
    /\ snapshot' = Initial
    /\ calls' = {IF c.execution = execution /\ ~c.closed THEN Teardown(c) ELSE c : c \in calls}
    /\ timer' = FALSE
    /\ todo' = "none"
    /\ orphans' = IF todo = "nextPull"
                  THEN orphans \cup {PullCall(execution, snapshot.cursor, 0)}
                  ELSE orphans
    /\ accepted' = <<>>
    /\ issued' = NothingIssued

Unsubscribe(s) ==
    /\ status[s] = "in"
    /\ status' = [status EXCEPT ![s] = "out"]
    /\ seen' = [seen EXCEPT ![s] = Initial]
    /\ IF Attached = {s} /\ ~hasCompleted
       THEN ResetConnection
       ELSE UNCHANGED <<connected, snapshot, calls, timer, todo, orphans, history>>
    /\ UNCHANGED <<execution, hasCompleted, requestedCursors, position, soFar>>

(***************************************************************************)
(* The rest of a task, after the callbacks of its last emission returned.  *)
(***************************************************************************)

\* Mutant: the "started" event is forgotten.
SkipStarted ==
    /\ todo = "start"
    /\ todo' = "firstPull"
    /\ UNCHANGED <<consumerVars, shareVars, snapshot, pullVars, orphans, calls, history>>

\* concat: "idle" was emitted, now "started".
EmitStarted ==
    /\ todo = "start"
    /\ Emit(ReduceStarted(snapshot))
    /\ todo' = "firstPull"
    /\ UNCHANGED <<status, shareVars, pullVars, orphans, calls, history>>

\* Mutant: the history of cursors outlives the execution.
FirstPullRemembers ==
    /\ todo = "firstPull"
    /\ position' = InitialCursor
    /\ soFar' = 0
    /\ IssuePull(InitialCursor, 0)
    /\ todo' = "none"
    /\ UNCHANGED <<consumerVars, shareVars, snapshot, requestedCursors, timer, orphans, accepted>>

\* concat subscribes to the deferred pages.
FirstPull ==
    /\ todo = "firstPull"
    /\ requestedCursors' = FreshHistory
    /\ position' = InitialCursor
    /\ soFar' = 0
    /\ IssuePull(InitialCursor, 0)
    /\ todo' = "none"
    /\ UNCHANGED <<consumerVars, shareVars, snapshot, timer, orphans, accepted>>

\* Mutant: all pages share one retry budget.
NextPullSharesBudget ==
    /\ todo = "nextPull"
    /\ position' = snapshot.cursor
    /\ IssuePull(snapshot.cursor, soFar)
    /\ todo' = "none"
    /\ UNCHANGED <<consumerVars, shareVars, snapshot, requestedCursors, soFar, timer,
                   orphans, accepted>>

\* expand projects the page it just emitted to the next pull.
NextPull ==
    /\ todo = "nextPull"
    /\ position' = snapshot.cursor
    /\ soFar' = 0
    /\ IssuePull(snapshot.cursor, 0)
    /\ todo' = "none"
    /\ UNCHANGED <<consumerVars, shareVars, snapshot, requestedCursors, timer, orphans, accepted>>

\* endWith: the pages are exhausted.
EmitCompleted ==
    /\ todo = "completed"
    /\ Emit(ReduceCompleted(snapshot))
    /\ todo' = "complete"
    /\ UNCHANGED <<status, shareVars, pullVars, orphans, calls, history>>

\* The completion notification; share keeps the subject for ever after.
Complete ==
    /\ todo = "complete"
    /\ hasCompleted' = TRUE
    /\ status' = [s \in Subscribers |-> IF s \in Attached THEN "ended" ELSE status[s]]
    /\ todo' = "none"
    /\ UNCHANGED <<seen, connected, execution, snapshot, pullVars, orphans, calls, history>>

\* A pipeline torn down inside the callback of a page: its next pull finds the
\* subscriber closed, so the request it makes is aborted on the spot.
OrphanPull(call) ==
    /\ todo = "none"
    /\ call \in orphans
    /\ orphans' = orphans \ {call}
    /\ calls' = calls \cup {Teardown(call)}
    /\ UNCHANGED <<consumerVars, shareVars, snapshot, pullVars, todo, history>>

Continue ==
    \/ EmitStarted
    \/ FirstPull
    \/ NextPull
    \/ EmitCompleted
    \/ Complete
    \/ \E call \in orphans : OrphanPull(call)

(***************************************************************************)
(* The answers of the port, in tasks of their own.                         *)
(***************************************************************************)

\* An answer to a closed attempt is dropped.
DropAnswer(call) ==
    /\ Quiet
    /\ Closed(call)
    /\ calls' = calls \ {call}
    /\ UNCHANGED <<consumerVars, shareVars, snapshot, pullVars, todo, orphans, history>>

Answered(call) ==
    /\ Quiet
    /\ ~Closed(call)
    /\ calls' = calls \ {call}

\* Mutant: an empty page is taken for the last one.
AcceptEmptyAsLast(call, page) ==
    /\ Answered(call)
    /\ Normalized(page)
    /\ ~CursorStalls(page)
    /\ requestedCursors' = IF page.has_more THEN requestedCursors \cup {page.cursor}
                                            ELSE requestedCursors
    /\ Emit(ReducePageReceived(snapshot, page))
    /\ todo' = IF page.has_more /\ page.mutations > 0 THEN "nextPull" ELSE "completed"
    /\ accepted' = Append(accepted, [from |-> call.cursor, page |-> page])
    /\ UNCHANGED <<status, shareVars, position, soFar, timer, orphans, issued>>

\* Mutant: a page that is not full is taken for the last one.
AcceptShortAsLast(call, page) ==
    /\ Answered(call)
    /\ Normalized(page)
    /\ ~CursorStalls(page)
    /\ requestedCursors' = IF page.has_more THEN requestedCursors \cup {page.cursor}
                                            ELSE requestedCursors
    /\ Emit(ReducePageReceived(snapshot, page))
    /\ todo' = IF page.has_more /\ page.mutations = MaxMutations THEN "nextPull" ELSE "completed"
    /\ accepted' = Append(accepted, [from |-> call.cursor, page |-> page])
    /\ UNCHANGED <<status, shareVars, position, soFar, timer, orphans, issued>>

AcceptPage(call, page) ==
    /\ Answered(call)
    /\ Normalized(page)
    /\ ~CursorStalls(page)
    /\ requestedCursors' = IF page.has_more THEN requestedCursors \cup {page.cursor}
                                            ELSE requestedCursors
    /\ Emit(ReducePageReceived(snapshot, page))
    /\ todo' = IF page.has_more THEN "nextPull" ELSE "completed"
    /\ accepted' = Append(accepted, [from |-> call.cursor, page |-> page])
    /\ UNCHANGED <<status, shareVars, position, soFar, timer, orphans, issued>>

\* catchError: the stream ends with a "failed" snapshot.
Fail(error) ==
    /\ Emit(ReduceFailed(snapshot, ClassifySyncFailure(error)))
    /\ todo' = "complete"
    /\ UNCHANGED <<status, shareVars, pullVars, orphans, history>>

\* Mutant: a page that stalls is filtered out instead of failing the stream.
IgnoreStall(call, page) ==
    /\ Answered(call)
    /\ Normalized(page)
    /\ CursorStalls(page)
    /\ UNCHANGED <<consumerVars, shareVars, snapshot, pullVars, todo, orphans, history>>

\* The cursor guard throws outside the retry scope.
RejectStall(call, page) ==
    /\ Answered(call)
    /\ Normalized(page)
    /\ CursorStalls(page)
    /\ Fail("ContractError")

\* Mutant: a failed attempt is counted, but no delay is started.
ScheduleRetryUnarmed(call) ==
    /\ Answered(call)
    /\ soFar < MaxRetries
    /\ soFar' = soFar + 1
    /\ UNCHANGED <<consumerVars, shareVars, snapshot, requestedCursors, position, timer,
                   todo, orphans, history>>

\* retry: one more attempt at this page, after the delay.
ScheduleRetry(call) ==
    /\ Answered(call)
    /\ soFar < MaxRetries
    /\ soFar' = soFar + 1
    /\ timer' = TRUE
    /\ UNCHANGED <<consumerVars, shareVars, snapshot, requestedCursors, position,
                   todo, orphans, history>>

GiveUp(call, error) ==
    /\ Answered(call)
    /\ soFar >= MaxRetries
    /\ Fail(error)

\* Any error of an attempt: the port's own, or a page normalization refuses.
AttemptFails(call, error) == ScheduleRetry(call) \/ GiveUp(call, error)

\* Mutant: the retry wraps the whole stream, which starts over.
RetryTimerRestarts ==
    /\ Quiet
    /\ timer
    /\ timer' = FALSE
    /\ position' = InitialCursor
    /\ requestedCursors' = FreshHistory
    /\ IssuePull(InitialCursor, soFar)
    /\ UNCHANGED <<consumerVars, shareVars, snapshot, soFar, todo, orphans, accepted>>

RetryTimer ==
    /\ Quiet
    /\ timer
    /\ timer' = FALSE
    /\ IssuePull(position, soFar)
    /\ UNCHANGED <<consumerVars, shareVars, snapshot, requestedCursors, position, soFar,
                   todo, orphans, accepted>>

Answer(call) ==
    \/ DropAnswer(call)
    \/ \E page \in Pages :
        \/ AcceptPage(call, page)
        \/ RejectStall(call, page)
        \/ ~Normalized(page) /\ AttemptFails(call, "ContractError")
    \/ \E error \in PortErrors : AttemptFails(call, error)

Next ==
    \/ \E s \in Subscribers : FirstSubscribe(s) \/ LateSubscribe(s) \/ Unsubscribe(s)
    \/ Continue
    \/ \E call \in calls : Answer(call)
    \/ RetryTimer

Spec == Init /\ [][Next]_vars

\* A task runs to its end, timers fire, and (an assumption on the port, which
\* has no timeout of its own) every call settles some day.
Fairness ==
    /\ WF_vars(Continue)
    /\ WF_vars(\E call \in calls : Answer(call))
    /\ WF_vars(RetryTimer)

FairSpec == Spec /\ Fairness

-----------------------------------------------------------------------------
(* Properties *)

OpenCalls == {c \in calls : ~c.aborted}

Finished == snapshot.phase \in {"completed", "failed"}

\* Types of the variables.  That snapshot is a Snapshot also says that the
\* reducer never threw: no event reaches it in a phase that does not take it.
TypeOK ==
    /\ status \in [Subscribers -> {"out", "in", "ended"}]
    /\ seen \in [Subscribers -> Snapshots]
    /\ connected \in BOOLEAN
    /\ execution \in Executions
    /\ hasCompleted \in BOOLEAN
    /\ snapshot \in Snapshots
    /\ requestedCursors \subseteq AnyCursor
    /\ position \in AnyCursor
    /\ soFar \in 0 .. MaxRetries
    /\ timer \in BOOLEAN
    /\ todo \in {"none", "start", "firstPull", "nextPull", "completed", "complete"}
    /\ calls \subseteq PullCalls
    /\ orphans \subseteq PullCalls
    /\ accepted \in Seq([from : AnyCursor, page : Pages])
    /\ issued \in [AnyCursor -> Nat]

\* "Shares exactly one effect execution between concurrent subscribers": a
\* request that is not aborted belongs to the connected execution and pulls the
\* page it waits for; there is at most one, and none while a retry is pending.
OneLiveRequest ==
    /\ \A c \in OpenCalls : /\ connected /\ c.execution = execution
                            /\ c.cursor = position /\ c.attempt = soFar
                            /\ ~timer /\ todo = "none"
    /\ \A c, d \in OpenCalls : c = d

\* "Aborts the active HTTP request when its last subscriber unsubscribes": with
\* nobody attached nothing is armed, open, or left to do but to abort.
NothingRunsUnobserved == Attached = {} => OpenCalls = {} /\ ~timer /\ todo = "none"

\* Between tasks an unfinished execution waits for exactly one thing, an answer
\* or its retry timer.  Otherwise its subscribers would wait for ever.
NeverStranded ==
    Quiet /\ connected /\ ~hasCompleted => (timer <=> OpenCalls = {})

\* "Retry never replays accepted pages", and a cursor cycle fails before the page
\* is accepted again: the accepted pages form one chain from the initial cursor
\* and no two of them answer the same cursor.
NoPageReplayed ==
    /\ \A i \in 1 .. Len(accepted) :
        accepted[i].from = IF i = 1 THEN InitialCursor ELSE accepted[i-1].page.cursor
    /\ \A i, j \in 1 .. Len(accepted) : accepted[i].from = accepted[j].from => i = j

\* "Cursor history belongs to one source execution": between tasks the cursor guard
\* refuses just the cursors that this execution has asked for.  With those of an
\* earlier one a new execution would fail on its first page; with fewer a cycle of
\* cursors would go round.
HistoryIsOwn ==
    Quiet /\ connected /\ ~hasCompleted => requestedCursors = {c \in AnyCursor : issued[c] > 0}

\* The snapshot counts each accepted page and its mutations once, and its cursor
\* is where the last accepted page ended: the place to resume from after "failed".
SnapshotCountsPages ==
    LET n == Len(accepted)
        mutations[i \in 0 .. n] ==
            IF i = 0 THEN 0 ELSE mutations[i-1] + accepted[i].page.mutations
    IN  /\ snapshot.receivedPages = n
        /\ snapshot.receivedMutations = mutations[n]
        /\ snapshot.cursor = IF n = 0 THEN InitialCursor ELSE accepted[n].page.cursor

\* Every page gets its own maxRetries, no more and no less: the port is asked for
\* a cursor at most maxRetries + 1 times in one execution, and a failure that is
\* not a contract failure has used them up.
RetriesArePerPage ==
    /\ \A c \in AnyCursor : issued[c] <= MaxRetries + 1
    /\ snapshot.phase = "failed" /\ snapshot.failure # "contract"
        => issued[position] = MaxRetries + 1

\* "Completed" is only said when the server said there is no more, and a page
\* that said so was the last.
CompletedIsComplete ==
    /\ \A i \in 1 .. Len(accepted) : i < Len(accepted) => accepted[i].page.has_more
    /\ snapshot.phase = "completed" =>
        /\ accepted # <<>>
        /\ ~accepted[Len(accepted)].page.has_more

\* After the end no request is made and no snapshot changes, whatever late
\* answers arrive and whoever subscribes again.
CompletionIsFinal ==
    [][hasCompleted => /\ UNCHANGED <<hasCompleted, snapshot, timer>>
                       /\ OpenCalls' = {}]_vars

\* An answer to a request that was torn down changes nothing but the set of calls.
LateAnswersIgnored ==
    [][\A c \in calls : c.aborted /\ calls' = calls \ {c}
        => UNCHANGED <<consumerVars, shareVars, snapshot, pullVars>>]_vars

\* A consumer that stays attached is told the end.
EveryoneIsTold ==
    \A s \in Subscribers :
        status[s] = "in" ~> (status[s] = "out" \/ (status[s] = "ended" /\ Finished))

\* The consumers see a SyncFeed.
Feed == INSTANCE SyncFeed WITH live <- connected, feed <- snapshot, closed <- hasCompleted

FeedSpec == Feed!Spec
=============================================================================

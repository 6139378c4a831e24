------------------------------ MODULE SyncService -----------------------------
(***************************************************************************)
(* ReactiveSync against the service it is written for: an append-only log  *)
(* of mutations that other devices extend while it is pulled.  The service *)
(* is not in the repository; it is modelled from what the client sends and *)
(* expects: a cursor names a place in the log (opaque to the client), a    *)
(* page holds the next mutations, and has_more says if the log goes on.    *)
(* A page is read at one moment and may arrive much later; answers may be  *)
(* lost, and a retry may get a different page for the same cursor.         *)
(*                                                                         *)
(* Cursors are the places 1 .. n, and null (NoCursor) is place 0.          *)
(***************************************************************************)
EXTENDS ReactiveSync

ASSUME PlacesAssumption ==
    /\ IsFiniteSet(Cursors)
    /\ Cursors = 1 .. Cardinality(Cursors)
    /\ NoCursor = 0

VARIABLES
    log,      \* the number of mutations the service holds
    replies,  \* pages on their way to the client
    startLog  \* history: the log when the execution began

serviceVars == <<log, replies, startLog>>

\* The pages the service may send for a place: what follows it, in part.
ServedPages(place) ==
    {[cursor |-> next, has_more |-> next < log, mutations |-> next - place] :
        next \in {n \in place .. log : n <= place + MaxMutations /\ (n > place \/ n = log)}}

\* The client's call a reply answers; the call may be torn down meanwhile.
Answers(reply, call) ==
    /\ reply.execution = call.execution
    /\ reply.cursor = call.cursor
    /\ reply.attempt = call.attempt

ServiceInit ==
    /\ Init
    /\ log = InitialCursor
    /\ replies = {}
    /\ startLog = log

\* Another device pushes a mutation.
Publish ==
    /\ log < Cardinality(Cursors)
    /\ log' = log + 1
    /\ UNCHANGED <<vars, replies, startLog>>

\* The service reads a page for a call that has no reply yet.
Serve(call) ==
    /\ ~\E r \in replies : Answers(r, call)
    /\ \E page \in ServedPages(call.cursor) :
        replies' = replies \cup {[execution |-> call.execution, cursor |-> call.cursor,
                                  attempt |-> call.attempt, page |-> page]}
    /\ UNCHANGED <<vars, log, startLog>>

\* A reply reaches the client.
Deliver(call, reply) ==
    /\ Answers(reply, call)
    /\ DropAnswer(call) \/ AcceptPage(call, reply.page) \/ RejectStall(call, reply.page)
    /\ replies' = replies \ {reply}
    /\ UNCHANGED <<log, startLog>>

\* The call fails instead, before or after the service read the page.
Lose(call) ==
    /\ DropAnswer(call) \/ \E error \in PortErrors : AttemptFails(call, error)
    /\ replies' = {r \in replies : ~Answers(r, call)}
    /\ UNCHANGED <<log, startLog>>

ServiceNext ==
    \/ Publish
    \/ \E call \in calls : Serve(call) \/ Lose(call)
    \/ \E call \in calls, reply \in replies : Deliver(call, reply)
    \/ \E s \in Subscribers : FirstSubscribe(s) /\ startLog' = log /\ UNCHANGED <<log, replies>>
    \/ /\ \/ \E s \in Subscribers : LateSubscribe(s) \/ Unsubscribe(s)
          \/ Continue
          \/ RetryTimer
       /\ UNCHANGED serviceVars

ServiceSpec == ServiceInit /\ [][ServiceNext]_<<vars, serviceVars>>

-----------------------------------------------------------------------------
(* Properties *)

\* Across pages, retries and lost answers the consumers are given every mutation
\* after the initial cursor once: the count is the distance the cursor moved.
MutationsExactlyOnce ==
    snapshot.receivedMutations = snapshot.cursor - InitialCursor

\* A completed pull holds at least what the service held when it began, however
\* late its pages arrive.
CompletedIsFresh == snapshot.phase = "completed" => snapshot.cursor >= startLog

=============================================================================

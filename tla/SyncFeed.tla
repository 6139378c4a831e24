------------------------------- MODULE SyncFeed -------------------------------
(***************************************************************************)
(* What observeSyncPull promises its consumers, with no network, no retry  *)
(* and no task structure: one feed of snapshots that starts when the first *)
(* consumer joins, moves along the transitions of reduceSyncSnapshot,      *)
(* hands every snapshot to every consumer, is replayed to late ones, goes  *)
(* cold when the last consumer leaves and stays for ever once closed.      *)
(***************************************************************************)
EXTENDS Integers, FiniteSets

CONSTANTS Subscribers, Cursors, NoCursor, InitialCursor, MaxMutations, FailureKinds

VARIABLES
    status,  \* "out", "in" or "ended"
    seen,    \* the snapshot each consumer was last handed
    live,    \* a consumer is, or was until the feed closed, attached
    feed,    \* the current snapshot
    closed   \* the feed has completed

vars == <<status, seen, live, feed, closed>>

Idle ==
    [phase |-> "idle", cursor |-> InitialCursor, receivedPages |-> 0,
     receivedMutations |-> 0, failure |-> "none"]

Init ==
    /\ status = [s \in Subscribers |-> "out"]
    /\ seen = [s \in Subscribers |-> Idle]
    /\ live = FALSE
    /\ feed = Idle
    /\ closed = FALSE

Join(s) ==
    /\ status[s] # "in"
    /\ live' = TRUE
    /\ status' = [status EXCEPT ![s] = IF closed THEN "ended" ELSE "in"]
    /\ seen' = [seen EXCEPT ![s] = feed]
    /\ UNCHANGED <<feed, closed>>

\* The last one out of an open feed turns it cold: it will start from Idle.
Leave(s) ==
    /\ status[s] = "in"
    /\ status' = [status EXCEPT ![s] = "out"]
    /\ seen' = [seen EXCEPT ![s] = Idle]
    /\ LET last == \A t \in Subscribers \ {s} : status[t] # "in"
       IN  /\ live' = (live /\ ~last)
           /\ feed' = IF last THEN Idle ELSE feed
    /\ UNCHANGED closed

\* The snapshots that may follow one snapshot.
Starts(old, new) == old.phase = "idle" /\ new = [old EXCEPT !.phase = "pulling"]

Grows(old, new) ==
    /\ old.phase = "pulling"
    /\ \E c \in Cursors \cup {NoCursor}, n \in 0 .. MaxMutations :
        new = [old EXCEPT !.cursor = c, !.receivedPages = @ + 1, !.receivedMutations = @ + n]

Finishes(old, new) ==
    /\ old.phase = "pulling"
    /\ \/ new = [old EXCEPT !.phase = "completed"] /\ old.receivedPages > 0
       \/ \E k \in FailureKinds : new = [old EXCEPT !.phase = "failed", !.failure = k]

Follows(old, new) == Starts(old, new) \/ Grows(old, new) \/ Finishes(old, new)

Advance ==
    /\ live
    /\ ~closed
    /\ Follows(feed, feed')
    /\ seen' = [s \in Subscribers |-> IF status[s] = "in" THEN feed' ELSE seen[s]]
    /\ UNCHANGED <<status, live, closed>>

Close ==
    /\ live
    /\ ~closed
    /\ feed.phase \in {"completed", "failed"}
    /\ closed' = TRUE
    /\ status' = [s \in Subscribers |-> IF status[s] = "in" THEN "ended" ELSE status[s]]
    /\ UNCHANGED <<seen, live, feed>>

Next ==
    \/ \E s \in Subscribers : Join(s) \/ Leave(s)
    \/ Advance
    \/ Close

Spec == Init /\ [][Next]_vars
=============================================================================

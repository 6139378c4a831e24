---------------------------- MODULE MCSyncService -----------------------------
(* An instance of SyncService for TLC.  Places of the log are ordered, so    *)
(* only consumers and executions are interchangeable.                       *)
EXTENDS SyncService, TLC

ServiceSymmetry == Permutations(Subscribers) \cup Permutations(Executions)
=============================================================================

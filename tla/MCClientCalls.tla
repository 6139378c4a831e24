----------------------------- MODULE MCClientCalls ----------------------------
(* Instances of ClientCalls for TLC.  Calls and keys are interchangeable.   *)
EXTENDS ClientCalls, TLC

Symmetric == Permutations(Calls) \cup Permutations(Keys)
=============================================================================

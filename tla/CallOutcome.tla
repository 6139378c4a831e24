------------------------------ MODULE CallOutcome -----------------------------
(***************************************************************************)
(* What a client call tells its host about the write it stands for, with   *)
(* no network in between.  A write takes effect at most once, however many *)
(* calls repeat it.  "done" is told of a write that took effect, "refused" *)
(* of a call that did not and never will; after "unknown" the write may    *)
(* have happened, or may happen yet.                                       *)
(***************************************************************************)
EXTENDS Integers

CONSTANT Calls

VARIABLES
    repeats,  \* the calls that stand for the same write as a call; a read has none
    asked,    \* the calls the host has made
    effect,   \* how often each call took effect
    told      \* what the host was told: "nothing" so far, or one of Tellings

vars == <<repeats, asked, effect, told>>

Tellings == {"done", "refused", "unknown"}

Init ==
    /\ repeats \in [Calls -> SUBSET Calls]
    /\ asked = {}
    /\ effect = [c \in Calls |-> 0]
    /\ told = [c \in Calls |-> "nothing"]

Ask(c) ==
    /\ c \notin asked
    /\ asked' = asked \cup {c}
    /\ UNCHANGED <<repeats, effect, told>>

\* Late effects are the point: the host may have been told "unknown" already.
TakeEffect(c) ==
    /\ c \in asked \cap repeats[c]
    /\ told[c] # "refused"
    /\ \A d \in repeats[c] : effect[d] = 0
    /\ effect' = [effect EXCEPT ![c] = @ + 1]
    /\ UNCHANGED <<repeats, asked, told>>

MayTell(c, telling) ==
    CASE telling = "done"    -> repeats[c] = {} \/ \E d \in repeats[c] : effect[d] > 0
      [] telling = "refused" -> effect[c] = 0
      [] telling = "unknown" -> TRUE

\* A call that is refused at once is asked and told in one step.
Tell(c, telling) ==
    /\ told[c] = "nothing"
    /\ MayTell(c, telling)
    /\ asked' = asked \cup {c}
    /\ told' = [told EXCEPT ![c] = telling]
    /\ UNCHANGED <<repeats, effect>>

Next ==
    \E c \in Calls : Ask(c) \/ TakeEffect(c) \/ \E t \in Tellings : Tell(c, t)

Spec == Init /\ [][Next]_vars
=============================================================================

------------------------------ MODULE OneAttempt ------------------------------
(***************************************************************************)
(* What the outbound mutations promise: a reviewed draft or plan is        *)
(* attempted once, the provider applies it at most once, and the recorded  *)
(* outcome never claims more than is known and never changes.              *)
(***************************************************************************)
CONSTANTS Draft, Request

VARIABLES
    outcome,    \* what is recorded of each draft's attempt
    effects     \* the requests by which the provider applied it

vars == <<outcome, effects>>

Final == {"ACCEPTED", "FAILED", "UNCERTAIN"}

Init ==
    /\ outcome = [d \in Draft |-> "open"]
    /\ effects = [d \in Draft |-> {}]

Attempt(d) ==
    /\ outcome[d] = "open"
    /\ outcome' = [outcome EXCEPT ![d] = "PLANNED"]
    /\ UNCHANGED effects

\* The provider applies it, perhaps long after nobody waits for it.
TakeEffect(d, q) ==
    /\ outcome[d] \in {"PLANNED", "UNCERTAIN"} /\ effects[d] = {}
    /\ effects' = [effects EXCEPT ![d] = {q}]
    /\ UNCHANGED outcome

Conclude(d, final) ==
    /\ outcome[d] = "PLANNED"
    /\ final = "ACCEPTED" => effects[d] # {}
    /\ final = "FAILED" => effects[d] = {}
    /\ outcome' = [outcome EXCEPT ![d] = final]
    /\ UNCHANGED effects

Next ==
    \E d \in Draft :
        \/ Attempt(d)
        \/ \E q \in Request : TakeEffect(d, q)
        \/ \E final \in Final : Conclude(d, final)

Spec == Init /\ [][Next]_vars
=============================================================================

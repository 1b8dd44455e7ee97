-------------------------- MODULE MCRestoreRecovery --------------------------
(* Instances of RestoreRecovery for TLC. *)
EXTENDS RestoreRecovery
CONSTANTS p1, p2, c1, d1, op1, op2

OnePlan == {p1}
TwoPlans == {p1, p2}
OneClaim == {c1}
OneImage == {d1}
TwoOps == {op1, op2}
=============================================================================

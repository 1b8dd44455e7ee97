----------------------- MODULE MCSupervisedSubmission -----------------------
EXTENDS SupervisedSubmission, TLC

CONSTANTS q1, q2

OneRequest == {q1}
TwoRequests == {q1, q2}
Interchangeable == Permutations(TwoRequests)
=============================================================================

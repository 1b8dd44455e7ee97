------------------------- MODULE MCOutboundMutations -------------------------
EXTENDS OutboundMutations, TLC

CONSTANTS p1, f1, f2, c1, d1, d2, k1, k2, q1, q2

OneProvider == {p1}
TwoLogins == {f1, f2}
LoginsOfOne == [f \in TwoLogins |-> p1]
OneCallback == {c1}
None == {}
TwoDrafts == {d1, d2}
DraftsOfOne == [d \in TwoDrafts |-> p1]
SecondIsCalendar == {d2}
TwoKeys == {k1, k2}
TwoRequests == {q1, q2}

Interchangeable == Permutations(TwoLogins) \cup Permutations(TwoKeys)
                     \cup Permutations(TwoRequests)
=============================================================================

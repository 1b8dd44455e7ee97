--------------------------- MODULE MCMediaCleanup ---------------------------
EXTENDS MediaCleanup

CONSTANTS r1, r2, i1, i2, w1, a1

TwoRecords == {r1, r2}
TwoInvocations == {i1, i2}
OnePass == {w1}
OneAccount == {a1}
AllOnOneAccount == [i \in Invocation |-> a1]
FirstStuck == {r1}
=============================================================================

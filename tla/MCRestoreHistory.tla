-------------------------- MODULE MCRestoreHistory --------------------------
EXTENDS RestoreHistory, TLC

CONSTANTS i1, i2, i3, p1, p2

Symmetry == Permutations({i1, i2, i3}) \cup Permutations({p1, p2})
Bounds == [d \in DeskNames |->
    CASE d = "reviews" -> 4 [] d = "documents" -> 2 [] OTHER -> 3]
=============================================================================

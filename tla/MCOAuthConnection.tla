-------------------------- MODULE MCOAuthConnection --------------------------
EXTENDS OAuthConnection, TLC

CONSTANTS p1, f1, f2, c1, c2, v1, k1, k2

OneProvider == {p1}
TwoLogins == {f1, f2}
LoginsOfOne == [f \in TwoLogins |-> p1]
TwoCallbacks == {c1, c2}
OneRevoker == {v1}
TwoClients == {k1, k2}

Interchangeable == Permutations(TwoLogins) \cup Permutations(TwoCallbacks)
                     \cup Permutations(TwoClients)
=============================================================================

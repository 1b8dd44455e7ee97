------------------------- MODULE MCBackendSupervisor -------------------------
EXTENDS BackendSupervisor

CONSTANTS c1, c2, nobody

TwoChildren == {c1, c2}
=============================================================================

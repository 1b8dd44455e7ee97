----------------------- MODULE MCApplicationLifecycle -----------------------
EXTENDS ApplicationLifecycle, TLC

CONSTANTS r1, r2, q1, q2, plain, longer, mine, draft, plan

Symmetry == Permutations({r1, r2})

\* A follow-up question is required once it is shown.
Required == [l \in {plain, longer} |-> IF l = plain THEN {q1} ELSE {q1, q2}]

\* The user disconnects and connects the same account anew.
OneAccount == [c \in 1..2 |-> mine]

\* A backlog of two messages is over the limit of one of the providers.
Limits == [gmail |-> 1, outlook |-> 2]
=============================================================================

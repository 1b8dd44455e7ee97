---------------------- MODULE MCApplicationPreparation ----------------------
EXTENDS ApplicationPreparation, TLC

CONSTANTS r1, r2, c1, c2, a1, d1, doc1, doc2, form, outside, box

Symmetry == Permutations({r1, r2})

TheClaims == {c1, c2}
SameKey == [c \in TheClaims |-> "work_authorization"]
YesNo == [d \in {d1} |-> "YES_NO"]
NoRules == [d \in {d1} |-> [choices |-> {}, range |-> Unbounded]]
Limits == [d \in {d1} |-> 4]
Word(w) == [form |-> "word", word |-> w, amount |-> 0, length |-> 3, lines |-> 1,
            normal |-> TRUE]
SmallValues == {Word("yes"), Word("No")}
Proposals == [d \in {doc1, doc2} |-> IF d = doc1 THEN {c1} ELSE {}]

Radio == [kind |-> "RADIO_GROUP", legal |-> FALSE, options |-> {"Yes", "No"}, limit |-> 4,
          range |-> Unbounded, located |-> TRUE, frozen |-> FALSE, repeated |-> FALSE,
          visible |-> TRUE, satisfied |-> FALSE]
SmallShapes == {Radio, [Radio EXCEPT !.legal = TRUE]}
Saved == [d \in {d1} |-> [Word("Yes") EXCEPT !.normal = TRUE]]
=============================================================================

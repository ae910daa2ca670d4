--------------------------- MODULE MCMulticutSearch ---------------------------
(***************************************************************************)
(* Instances of MulticutSearch for TLC.                                    *)
(***************************************************************************)
EXTENDS MulticutSearch

CONSTANTS r, a, b, c, d, e

\*          r                 four terminals
\*        / | \
\*       a  b  c              a branches, b is queued and solved when it is
\*      / \                   pulled, c, d and e are solved at once
\*     d   e
Tree == [p \in Problems |->
           IF p = r THEN {a, b, c} ELSE IF p = a THEN {d, e} ELSE {}]
TreeDirect == {c, d, e}
TreeUnder == [p \in Problems |->
           IF p = r THEN {b, c, d, e} ELSE IF p = a THEN {d, e} ELSE {p}]
TreeLB == [p \in Problems |->
           IF p = r THEN 1 ELSE IF p = a THEN 2 ELSE IF p = b THEN 3
           ELSE IF p = c THEN 5 ELSE IF p = d THEN 4 ELSE 2]
\* The optimum 2 is below a, the problem with the lightest cuts.
TreeValue == [p \in Problems |->
           IF p = r THEN 6 ELSE IF p = a THEN 5 ELSE IF p = b THEN 3
           ELSE IF p = c THEN 5 ELSE IF p = d THEN 4 ELSE 2]
\* Local search improves the cuts of r, a and c, not beyond the optimum.
TreePolished == [p \in Problems |->
           IF p = r THEN 4 ELSE IF p = a THEN 3 ELSE IF p = c THEN 4 ELSE TreeValue[p]]
TreeTerms == [p \in Problems |-> IF p = r THEN 3 ELSE IF p \in {a, b} THEN 2 ELSE 1]
BoundSum == [p \in Problems |-> TreeLB[p] + TreeValue[p]]

=============================================================================

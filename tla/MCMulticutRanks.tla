---------------------------- MODULE MCMulticutRanks ----------------------------
(***************************************************************************)
(* Instances of MulticutRanks for TLC.                                     *)
(***************************************************************************)
EXTENDS MulticutRanks

CONSTANTS r, a, b, c, d

\* The root has two children, one of which is solved without being queued and the
\* other one branches again; the optimum is below it, and local search finds a cut
\* lighter than the first.
Tree == [p \in Problems |-> IF p = r THEN {a, d} ELSE IF p = a THEN {b, c} ELSE {}]
TreeUnder == [p \in Problems |->
           IF p = r THEN {b, c, d} ELSE IF p = a THEN {b, c} ELSE {p}]
TreeLB == [p \in Problems |-> IF p \in {r, d} THEN 1 ELSE IF p = b THEN 3 ELSE 2]
TreeValue == [p \in Problems |->
           IF p = r THEN 4 ELSE IF p = c THEN 2 ELSE 3]
TreePolished == [p \in Problems |-> IF p = r THEN 3 ELSE TreeValue[p]]
TreeTerms == [p \in Problems |-> IF p = d THEN 2 ELSE 3]
=============================================================================

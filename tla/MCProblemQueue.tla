---------------------------- MODULE MCProblemQueue ----------------------------
(***************************************************************************)
(* Instances of ProblemQueue for TLC.                                      *)
(***************************************************************************)
EXTENDS ProblemQueue

CONSTANTS a, b, c

\* Lower bounds that make a later problem better than the one in the slot.
FallingLB == [p \in Problems |-> IF p = a THEN 3 ELSE IF p = b THEN 2 ELSE 1]

\* The comparison of the queue orders the problems another way (bound_sum).
OtherKey == [p \in Problems |-> IF p = a THEN 1 ELSE IF p = b THEN 3 ELSE 2]

\* A bound that cuts off some of the problems, and one that cuts off none.
TwoBounds == {2, 4}
=============================================================================

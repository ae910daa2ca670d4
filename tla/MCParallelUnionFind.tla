-------------------------- MODULE MCParallelUnionFind --------------------------
(***************************************************************************)
(* Instances of ParallelUnionFind for TLC.                                 *)
(***************************************************************************)
EXTENDS ParallelUnionFind

\* Element 0 is a block of its own; the pairs make a path of the other five,
\* as in the blocks of tests/union_find_test.cpp.
PathOps == {<<2, 1>>, <<2, 3>>, <<3, 4>>, <<4, 5>>}
PathBlock == [x \in Elem |-> IF x = 0 THEN 0 ELSE 1]

\* A triangle, as in the pairs of a contracted cycle, one of which is redundant,
\* with an edge hanging from each of two of its corners.
KiteOps == {<<0, 1>>, <<1, 2>>, <<0, 2>>, <<1, 3>>, <<2, 4>>}
KiteBlock == [x \in Elem |-> 0]
=============================================================================

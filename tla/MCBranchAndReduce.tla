-------------------------- MODULE MCBranchAndReduce --------------------------
(***************************************************************************)
(* Instances of BranchAndReduce for TLC.                                   *)
(***************************************************************************)
EXTENDS BranchAndReduce

Instance(n, orig, edges) ==
    [g |-> FoldLeft(LAMBDA G, e : NewEdge(G, e[1], e[2], e[3]), Empty(n), edges), orig |-> orig]

\* Between them every test merges something, and branching leaves two, three and
\* four terminals, and none.
Branched ==
    Instance(5, <<1, 5, 4>>, << <<1, 2, 5>>, <<1, 3, 4>>, <<1, 4, 4>>, <<2, 3, 2>>, <<2, 4, 4>>,
                                <<2, 5, 3>>, <<3, 4, 5>>, <<3, 5, 5>>, <<4, 5, 4>> >>)
Pruned ==
    Instance(6, <<1, 6, 2, 5>>,
             << <<1, 3, 1>>, <<1, 4, 2>>, <<1, 5, 1>>, <<2, 3, 2>>, <<2, 4, 2>>, <<3, 4, 1>>,
                <<3, 5, 1>>, <<3, 6, 2>>, <<4, 5, 1>>, <<4, 6, 1>> >>)
\* The limit of the scan lets terminals be merged.
Merging ==
    Instance(5, <<2, 4, 3>>, << <<1, 2, 2>>, <<1, 3, 2>>, <<1, 4, 3>>, <<2, 4, 1>>, <<2, 5, 3>>,
                                <<3, 5, 1>>, <<4, 5, 3>> >>)
Sparse ==
    Instance(6, <<1, 5, 3>>, << <<1, 3, 1>>, <<1, 4, 2>>, <<2, 4, 1>>, <<3, 6, 2>>, <<4, 5, 2>>,
                                <<4, 6, 2>>, <<5, 6, 1>> >>)
Triangular ==
    Instance(6, <<6, 2, 1>>, << <<1, 2, 1>>, <<1, 3, 2>>, <<1, 6, 1>>, <<2, 4, 1>>, <<2, 5, 2>>,
                                <<3, 4, 1>>, <<3, 5, 2>>, <<4, 5, 1>>, <<5, 6, 2>> >>)
Twins ==
    Instance(5, <<5, 2, 4>>, << <<1, 2, 2>>, <<1, 3, 2>>, <<1, 4, 2>>, <<1, 5, 1>>, <<2, 3, 2>>,
                                <<3, 4, 2>>, <<3, 5, 1>> >>)
\* Nothing but an articulation point to see in the part behind 4.
Behind ==
    Instance(9, <<1, 2, 3>>, << <<1, 4, 3>>, <<2, 4, 3>>, <<3, 4, 3>>, <<4, 7, 1>>, <<4, 8, 1>>,
                                <<4, 9, 1>>, <<5, 7, 1>>, <<5, 8, 1>>, <<5, 9, 1>>, <<6, 7, 1>>,
                                <<6, 8, 1>>, <<6, 9, 1>> >>)
All == {Branched, Pruned, Merging, Sparse, Triangular, Twins, Behind}
=============================================================================

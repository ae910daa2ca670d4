--------------------------- MODULE MCDynamicMincut ---------------------------
(***************************************************************************)
(* Instances of DynamicMincut.  Without updates: a cycle; a cycle with a   *)
(* chord and a vertex that hangs on it; a graph that is not connected; one *)
(* whose minimum cuts form two cycles that meet in an empty vertex; and a  *)
(* web of seven vertices.  Updated in any way: two triangles joined by a   *)
(* heavier edge; a clique, whose cactus is a star around an empty vertex;  *)
(* a triangle with a vertex that hangs on it; a star with a long leg; a    *)
(* graph of three pieces; and a path after an edge in it is deleted.       *)
(* Longer sequences on a cycle, in which cuts are cached and cached cuts   *)
(* are used.                                                               *)
(***************************************************************************)
EXTENDS DynamicMincut

Make(n, E) == FoldLeft(LAMBDA G, e : NewEdge(G, e[1], e[2], e[3]), Empty(n), E)

Cycle == Make(5, << <<1, 2, 1>>, <<2, 3, 1>>, <<3, 4, 1>>, <<4, 5, 1>>, <<1, 5, 1>> >>)
Kite == Make(5, << <<1, 2, 1>>, <<1, 3, 1>>, <<2, 3, 1>>, <<2, 4, 1>>, <<3, 4, 1>>,
                   <<4, 5, 1>> >>)
Barbell == Make(6, << <<1, 2, 1>>, <<1, 3, 1>>, <<2, 3, 1>>, <<4, 5, 1>>, <<4, 6, 1>>,
                      <<5, 6, 1>>, <<3, 4, 2>> >>)
Clique == Make(4, << <<1, 2, 1>>, <<1, 3, 1>>, <<1, 4, 1>>, <<2, 3, 1>>, <<2, 4, 1>>,
                     <<3, 4, 1>> >>)
Apart == Make(5, << <<1, 2, 1>>, <<1, 3, 1>>, <<2, 3, 1>>, <<4, 5, 1>> >>)
Rings == Make(6, << <<1, 2, 2>>, <<2, 3, 2>>, <<4, 5, 2>>, <<5, 6, 2>>, <<1, 4, 1>>,
                    <<1, 6, 1>>, <<3, 4, 1>>, <<3, 6, 1>> >>)
Web == Make(7, << <<2, 4, 2>>, <<1, 2, 1>>, <<2, 5, 1>>, <<2, 3, 2>>, <<1, 7, 1>>,
                  <<4, 7, 1>>, <<3, 5, 2>>, <<5, 7, 2>>, <<1, 6, 2>>, <<4, 6, 2>> >>)
Pan == Make(4, << <<1, 2, 1>>, <<1, 3, 1>>, <<2, 3, 2>>, <<3, 4, 1>> >>)
Ring == Make(7, [i \in 1 .. 7 |-> IF i = 7 THEN <<1, 7, 1>> ELSE <<i, i + 1, 1>>])
Line == Make(5, [i \in 1 .. 4 |-> <<i, i + 1, 1>>])
Spider == Make(5, << <<1, 2, 1>>, <<2, 3, 1>>, <<3, 4, 1>>, <<3, 5, 1>> >>)
Pieces == Make(5, << <<1, 2, 1>>, <<3, 4, 1>> >>)

MCGraphs == {Cycle, Kite, Barbell, Clique, Apart, Rings, Web, Pan, Ring, Line, Spider, Pieces}

Every(n) == {e \in (1 .. n) \X (1 .. n) \X (0 .. 2) : e[1] < e[2]}
MCStreams(G) ==
    CASE G = Clique -> {<<Every(4), Every(4)>>}
      [] G = Pan -> {<<Every(4), Every(4), Every(4)>>}
      [] G = Ring -> {<<{<<1, 2, 0>>}, {<<3, 4, 0>>, <<4, 6, 1>>}, {<<4, 6, 1>>, <<1, 2, 1>>}>>,
                       <<{<<1, 2, 0>>}, {<<3, 4, 0>>}, {<<4, 6, 1>>}, {<<1, 2, 1>>}>>}
      [] G = Line -> {<<{<<3, 4, 0>>}, Every(5), Every(5)>>}
      [] G \in {Spider, Pieces} -> {<<Every(5)>>}
      [] G = Barbell -> {<<Every(6)>>}
      [] OTHER -> {<<>>}
=============================================================================

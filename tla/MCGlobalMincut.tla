---------------------------- MODULE MCGlobalMincut ----------------------------
(***************************************************************************)
(* Instances of GlobalMincut for TLC.                                      *)
(***************************************************************************)
EXTENDS ParallelMincut

CONSTANTS t1, t2
Swapped == Permutations(Threads)

Make(n, E) == FoldLeft(LAMBDA G, e : NewEdge(G, e[1], e[2], e[3]), Empty(n), E)

\* Two complete graphs of four vertices and an edge between them.
Bridge ==
    Make(8, << <<1, 2, 1>>, <<1, 3, 1>>, <<1, 4, 1>>, <<2, 3, 1>>, <<2, 4, 1>>, <<3, 4, 1>>,
               <<4, 5, 1>>, <<5, 6, 1>>, <<5, 7, 1>>, <<5, 8, 1>>, <<6, 7, 1>>, <<6, 8, 1>>,
               <<7, 8, 1>> >>)

\* Two triangles and an edge between them, which is lighter than every vertex.
Barbell ==
    Make(6, << <<1, 2, 2>>, <<1, 3, 1>>, <<2, 3, 2>>, <<3, 4, 2>>, <<4, 5, 2>>, <<4, 6, 2>>,
               <<5, 6, 1>> >>)

\* A cycle with two vertices hanging from it.
Hanging == Make(6, << <<1, 2, 1>>, <<2, 3, 1>>, <<3, 4, 1>>, <<1, 4, 1>>, <<1, 5, 1>>, <<3, 6, 1>> >>)

\* A graph that is not connected.
Apart == Make(5, << <<1, 2, 1>>, <<1, 3, 1>>, <<2, 3, 1>>, <<4, 5, 1>> >>)

\* Others, where label propagation finds blocks that a trivial cut splits.
Wheel == Make(5, << <<1, 2, 2>>, <<1, 3, 1>>, <<1, 4, 1>>, <<1, 5, 1>>, <<2, 3, 1>>, <<2, 5, 1>>,
                    <<3, 4, 2>>, <<4, 5, 1>> >>)
Pan == Make(4, << <<1, 2, 1>>, <<1, 3, 1>>, <<2, 3, 2>>, <<3, 4, 1>> >>)
Triangle == Make(3, << <<1, 2, 2>>, <<1, 3, 1>>, <<2, 3, 3>> >>)
Even == Make(3, << <<1, 2, 1>>, <<1, 3, 1>>, <<2, 3, 1>> >>)
Paw == Make(4, << <<1, 2, 1>>, <<1, 3, 1>>, <<2, 3, 1>>, <<3, 4, 1>> >>)
Square == Make(4, << <<1, 2, 3>>, <<1, 3, 1>>, <<2, 4, 1>>, <<3, 4, 3>> >>)
Kite == Make(4, << <<1, 2, 2>>, <<1, 3, 1>>, <<1, 4, 1>>, <<2, 3, 1>>, <<3, 4, 2>> >>)
Nine == Make(9, << <<1, 3, 1>>, <<1, 7, 1>>, <<1, 9, 1>>, <<2, 6, 1>>, <<2, 9, 2>>, <<3, 4, 2>>,
                   <<3, 7, 1>>, <<3, 8, 2>>, <<4, 6, 2>>, <<4, 8, 2>>, <<5, 6, 1>>, <<5, 7, 2>>,
                   <<6, 7, 2>>, <<6, 8, 1>> >>)

MCGraphs == {Bridge, Barbell, Hanging, Apart, Wheel, Pan, Triangle, Even, Square, Paw, Kite, Nine}
Racing == {Triangle}

\* Karger and Stein's algorithm does not end on a graph with few edges.
Of(algos, graphs) == [algo : algos, graph : graphs]
Threaded(G) ==
    IF G \in {Pan, Triangle} THEN {"inexact", "exact", "known"}
    ELSE IF G \in {Even, Square} THEN {"exact"}
    ELSE IF G = Kite THEN {"inexact", "cactus"}
    ELSE IF G = Paw THEN {"cactus"} ELSE {}
MCPrograms(G) ==
    Of(Threaded(G), IF G \in {Triangle, Paw} THEN {"static", "mutable"} ELSE {"static"}) \cup
    IF G = Hanging THEN Of({"ks"}, {"static"})
    ELSE IF G = Nine THEN Of({"vc"}, {"static", "mutable"})
    ELSE Of({"noi", "matula", "pr"} \cup (IF G = Bridge THEN {} ELSE {"vc"}), {"static", "mutable"})
         \cup (IF G \in {Wheel, Pan, Triangle} THEN Of({"ks"}, {"static"}) ELSE {})
OnlyCactus(G) == Of({"cactus"}, {"static"})

\* All orders of few vertices, and two of more.
MCOrders(n) ==
    IF n <= 4 THEN SetToSeqs(1 .. n) ELSE {Singletons(n), Reverse(Singletons(n))}
=============================================================================

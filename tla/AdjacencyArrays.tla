--------------------------- MODULE AdjacencyArrays ---------------------------
(***************************************************************************)
(* The graph that every algorithm contracts                                *)
(* (lib/data_structure/mutable_graph.h): adjacency arrays in which an edge *)
(* is stored at both ends and each copy holds the index of the other.      *)
(* Deleting an edge fills its place with the last edge of the array, and   *)
(* removing a vertex gives its index to the last vertex, so every one of   *)
(* these operations has indices elsewhere to correct.  The operators take  *)
(* a graph object and return what the method makes of it.  An object has   *)
(* vs (vertices), deg (weighted_degree), m (num_edges), last (last_node),  *)
(* cont (contained_in_this) and pos (current_position), and exited says    *)
(* that the program has ended in a failed check; an index is one more than *)
(* the code's, and the undefined position is 0.                            *)
(***************************************************************************)
EXTENDS Integers, FiniteSets, SequencesExt, Functions, TLC

RevEdge(to, w, rev) == [to |-> to, w |-> w, rev |-> rev]

-----------------------------------------------------------------------------
\* Building and changing edges

\* f(1) .. f(n); as a subsequence of itself it is a value that is not evaluated again.
Sequence(n, f(_)) == SubSeq([i \in 1 .. n |-> f(i)], 1, n)

\* The members of a set of indices in their order.
Ascending(S) ==
    IF S = {} THEN <<>>
    ELSE SelectSeq(Sequence(Max(S), LAMBDA v : v), LAMBDA v : v \in S)

\* start_construction and finish_construction
Empty(n) ==
    [vs |-> Sequence(n, LAMBDA v : <<>>), deg |-> Sequence(n, LAMBDA v : 0), m |-> 0, last |-> n,
     cont |-> Sequence(n, LAMBDA v : {v}), pos |-> Sequence(n, LAMBDA v : v), exited |-> FALSE]

\* An edge is only made from its smaller end; the other call changes nothing.
NewEdge(G, s, t, w) ==
    IF s >= t THEN G
    ELSE [G EXCEPT !.vs[s] = Append(@, RevEdge(t, w, Len(G.vs[t]) + 1)),
                   !.vs[t] = Append(@, RevEdge(s, w, Len(G.vs[s]) + 1)),
                   !.m = @ + 2, !.deg[s] = @ + w, !.deg[t] = @ + w]

SetEdgeWeight(G, v, i, w) ==
    LET e == G.vs[v][i]
    IN  [G EXCEPT !.vs[v][i].w = w, !.vs[e.to][e.rev].w = w,
                  !.deg[v] = @ + w - e.w, !.deg[e.to] = @ + w - e.w]

\* Mutant: the other end of the moved edge is not told its new index.
InternalDeleteEdge_Untold(G, v, i) ==
    [G EXCEPT !.vs[v] = Front([@ EXCEPT ![i] = Last(G.vs[v])])]

\* The last edge of v takes the place of edge i.
InternalDeleteEdge(G, v, i) ==
    LET moved == Last(G.vs[v])
        cut == [G EXCEPT !.vs[v] = Front([@ EXCEPT ![i] = moved])]
    IN  IF i = Len(G.vs[v]) THEN cut ELSE [cut EXCEPT !.vs[moved.to][moved.rev].rev = i]

DeleteEdge(G, v, i) ==
    LET e == G.vs[v][i]
    IN  [InternalDeleteEdge(InternalDeleteEdge(G, v, i), e.to, e.rev) EXCEPT
            !.deg[v] = @ - e.w, !.deg[e.to] = @ - e.w, !.m = @ - 2]

-----------------------------------------------------------------------------
\* Removing a vertex

Place(G, S, v) == Sequence(Len(G.pos), LAMBDA x : IF x \in S THEN v ELSE G.pos[x])

\* The last vertex takes index v, and its neighbors learn it.
MoveLast(G, v) ==
    LET k == Len(G.vs)
        moved == [G EXCEPT !.vs = Front([@ EXCEPT ![v] = G.vs[k]]),
                           !.deg = Front([@ EXCEPT ![v] = G.deg[k]]), !.last = @ - 1]
        tell(H, e) == [H EXCEPT !.vs[e.to][e.rev].to = v]
    IN  IF v = k THEN moved ELSE FoldLeft(tell, moved, moved.vs[v])

\* Mutant: the positions of what the last vertex contains stay.
DeleteVertex_StaleNames(G, v) ==
    LET k == Len(G.vs)
        unlink(H, i) ==
            LET e == H.vs[v][i]
            IN  [InternalDeleteEdge(H, e.to, e.rev) EXCEPT !.m = @ - 2, !.deg[e.to] = @ - e.w]
        named == [G EXCEPT !.pos = Place(G, G.cont[v], k), !.cont[v] = G.cont[k]]
    IN  MoveLast(FoldLeftDomain(unlink, IF v < k THEN named ELSE G, G.vs[v]), v)

\* What v contained is left pointing behind the last vertex.
DeleteVertex(G, v) ==
    LET k == Len(G.vs)
        unlink(H, i) ==
            LET e == H.vs[v][i]
            IN  [InternalDeleteEdge(H, e.to, e.rev) EXCEPT !.m = @ - 2, !.deg[e.to] = @ - e.w]
        lastNamed == [G EXCEPT !.pos = Place(G, G.cont[k], v)]
        named == [lastNamed EXCEPT !.pos = Place(lastNamed, G.cont[v], k),
                                   !.cont[v] = G.cont[k]]
    IN  MoveLast(FoldLeftDomain(unlink, IF v < k THEN named ELSE G, G.vs[v]), v)

\* The names in a removed vertex go to v, those of the last vertex to the
\* removed one; contained_in_this loses its last element, which need not be
\* that of the last vertex, since deleteVertex leaves one behind.
Absorb(G, v, gone) ==
    LET taken == [G EXCEPT !.pos = Place(G, G.cont[gone], v),
                           !.cont[v] = @ \cup G.cont[gone], !.cont[gone] = {}]
        behind == taken.cont[Len(G.vs)]
    IN  [taken EXCEPT !.pos = Place(taken, behind, gone),
                      !.cont = Front([@ EXCEPT ![gone] = taken.cont[gone] \cup behind])]

-----------------------------------------------------------------------------
\* Contraction

\* Edge e of a vertex that is merged into v: its weight is added to edge i of
\* v, whose other end has index rev and loses its edge to the merged vertex,
\* or with i = 0 it becomes a new edge of v.
TakeEdge(G, v, e, i, rev) ==
    IF i = 0
    THEN [G EXCEPT !.vs[e.to][e.rev] = RevEdge(v, @.w, Len(G.vs[v]) + 1),
                   !.vs[v] = Append(@, RevEdge(e.to, e.w, e.rev)), !.deg[v] = @ + e.w]
    ELSE [InternalDeleteEdge([G EXCEPT !.vs[v][i].w = @ + e.w, !.vs[e.to][rev].w = @ + e.w],
                             e.to, e.rev)
             EXCEPT !.deg[v] = @ + e.w, !.m = @ - 2]

MergeEdgeSparse(G, v, e) ==
    LET i == SelectInSeq(G.vs[v], LAMBDA f : f.to = e.to)
    IN  TakeEdge(G, v, e, i, IF i = 0 THEN 0 ELSE G.vs[v][i].rev)

\* The code's map: for each target of the edges with indices in I, the edge and
\* the index of its other end.
IndexEdges(edges, I) ==
    [t \in {edges[i].to : i \in I} |->
        LET i == Min({j \in I : edges[j].to = t}) IN [i |-> i, rev |-> edges[i].rev]]

\* Mutant: the degree still counts the edges that are dropped.
DropInner_KeepsDegree(G, S, first) ==
    LET edges == G.vs[first]
        keep(H, i) ==
            LET e == edges[i]
            IN  IF e.to \in S THEN [H EXCEPT !.m = @ - 1]
                ELSE [H EXCEPT !.vs[first] = Append(@, e),
                               !.vs[e.to][e.rev].rev = Len(H.vs[first]) + 1]
    IN  FoldLeftDomain(keep, [G EXCEPT !.vs[first] = <<>>], edges)

\* The edges of first that stay in the set are dropped, and the other ends of the
\* kept ones learn their new indices.
DropInner(G, S, first) ==
    LET edges == G.vs[first]
        keep(H, i) ==
            LET e == edges[i]
            IN  IF e.to \in S THEN [H EXCEPT !.m = @ - 1, !.deg[first] = @ - e.w]
                ELSE [H EXCEPT !.vs[first] = Append(@, e),
                               !.vs[e.to][e.rev].rev = Len(H.vs[first]) + 1]
    IN  FoldLeftDomain(keep, [G EXCEPT !.vs[first] = <<>>], edges)

\* The map with an entry for t.
Noted(map, t, i, rev) ==
    [u \in DOMAIN map \cup {t} |-> IF u = t THEN [i |-> i, rev |-> rev] ELSE map[u]]

\* Mutant: when the deletion moves the edge that the map knows, it is not updated.
TakeFromSet_StaleMap(st, first, S, e) ==
    IF e.to \in S THEN [st EXCEPT !.g.m = @ - 1]
    ELSE IF e.to \in DOMAIN st.map
    THEN [st EXCEPT !.g = TakeEdge(st.g, first, e, st.map[e.to].i, st.map[e.to].rev)]
    ELSE [g |-> TakeEdge(st.g, first, e, 0, 0),
          map |-> Noted(st.map, e.to, Len(st.g.vs[first]) + 1, e.rev)]

TakeFromSet(st, first, S, e) ==
    IF e.to \in S THEN [st EXCEPT !.g.m = @ - 1]
    ELSE IF e.to \in DOMAIN st.map
    THEN LET known == st.map[e.to]
         IN  [g |-> TakeEdge(st.g, first, e, known.i, known.rev),
              map |-> IF known.rev = Len(st.g.vs[e.to])
                      THEN [st.map EXCEPT ![e.to].rev = e.rev] ELSE st.map]
    ELSE [g |-> TakeEdge(st.g, first, e, 0, 0),
          map |-> Noted(st.map, e.to, Len(st.g.vs[first]) + 1, e.rev)]

\* order: the other vertices of the set, as the hash table enumerates them; they are
\* removed from the last one on.
ContractVertexSet(G, S, first, order) ==
    LET inner == DropInner(G, S, first)
        take(st, v) ==
            FoldLeftDomain(LAMBDA s, i : TakeFromSet(s, first, S, s.g.vs[v][i]), st, st.g.vs[v])
        map == IndexEdges(inner.vs[first], DOMAIN inner.vs[first])
        taken == FoldLeft(take, [g |-> inner, map |-> map], order).g
        remove(H, i) ==
            LET v == Len(G.vs) + 1 - i
            IN  IF v \in S \ {first} THEN MoveLast(Absorb(H, first, v), v) ELSE H
    IN  FoldLeftDomain(remove, taken, G.vs)

\* Edge i of v, of which the end with the smaller index stays.
ContractEdge(G, v0, i0) ==
    LET e0 == G.vs[v0][i0]
        flip == e0.to < v0
        v == IF flip THEN e0.to ELSE v0
        i == IF flip THEN e0.rev ELSE i0
        e == G.vs[v][i]
        map == IndexEdges(G.vs[v], DOMAIN G.vs[v] \ {i})
        take(H, j) ==
            LET f == H.vs[e.to][j]
            IN  IF j = e.rev THEN H
                ELSE IF f.to \in DOMAIN map THEN TakeEdge(H, v, f, map[f.to].i, map[f.to].rev)
                ELSE TakeEdge(H, v, f, 0, 0)
        taken == FoldLeftDomain(take, G, G.vs[e.to])
    IN  [InternalDeleteEdge(MoveLast(Absorb(taken, v, e.to), e.to), v, i)
            EXCEPT !.m = @ - 2, !.deg[v] = @ - e.w]

ContractEdgeSparseTarget(G, v, i) ==
    LET e == G.vs[v][i]
        take(H, j) == IF j = e.rev THEN H ELSE MergeEdgeSparse(H, v, H.vs[e.to][j])
        absorbed == Absorb(FoldLeftDomain(take, G, G.vs[e.to]), v, e.to)
        unlinked == [InternalDeleteEdge(absorbed, v, i) EXCEPT !.m = @ - 2, !.deg[v] = @ - e.w]
    IN  IF v = e.to + 1 THEN ContractEdge(G, v, i) ELSE MoveLast(unlinked, e.to)

ContractSparseTargetNoEdge(G, v, target) ==
    LET take(H, j) == MergeEdgeSparse(H, v, H.vs[target][j])
    IN  IF v = target + 1 THEN ContractVertexSet(G, {v, target}, target, <<v>>)
        ELSE MoveLast(Absorb(FoldLeftDomain(take, G, G.vs[target]), v, target), target)
-----------------------------------------------------------------------------
\* Copies

\* The edges of G entered into a new graph, each when its smaller end is read.
Rebuild(G) ==
    FoldLeftDomain(LAMBDA H, v : FoldLeft(LAMBDA I, e : NewEdge(I, v, e.to, e.w), H, G.vs[v]),
                   Empty(Len(G.vs)), G.vs)

Simplify(G) == Rebuild(G)

\* deserialize(serialize()): who contains whom is read off the positions.
Transmit(G) ==
    [Rebuild(G) EXCEPT !.pos = G.pos,
                       !.cont = [v \in DOMAIN G.vs |-> {x \in DOMAIN G.pos : G.pos[x] = v}]]

-----------------------------------------------------------------------------
\* New vertices

\* After a deletion contained_in_this is longer than vertices, and the new
\* vertex finds there what the last vertex contained.
NewEmptyNode(G) ==
    IF G.last < Len(G.vs) THEN [G EXCEPT !.last = @ + 1]
    ELSE [G EXCEPT !.vs = Append(@, <<>>), !.deg = Append(@, 0),
                   !.cont = Append(@, {}), !.last = @ + 1]

\* An edge from either end; none from a vertex to itself.
NewEdgeOrder(G, s, t, w) == NewEdge(G, Min({s, t}), Max({s, t}), w)

\* setContainedVertices(v, S), and setCurrentPosition for each name in S
Name(G, v, S) == [G EXCEPT !.cont[v] = S, !.pos = Place(G, S, v)]

\* An empty vertex, an edge from it and the names that it contains.
ReInsert(G, near, S, w) ==
    LET new == NewEmptyNode(G)
    IN  Name(NewEdgeOrder(new, new.pos[near], new.last, w), new.last, S)

ResetContained(G) ==
    LET V == DOMAIN G.vs
    IN  [G EXCEPT !.cont = Sequence(Len(G.cont), LAMBDA v : IF v \in V THEN {v} ELSE G.cont[v]),
                  !.pos = Sequence(Len(G.pos), LAMBDA x : IF x \in V THEN x ELSE G.pos[x])]

=============================================================================

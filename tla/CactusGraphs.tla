----------------------------- MODULE CactusGraphs -----------------------------
(***************************************************************************)
(* The cactus of all minimum cuts.  In a cactus a tree edge weighs mincut, *)
(* an edge of a cycle half of it, and a vertex may be empty; removing a    *)
(* tree edge or two edges of a cycle gives a minimum cut.  These operators *)
(* take vertices out of a graph before it is split and put them back       *)
(* (cactus/heavy_edges.h), merge two cacti (cactus/graph_modification.h)   *)
(* and make the cactus of the minimum cuts between two vertices            *)
(* (findSTCactus of cactus/recursive_cactus.h).                            *)
(***************************************************************************)
EXTENDS Coarsening, StrongComponents

IsEmpty(G, v) == G.cont[v] = {}
FirstName(G, v) == Min(G.cont[v])
EdgeTo(G, v, t) == SelectInSeq(G.vs[v], LAMBDA e : e.to = t)
Checked(G, holds) == IF holds THEN G ELSE [G EXCEPT !.exited = TRUE]

-----------------------------------------------------------------------------
\* Vertices taken out of the graph and put back

\* Edges heavier than mincut are contracted; then vertices that hang on one edge
\* of weight mincut are deleted, each remembered with a name next to it.
RemoveHeavyEdges(G, mincut) ==
    LET arcs == SelectSeq(Arcs(G), LAMBDA a : ~IsEmpty(G, a.n) /\ ~IsEmpty(G, a.to))
        names(a) == {FirstName(G, a.n), FirstName(G, a.to)}
        heavy == {names(a) : a \in {arcs[i] : i \in {j \in DOMAIN arcs : arcs[j].w > mincut}}}
        marked == SelectSeq(arcs, LAMBDA a : a.w = mincut /\ Len(G.vs[a.n]) = 1)
        contract(H, lowest) ==
            ContractSet(H, {H.pos[x] : x \in UNION {p \in heavy : Min(p) = lowest}})
        contracted == FoldLeft(contract, G, Ascending({Min(p) : p \in heavy}))
        remove(st, a) ==
            LET v == st.g.pos[FirstName(G, a.n)]
                t == st.g.vs[v][1].to
            IN  IF Len(st.g.vs) <= 2 \/ IsEmpty(st.g, t) THEN st
                ELSE [g |-> DeleteVertex(st.g, v),
                      edges |-> Append(st.edges, [near |-> FirstName(st.g, t),
                                                  cont |-> st.g.cont[v]])]
    IN  FoldLeft(remove, [g |-> contracted, edges |-> <<>>], marked)

\* A vertex of two edges and weight mincut gives its names away and is
\* contracted into its heavier neighbor; it is remembered with names at both
\* ends of the place where it was, that of the heavier neighbor twice.
TakeFromCycle(st, n) ==
    LET G == st.g
        e == G.vs[n]
        rev == IF e[2].w > e[1].w THEN 2 ELSE 1
        n0 == e[rev].to
        n1 == IF e[2].w < e[1].w THEN e[1].to ELSE e[2].to
        nameless == Name(G, n, {})
        undefined == [nameless EXCEPT !.pos = Place(G, G.cont[n], 0)]
    IN  [g |-> ContractEdgeSparseTarget(undefined, n0, e[rev].rev),
         edges |-> Append(st.edges, [near |-> <<FirstName(G, n0), FirstName(G, n1)>>,
                                     cont |-> G.cont[n]])]

CycleStep(st, n, mincut) ==
    LET G == st.g
        e == G.vs[n]
        heavier == IF e[1].w < e[2].w THEN 2 ELSE 1
    IN  IF Len(e) # 2 THEN st
        ELSE IF G.deg[n] = mincut
        THEN IF IsEmpty(G, e[1].to) \/ IsEmpty(G, e[2].to) THEN st ELSE TakeFromCycle(st, n)
        ELSE IF e[1].w # e[2].w
        THEN [st EXCEPT !.g = ContractEdgeSparseTarget(G, e[heavier].to, e[heavier].rev)]
        ELSE st

\* The loop counts on while the number of vertices falls.
RECURSIVE CycleEdgesFrom(_, _, _)
CycleEdgesFrom(st, n, mincut) ==
    IF n > Len(st.g.vs) THEN st ELSE CycleEdgesFrom(CycleStep(st, n, mincut), n + 1, mincut)

ContractCycleEdges(G, mincut) == CycleEdgesFrom([g |-> G, edges |-> <<>>], 1, mincut)

\* Between two vertices half of the edge makes way for the vertex.
ReInsertCycle(G, c, mincut) ==
    LET n0 == G.pos[c.near[1]]
        n1 == G.pos[c.near[2]]
        e == EdgeTo(G, n0, n1)
        new == NewEmptyNode(G)
        v == new.last
        half == mincut \div 2
        linked == NewEdgeOrder(NewEdgeOrder(new, n0, v, half), n1, v, half)
        w01 == G.vs[n0][e].w
        split == IF w01 = half THEN DeleteEdge(linked, n0, e)
                 ELSE SetEdgeWeight(linked, n0, e, w01 - half)
    IN  IF G.exited THEN G
        ELSE IF n0 = n1 THEN Name(NewEdgeOrder(new, n0, v, mincut), v, c.cont)
        ELSE IF e = 0 THEN Checked(G, FALSE)
        ELSE Name(split, v, c.cont)

ReInsertCycles(G, edges, mincut) ==
    FoldLeft(LAMBDA H, c : ReInsertCycle(H, c, mincut), G, Reverse(edges))

ReInsertVertices(G, edges, mincut) ==
    FoldLeft(LAMBDA H, c : IF H.exited THEN H ELSE ReInsert(H, c.near, c.cont, mincut),
             G, Reverse(edges))

-----------------------------------------------------------------------------
\* Merging two cacti

\* The cycle edge of an empty vertex that closes the cycle of edge e: its end is
\* reached without passing the vertex.
RECURSIVE Beyond(_, _, _)
Beyond(G, v, S) ==
    LET more == S \cup UNION {{G.vs[u][i].to : i \in DOMAIN G.vs[u]} \ {v} : u \in S}
    IN  IF more = S THEN S ELSE Beyond(G, v, more)

RECURSIVE CyclePairs(_, _, _)
CyclePairs(G, v, cycle) ==
    LET beyond == Beyond(G, v, {cycle[1].to})
        k == SelectInSeq(Tail(cycle), LAMBDA e : e.to \in beyond) + 1
    IN  IF Len(cycle) < 2 \/ k = 1 THEN <<>>
        ELSE << <<cycle[1].to, cycle[k].to>> >> \o CyclePairs(G, v, Tail(RemoveAt(cycle, k)))

\* An empty vertex at which three cuts meet becomes a cycle of three.
SplitJunction(G, v, mincut) ==
    LET half == mincut \div 2
        tree == SelectSeq(G.vs[v], LAMBDA e : e.w = mincut)
        pairs == CyclePairs(G, v, SelectSeq(G.vs[v], LAMBDA e : e.w # mincut))
        node(st, p) ==
            LET H == NewEmptyNode(st.g)
            IN  [g |-> NewEdgeOrder(NewEdgeOrder(H, H.last, p[1], half), H.last, p[2], half),
                 new |-> Append(st.new, H.last)]
        made == FoldLeft(node, [g |-> G, new |-> <<>>], pairs)
        new == made.new \o [i \in DOMAIN tree |-> tree[i].to]
        link(H, a, b) == NewEdgeOrder(H, new[a], new[b], half)
    IN  IF Len(new) # 3 THEN Checked(G, FALSE)
        ELSE DeleteVertex(link(link(link(made.g, 1, 2), 1, 3), 2, 3), v)

CanonizeCactus(G, v, mincut) ==
    LET tree == SelectInSeq(G.vs[v], LAMBDA e : e.w = mincut)
    IN  IF G.deg[v] % mincut # 0 THEN Checked(G, FALSE)
        ELSE IF G.deg[v] \div mincut = 2 /\ tree # 0 THEN ContractEdge(G, v, tree)
        ELSE IF G.deg[v] \div mincut = 3 THEN SplitJunction(G, v, mincut)
        ELSE G

\* Empty vertices that represent nothing are not there.
IsCNCR(G, mincut) ==
    \A v \in DOMAIN G.vs :
        IsEmpty(G, v) =>
            /\ G.deg[v] % mincut = 0
            /\ G.deg[v] \div mincut # 3
            /\ G.deg[v] \div mincut = 2 => Len(G.vs[v]) >= 4

\* Mutant: the vertex that is merged keeps what it contained.
MergeGraphs_KeepsNames(G1, v1, G2, v2, mincut) ==
    LET k == Len(G1.vs)
        id(v) == IF v = v2 THEN v1 ELSE IF v > v2 THEN v + k - 1 ELSE v + k
        add(H, i) ==
            IF i = v2 THEN H
            ELSE LET new == NewEmptyNode(H) IN Name(new, new.last, G2.cont[i])
        link(H, n) ==
            FoldLeft(LAMBDA I, e : IF e.to = v2 THEN I ELSE NewEdge(I, id(n), id(e.to), e.w),
                     H, G2.vs[n])
        linked == FoldLeftDomain(link, FoldLeftDomain(add, G1, G2.vs), G2.vs)
    IN  IF Len(G2.vs) = 1 THEN G1 ELSE IF Len(G1.vs) = 1 THEN G2 ELSE linked

\* Vertex v1 of one cactus stands for the rest of the other, in which v2 stands
\* for the rest of the first; what both contain stays at v1.
MergeGraphs(G1, v1, G2, v2, mincut) ==
    LET k == Len(G1.vs)
        id(v) == IF v = v2 THEN v1 ELSE IF v > v2 THEN v + k - 1 ELSE v + k
        add(H, i) ==
            IF i = v2
            THEN [H EXCEPT !.cont[v1] = @ \cup {x \in G2.cont[i] : H.pos[x] = v1}]
            ELSE LET new == NewEmptyNode(H) IN Name(new, new.last, G2.cont[i])
        link(H, n) ==
            FoldLeft(LAMBDA I, e : IF e.to = v2 THEN I ELSE NewEdge(I, id(n), id(e.to), e.w),
                     H, G2.vs[n])
        added == FoldLeftDomain(add, [G1 EXCEPT !.cont[v1] = {}], G2.vs)
        linked == FoldLeftDomain(link, added, G2.vs)
    IN  IF G1.exited \/ (~G2.exited /\ Len(G2.vs) = 1) THEN G1
        ELSE IF G2.exited \/ Len(G1.vs) = 1 THEN G2
        ELSE IF IsEmpty(linked, v1) THEN CanonizeCactus(linked, v1, mincut)
        ELSE linked
=============================================================================

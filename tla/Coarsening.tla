------------------------------ MODULE Coarsening ------------------------------
(***************************************************************************)
(* Merging the sets of a union-find structure into the vertices of a       *)
(* smaller graph (coarsening/contract_graph.h) and following a cut and the *)
(* location of every vertex through the sequence of smaller graphs         *)
(* (algorithms/global_mincut/minimum_cut_helpers.h).  A level is a graph   *)
(* with the partition index that its vertices have in the next one.        *)
(***************************************************************************)
EXTENDS ContractionTests

\* The sets in the order of their first vertices, and the place of a vertex in it.
Reps(uf) == Ascending(Range(uf))
Block(uf, v) == Cardinality({r \in Range(uf) : r <= uf[v]})

WeightBetween(G, A, B) ==
    SumFunction([p \in UNION {{<<v, i>> : i \in DOMAIN G.vs[v]} : v \in A} |->
                    LET e == G.vs[p[1]][p[2]] IN IF e.to \in B THEN e.w ELSE 0])

\* contractVertexSet, which skips indices behind the last vertex.
ContractSet(G, S0) ==
    LET S == S0 \cap DOMAIN G.vs
    IN  IF Cardinality(S) <= 1 THEN G
        ELSE ContractVertexSet(G, S, Min(S), Ascending(S \ {Min(S)}))

\* reverse_mapping: the members of each set.
Blocks(uf) == [p \in DOMAIN Reps(uf) |-> {v \in DOMAIN uf : uf[v] = Reps(uf)[p]}]

\* Each set is contracted where the first names of its members are now.
ContractGraphVertexset(G, blocks, copy) ==
    LET name(v) == Min(G.cont[v])
        contract(H, S) == ContractSet(H, {H.pos[name(v)] : v \in S})
        H == FoldLeft(contract, G, blocks)
        names == {name(v) : v \in DOMAIN G.vs}
    IN  [g |-> IF copy THEN ResetContained(H) ELSE H,
         part |-> [v \in DOMAIN G.vs |->
                      IF copy /\ v \in names THEN H.pos[v]
                      ELSE CHOOSE p \in DOMAIN blocks : v \in blocks[p]]]

\* A new graph, to which each set adds its edges to later sets.
SparseGraph(G, blocks) ==
    LET joined(p, q) == \E v \in blocks[p] : \E i \in DOMAIN G.vs[v] :
                            G.vs[v][i].to \in blocks[q] /\ G.vs[v][i].w # 0
        add(H, p) ==
            FoldLeft(LAMBDA I, q : NewEdge(I, p, q, WeightBetween(G, blocks[p], blocks[q])),
                     H, Ascending({q \in p + 1 .. Len(blocks) : joined(p, q)}))
    IN  FoldLeftDomain(add, Empty(Len(blocks)), blocks)

\* The partition index is the number of the set that the union-find has for it.
ContractGraphSparse(G, blocks, uf) ==
    [g |-> SparseGraph(G, blocks), part |-> [v \in DOMAIN uf |-> Block(uf, v)]]

\* contractGraph of the mutable graph
ContractGraph(G, blocks, uf, copy) ==
    IF Len(blocks) * 2 > Len(G.vs) \/ ~copy THEN ContractGraphVertexset(G, blocks, copy)
    ELSE ContractGraphSparse(G, blocks, uf)

FromUnionFind(G, uf, copy) ==
    IF NumSets(uf) = Len(G.vs) /\ ~copy THEN [g |-> G, part |-> [v \in DOMAIN uf |-> v]]
    ELSE ContractGraph(G, Blocks(uf), uf, copy)

-----------------------------------------------------------------------------
\* Levels

Level(G) == [g |-> G, part |-> [v \in DOMAIN G.vs |-> v]]

\* A contraction of the last graph is appended.
Coarser(levels, c) ==
    Append([levels EXCEPT ![Len(levels)].part = c.part], Level(c.g))

MinDegree(G) == Min(Range(G.deg))
MinimumIndex(G) == SelectInSeq(G.deg, LAMBDA d : d = MinDegree(G))

\* The vertex of the last graph that v is in.
CoarseID(levels, v) == FoldLeft(LAMBDA x, l : l.part[x], v, Front(levels))

\* updateCut: what the cut weighs if the last graph has a lighter vertex.
UpdateCut(levels, mincut) ==
    LET G == Last(levels).g
    IN  IF Len(G.vs) > 1 THEN Min({mincut, MinDegree(G)}) ELSE mincut

\* Mutant: the vertices of the first graph are looked up in the last one.
UpdateInCut_Unmapped(levels, mincut, inCut) ==
    LET G == Last(levels).g
    IN  IF Len(G.vs) > 1 /\ MinDegree(G) < mincut THEN {MinimumIndex(G)} ELSE inCut

\* node_in_cut of the first graph
UpdateInCut(levels, mincut, inCut) ==
    LET G == Last(levels).g
    IN  IF Len(G.vs) > 1 /\ MinDegree(G) < mincut
        THEN {v \in DOMAIN levels[1].g.vs : CoarseID(levels, v) = MinimumIndex(G)}
        ELSE inCut

-----------------------------------------------------------------------------
\* What a cut is

CutWeight(G, S) == WeightBetween(G, S, DOMAIN G.vs \ S)
Sides(G) == SUBSET (DOMAIN G.vs) \ {{}, DOMAIN G.vs}
MinimumCut(G) == Min({CutWeight(G, S) : S \in Sides(G)})
AllMinimumCuts(G) ==
    LET least == MinimumCut(G) IN {S \in Sides(G) : CutWeight(G, S) = least}
=============================================================================

--------------------------- MODULE RecursiveCactus ---------------------------
(***************************************************************************)
(* The recursion that builds the cactus of all minimum cuts of a connected *)
(* graph (algorithms/global_mincut/cactus/recursive_cactus.h).  A graph is *)
(* reduced; a maximum flow between two neighbors either is larger than     *)
(* mincut, and they are merged, or shows all minimum cuts between them,    *)
(* which split the graph into components for the recursion.  The calls     *)
(* under way are a stack; an operator makes one step of the last of them,  *)
(* a random vertex start is its argument.                                  *)
(***************************************************************************)
EXTENDS CactusGraphs

-----------------------------------------------------------------------------
\* The cactus of the minimum cuts between two vertices

\* node_bucket_pq: v moves to another bucket, where it is the last; the hole is
\* filled with the last of its old bucket.
ChangeKey(pq, v, k) ==
    LET old == pq.bucket[pq.key[v]]
        i == SelectInSeq(old, LAMBDA u : u = v)
        without == Front([old EXCEPT ![i] = Last(old)])
    IN  [key |-> [pq.key EXCEPT ![v] = k],
         bucket |-> [[pq.bucket EXCEPT ![pq.key[v]] = without] EXCEPT ![k] = Append(@, v)]]

MaxKey(pq) == Max({k \in DOMAIN pq.bucket : pq.bucket[k] # <<>>})

\* The components by how strongly they are connected to those before, from s.
RECURSIVE STOrder(_, _, _, _)
STOrder(W, order, pq, mincut) ==
    LET k == MaxKey(pq)
        next == Last(pq.bucket[k])
        popped == [pq EXCEPT !.bucket[k] = Front(@)]
        queued(q, c) == \E j \in DOMAIN q.bucket : \E i \in DOMAIN q.bucket[j] : q.bucket[j][i] = c
        increase(q, c) ==
            IF c # next /\ queued(q, c) THEN ChangeKey(q, c, Min({q.key[c] + W[next][c], mincut}))
            ELSE q
    IN  IF Len(order) = Len(W) THEN order
        ELSE STOrder(W, Append(order, next), FoldLeftDomain(increase, popped, W), mincut)

OrderFrom(W, s, mincut) ==
    LET others == SelectSeq([c \in DOMAIN W |-> c], LAMBDA c : c # s)
        start == [key |-> Sequence(Len(W), LAMBDA c : 0),
                  bucket |-> [k \in 0 .. mincut + 1 |-> IF k = 0 THEN others ELSE <<>>]]
        first == FoldLeft(LAMBDA q, c : ChangeKey(q, c, W[s][c]), start, others)
    IN  STOrder(W, <<s>>, first, mincut)

\* The vertices i .. j of the order have cut weight mincut, whatever the j from i
\* to the result: a chain.  The last vertex is in none.
RECURSIVE ChainEnd(_, _, _, _, _)
ChainEnd(W, order, i, j, mincut) ==
    LET S == {order[k] : k \in i .. j}
        weight == MapThenSumSet(LAMBDA a : MapThenSumSet(LAMBDA b : W[a][b], DOMAIN W \ S), S)
    IN  IF j < Len(order) /\ weight = mincut
        THEN ChainEnd(W, order, i, j + 1, mincut) ELSE j - 1

\* The chains and the vertices between them: <<first, last>> of a chain, or
\* <<i>>.
RECURSIVE Items(_, _, _, _)
Items(W, order, i, mincut) ==
    LET j == ChainEnd(W, order, i, i, mincut)
    IN  IF i >= Len(order) THEN << <<Len(order)>> >>
        ELSE IF j < i THEN << <<i>> >> \o Items(W, order, i + 1, mincut)
        ELSE << <<i, j>> >> \o Items(W, order, j + 1, mincut)

\* Mutant: two chains that follow each other share no empty vertex.
CactusEdges_NoJoint(G, items, mincut) ==
    LET half == mincut \div 2
        step(st, k) ==
            LET it == items[k]
                next == items[k + 1][1]
                closed == FoldLeft(LAMBDA I, i : NewEdgeOrder(I, IF i = it[1] THEN st.prev ELSE i - 1,
                                                              i, half),
                                   st.g, [i \in 1 .. it[2] - it[1] + 1 |-> it[1] + i - 1])
            IN  IF Len(it) = 2
                THEN [g |-> NewEdgeOrder(NewEdgeOrder(closed, it[2], next, half),
                                         st.prev, next, half), prev |-> next]
                ELSE [g |-> IF Len(items[k + 1]) = 2 THEN st.g
                            ELSE NewEdgeOrder(st.g, it[1], next, mincut), prev |-> it[1]]
    IN  FoldLeft(step, [g |-> G, prev |-> 1], [k \in 1 .. Len(items) - 1 |-> k]).g

\* A chain is a cycle through the vertex before it and the one after it, which
\* is a new empty one between two chains; other neighbors in the order are
\* joined by a tree edge.
CactusEdges(G, items, mincut) ==
    LET half == mincut \div 2
        chain(H, prev, it) ==
            FoldLeft(LAMBDA I, i : NewEdgeOrder(I, IF i = it[1] THEN prev ELSE i - 1, i, half),
                     H, [i \in 1 .. it[2] - it[1] + 1 |-> it[1] + i - 1])
        step(st, k) ==
            LET it == items[k]
                joint == Len(items[k + 1]) = 2
                made == IF joint THEN NewEmptyNode(st.g) ELSE st.g
                next == IF joint THEN made.last ELSE items[k + 1][1]
                closed == NewEdgeOrder(NewEdgeOrder(chain(made, st.prev, it), it[2], next, half),
                                       st.prev, next, half)
            IN  IF Len(it) = 2 THEN [g |-> closed, prev |-> next]
                ELSE [g |-> IF joint THEN st.g ELSE NewEdgeOrder(st.g, it[1], next, mincut),
                      prev |-> it[1]]
    IN  FoldLeft(step, [g |-> G, prev |-> 1], [k \in 1 .. Len(items) - 1 |-> k]).g

\* Components are contracted into a complete graph W; each name goes to the
\* component where its position is, if that is a vertex.
FindSTCactus(G, scc, s, mincut) ==
    LET C == 1 .. scc.num_comp
        names(c) == {x \in DOMAIN G.pos :
                        G.pos[x] \in DOMAIN G.vs /\ scc.comp[G.pos[x]] = c}
        members(c) == {v \in DOMAIN G.vs : scc.comp[v] = c}
        W == [c \in C |-> [d \in C |->
                 IF c = d THEN 0 ELSE WeightBetween(G, members(c), members(d))]]
        order == OrderFrom(W, scc.comp[G.pos[FirstName(G, s)]], mincut)
        blank == [Empty(scc.num_comp) EXCEPT
                     !.cont = Sequence(scc.num_comp, LAMBDA i : {}),
                     !.pos = Sequence(Len(G.pos), LAMBDA x : IF x \in C THEN x ELSE 1)]
        filled == FoldLeftDomain(LAMBDA H, i : Name(H, i, names(order[i])), blank, order)
        items == << <<1>> >> \o Items(W, order, 2, mincut)
    IN  CactusEdges(filled, items, mincut)

-----------------------------------------------------------------------------
\* The edge for the flow

\* The nonempty vertex with the largest degree, the first of them, and its
\* neighbor with the largest degree.
LargestBy(degrees, vs) ==
    FoldLeft(LAMBDA best, v : IF degrees[v] > (IF best = 0 THEN 0 ELSE degrees[best]) THEN v ELSE best,
             0, vs)

\* findFlowEdge from a vertex: the first one with an edge between nonempty ones.
FindFlowEdge(G, start) ==
    LET n == Len(G.vs)
        full(v) == ~IsEmpty(G, v)
        edge(v) == SelectInSeq(G.vs[v], LAMBDA e : full(e.to))
        around == [i \in 1 .. n |-> ((start + i - 2) % n) + 1]
        s == around[SelectInSeq(around, LAMBDA v : full(v) /\ edge(v) # 0)]
    IN  <<s, edge(s)>>

MaximumEdge(G, degrees, start) ==
    LET full == SelectSeq([v \in DOMAIN G.vs |-> v], LAMBDA v : ~IsEmpty(G, v))
        s == LargestBy(degrees, full)
        ends == SelectSeq([i \in DOMAIN G.vs[s] |-> G.vs[s][i].to], LAMBDA t : ~IsEmpty(G, t))
        t == LargestBy(degrees, ends)
    IN  IF t = 0 THEN FindFlowEdge(G, start) ELSE <<s, EdgeTo(G, s, t)>>

\* bfsDistances: the layers from a vertex, in the order in which they are found.
RECURSIVE BfsOrder(_, _)
BfsOrder(G, st) ==
    IF st.q = <<>> THEN st
    ELSE LET v == Head(st.q)
             find(s, e) == IF e.to \in DOMAIN s.parent THEN s
                           ELSE [q |-> Append(s.q, e.to), last |-> e.to,
                                 parent |-> (e.to :> v) @@ s.parent,
                                 distance |-> (e.to :> s.distance[v] + 1) @@ s.distance]
         IN  BfsOrder(G, FoldLeft(find, [st EXCEPT !.q = Tail(@)], G.vs[v]))

BfsDistances(G, v) ==
    BfsOrder(G, [q |-> <<v>>, last |-> v, parent |-> v :> 0, distance |-> v :> 0])

\* An edge in the middle of a longest way.
CentralFlowEdge(G, start) ==
    LET bfs == BfsDistances(G, BfsDistances(G, start).last)
        far == bfs.distance[bfs.last]
        up[d \in 0 .. far] == IF d = far THEN bfs.last ELSE bfs.parent[up[d + 1]]
        v == up[(far + 1) \div 2]
    IN  <<v, EdgeTo(G, v, bfs.parent[v])>>

FlowEdge(G, es, start) ==
    CASE es = "heavy" -> MaximumEdge(G, [v \in DOMAIN G.vs |-> Len(G.vs[v])], start)
      [] es = "heavy_weighted" -> MaximumEdge(G, G.deg, start)
      [] es = "central" -> CentralFlowEdge(G, start)
      [] es = "random" -> FindFlowEdge(G, start)

-----------------------------------------------------------------------------
\* The recursion, as a stack of calls

\* A call of recursiveCactus: its graph, which becomes its cactus, what was taken
\* out of it, and where it is.
Call(G, depth) == [pc |-> "enter", g |-> G, depth |-> depth, heavy |-> <<>>, cycles |-> <<>>,
                   cactus |-> Empty(0), comp |-> <<>>, todo |-> <<>>, near |-> 0, hang |-> {}]

Top(stack) == Last(stack)
Update(stack, f) == Append(Front(stack), f)
Push(stack, f, G) == Append(Update(stack, f), Call(G, f.depth + 1))

TakeOut(f, mincut) ==
    LET heavy == RemoveHeavyEdges(f.g, mincut)
        cycles == ContractCycleEdges(heavy.g, mincut)
    IN  [f EXCEPT !.g = cycles.g, !.heavy = heavy.edges, !.cycles = cycles.edges,
                  !.pc = IF f.depth % 10 = 0 THEN "reduce" ELSE "flow"]

\* The reductions of every tenth level, again until they change nothing.
ReduceTriangles(f, G, mincut) ==
    LET H == FromUnionFind(G, AllCutsPrTests34(G, mincut), FALSE).g
    IN  [f EXCEPT !.g = H, !.pc = IF Len(H.vs) < Len(f.g.vs) THEN "reduce" ELSE "flow"]

ReduceEdges(f, G, mincut) ==
    ReduceTriangles(f, FromUnionFind(G, AllCutsPrTests12(G, mincut), FALSE).g, mincut)

Reduce(f, mincut, start) ==
    ReduceEdges(f, FromUnionFind(f.g, Capforest(f.g, mincut + 1, start), FALSE).g, mincut)

\* What the graph is without an end of the edge that is a minimum cut; the other
\* end takes its place and the end is hung on it later.
Hang(stack, f, s, e, mincut) ==
    LET G == f.g
        t == G.vs[s][e].to
        ctr == IF G.deg[s] = mincut THEN s ELSE t
        other == IF ctr = s THEN t ELSE s
        contracted == ContractEdge(G, s, e)
        rest == Name(contracted, contracted.pos[FirstName(G, ctr)], G.cont[other])
    IN  Push(stack, [f EXCEPT !.pc = "hang", !.near = FirstName(G, other), !.hang = G.cont[ctr]],
             Checked(rest, IsCNCR(rest, mincut)))

\* Small components first.
Split(stack, f, scc, s, mincut) ==
    LET size(c) == Cardinality({v \in DOMAIN f.g.vs : scc.comp[v] = c})
        comps == [c \in 1 .. scc.num_comp |-> c]
        small(c) == 2 * size(c) <= Len(f.g.vs)
        order == SelectSeq(comps, small) \o SelectSeq(comps, LAMBDA c : ~small(c))
    IN  Update(stack, [f EXCEPT !.pc = "split", !.cactus = FindSTCactus(f.g, scc, s, mincut),
                                !.comp = scc.comp, !.todo = order])

SplitByFlow(stack, f, flow, scc, s, e, mincut) ==
    IF flow.flow > mincut
    THEN Push(stack, [f EXCEPT !.pc = "merged"], ContractEdge(f.g, s, e))
    ELSE IF Len(f.g.vs) = 2 THEN Update(stack, [f EXCEPT !.pc = "return"])
    ELSE IF scc.num_comp = 2 /\ mincut \in {f.g.deg[s], f.g.deg[f.g.vs[s][e].to]}
    THEN Hang(stack, f, s, e, mincut)
    ELSE Split(stack, f, scc, s, mincut)

FlowBetween(stack, f, s, e, mincut) ==
    LET flow == MaxFlow(f.g, s, f.g.vs[s][e].to)
    IN  SplitByFlow(stack, f, flow, StrongComps(f.g, flow.cap), s, e, mincut)

FlowOnEdge(stack, f, edge, mincut) == FlowBetween(stack, f, edge[1], edge[2], mincut)

Flow(stack, f, mincut, es, start) ==
    IF f.g.exited \/ Len(f.g.vs) = 1 \/ f.g.m = 0
    THEN Update(stack, [f EXCEPT !.pc = "return"])
    ELSE IF ~IsCNCR(f.g, mincut)
    THEN Update(stack, [f EXCEPT !.pc = "return", !.g = Checked(f.g, FALSE)])
    ELSE FlowOnEdge(stack, f, FlowEdge(f.g, es, start), mincut)

\* A component with the rest of the graph as its last vertex; at most half of
\* the vertices are copied, more are what is left when the rest is contracted.
Component(G, comp, c) ==
    LET inside == SelectSeq([v \in DOMAIN G.vs |-> v], LAMBDA v : comp[v] = c)
        size == Len(inside)
        rest == DOMAIN G.vs \ Range(inside)
        id(v) == IF v \in rest THEN size + 1 ELSE SelectInSeq(inside, LAMBDA u : u = v)
        ends == [i \in 1 .. size + 1 |-> IF i > size THEN rest ELSE {inside[i]}]
        blank == [Empty(size + 1) EXCEPT
                     !.pos = Sequence(Len(G.pos), LAMBDA x : IF x <= size + 1 THEN x ELSE 1)]
        named == FoldLeftDomain(LAMBDA H, i : Name(H, i, UNION {G.cont[v] : v \in ends[i]}),
                                blank, ends)
        toRest(i) == WeightBetween(G, {inside[i]}, rest)
        link(H, i) ==
            LET inner == FoldLeft(LAMBDA I, e : IF e.to \in rest THEN I
                                                ELSE NewEdge(I, i, id(e.to), e.w),
                                  H, G.vs[inside[i]])
            IN  IF toRest(i) > 0 THEN NewEdge(inner, i, size + 1, toRest(i)) ELSE inner
    IN  IF 2 * size <= Len(G.vs) THEN FoldLeftDomain(link, named, inside)
        ELSE ContractSet(G, rest)

Descend(stack, f) == Append(stack, Call(Component(f.g, f.comp, Head(f.todo)), f.depth + 1))

\* What was taken out of the graph is put back.
Built(f, mincut) ==
    ReInsertVertices(ReInsertCycles(f.g, f.cycles, mincut), f.heavy, mincut)

\* mergeCactusWithComponent
MergeComponent(f, built, mincut) ==
    LET inside == {v \in DOMAIN f.g.vs : f.comp[v] = Head(f.todo)}
        firstIn(V) == FirstName(f.g, Min({v \in V : ~IsEmpty(f.g, v)}))
        merged == MergeGraphs(f.cactus, f.cactus.pos[firstIn(inside)],
                              built, built.pos[firstIn(DOMAIN f.g.vs \ inside)], mincut)
        checked == Checked(merged, IsCNCR(merged, mincut))
    IN  IF Len(f.todo) = 1 THEN [f EXCEPT !.g = checked, !.pc = "return"]
        ELSE [f EXCEPT !.cactus = checked, !.todo = Tail(@)]

\* The caller goes on with the cactus of a call.
Resume(f, built, mincut) ==
    CASE built.exited \/ f.pc = "merged" -> [f EXCEPT !.g = built, !.pc = "return"]
      [] ~built.exited /\ f.pc = "hang" ->
            [f EXCEPT !.g = ReInsert(built, f.near, f.hang, mincut), !.pc = "return"]
      [] ~built.exited /\ f.pc = "split" -> MergeComponent(f, built, mincut)

Return(stack, built, mincut) ==
    Update(Front(stack), Resume(Top(Front(stack)), built, mincut))

\* decrementalRebuild: all minimum cuts are between s and t, and the flow between
\* them is known.
DecrementalRebuild(G, s, flow) ==
    FindSTCactus(G, StrongComps(G, flow.cap), s, flow.flow)
=============================================================================

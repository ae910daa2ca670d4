--------------------------- MODULE StrongComponents ---------------------------
(***************************************************************************)
(* The strongly connected components of what a maximum flow leaves of a    *)
(* graph (algorithms/misc/strongly_connected_components.h): a depth-first  *)
(* search with a stack of unfinished vertices and a stack of the roots of  *)
(* tentative components.  The flow itself is that of push_relabel, here    *)
(* found by augmenting paths.                                              *)
(***************************************************************************)
EXTENDS AdjacencyArrays

\* The capacities of the arcs.
Capacities(G) ==
    [u \in DOMAIN G.vs |-> [v \in DOMAIN G.vs |->
        LET i == SelectInSeq(G.vs[u], LAMBDA e : e.to = v)
        IN  IF i = 0 THEN 0 ELSE G.vs[u][i].w]]

\* A path with room left that extends p to t, or the empty sequence.
RECURSIVE Walk(_, _, _)
Walk(cap, p, t) ==
    IF Last(p) = t THEN p
    ELSE LET next == {v \in DOMAIN cap : cap[Last(p)][v] > 0 /\ \A i \in DOMAIN p : p[i] # v}
         IN  FoldLeft(LAMBDA found, v : IF found # <<>> THEN found ELSE Walk(cap, Append(p, v), t),
                      <<>>, Ascending(next))

\* What is left of the capacities, and the value of the flow.
RECURSIVE Augment(_, _, _, _)
Augment(cap, s, t, flow) ==
    LET p == Walk(cap, <<s>>, t)
        room == Min({cap[p[i]][p[i + 1]] : i \in 1 .. Len(p) - 1})
        along(u, v) == \E i \in 1 .. Len(p) - 1 : p[i] = u /\ p[i + 1] = v
    IN  IF p = <<>> THEN [cap |-> cap, flow |-> flow]
        ELSE Augment([u \in DOMAIN cap |-> [v \in DOMAIN cap |->
                         cap[u][v] + (IF along(v, u) THEN room ELSE 0)
                                   - (IF along(u, v) THEN room ELSE 0)]], s, t, flow + room)

MaxFlow(G, s, t) == Augment(Capacities(G), s, t, 0)

-----------------------------------------------------------------------------
\* The search

\* An unfinished vertex is reached again: the components in between are one.
Merge(st, t) ==
    [st EXCEPT !.roots = SelectSeq(@, LAMBDA r : st.num[r] <= st.num[t])]

\* The vertices above v on the stack of unfinished ones are a component.
Finish(st, v) ==
    LET at == SelectInSeq(st.unfinished, LAMBDA u : u = v)
        members == Range(SubSeq(st.unfinished, at, Len(st.unfinished)))
    IN  [st EXCEPT !.comp = [u \in DOMAIN @ |-> IF u \in members THEN st.count ELSE @[u]],
                   !.count = @ + 1,
                   !.unfinished = SubSeq(@, 1, at - 1), !.roots = Front(@)]

RECURSIVE Visit(_, _, _)
Visit(arcs, st, v) ==
    LET entered == [st EXCEPT !.num[v] = st.dfscount, !.dfscount = @ + 1,
                              !.unfinished = Append(@, v), !.roots = Append(@, v)]
        explore(s, t) ==
            IF s.num[t] = 0 THEN Visit(arcs, s, t)
            ELSE IF s.comp[t] = 0 THEN Merge(s, t) ELSE s
        left == FoldLeft(explore, entered, arcs[v])
    IN  IF Last(left.roots) = v THEN Finish(left, v) ELSE left

\* explicit_scc_dfs from each vertex: the components are numbered as they end.
StrongComps(G, cap) ==
    LET none == Sequence(Len(G.vs), LAMBDA v : 0)
        targets(v) == [i \in DOMAIN G.vs[v] |-> G.vs[v][i].to]
        arcs == [v \in DOMAIN G.vs |-> SelectSeq(targets(v), LAMBDA t : cap[v][t] # 0)]
        st == FoldLeftDomain(LAMBDA s, v : IF s.num[v] = 0 THEN Visit(arcs, s, v) ELSE s,
                             [num |-> none, comp |-> none, dfscount |-> 1, count |-> 1,
                              unfinished |-> <<>>, roots |-> <<>>], G.vs)
    IN  [comp |-> st.comp, num_comp |-> st.count - 1]
=============================================================================

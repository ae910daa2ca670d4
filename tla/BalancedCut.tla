------------------------------ MODULE BalancedCut ------------------------------
(***************************************************************************)
(* The most balanced minimum cut of a cactus: a depth-first search with    *)
(* the weight of every subtree (cactus/balanced_cut_dfs.h) looks at the    *)
(* tree edges and, when it is back where a cycle begins, at all arcs of    *)
(* the cycle that can be best; one side of the cut is then marked          *)
(* (cactus/most_balanced_minimum_cut.h).  A search d has the cactus g, the *)
(* weights of its vertices and of all together, mincut and start_vertex;   *)
(* a cut is given by the vertices n1, n2 at which its side ends and the    *)
(* vertices r1, r2 behind its edges.                                       *)
(***************************************************************************)
EXTENDS Coarsening

LighterBlock(d, w) == Min({w, d.total - w})

\* The arc of a cycle from index back to index front - 1 loses a vertex at the
\* back if it weighs half of all or more, and gets one at the front otherwise.
RECURSIVE Rotate(_, _, _, _, _)
Rotate(d, c, w, arc, best) ==
    LET len == Len(c)
        at(seq, k) == seq[(k % len) + 1]
        light == LighterBlock(d, arc.weight)
        found == [weight |-> light, n1 |-> at(c, arc.front - 1), r1 |-> at(c, arc.front),
                  n2 |-> at(c, arc.back), r2 |-> at(c, arc.back - 1)]
        next == IF 2 * arc.weight >= d.total
                THEN [arc EXCEPT !.weight = @ - at(w, arc.back), !.back = @ + 1]
                ELSE [arc EXCEPT !.weight = @ + at(w, arc.front), !.front = @ + 1]
    IN  IF arc.back > 2 * len THEN best
        ELSE Rotate(d, c, w, next, IF light >= best.weight THEN found ELSE best)

RECURSIVE PathUp(_, _, _)
PathUp(parent, v, start) ==
    IF v = start THEN <<v>> ELSE <<v>> \o PathUp(parent, parent[v], start)

\* Mutant: what hangs above start, or on it elsewhere, is not counted.
InvestigateCycle_StartAlone(d, st, t, start) ==
    LET c == PathUp(st.parent, t, start)
        w == [k \in DOMAIN c |-> IF c[k] = start THEN d.weight[start] ELSE
                                 st.subtree[c[k]] - (IF k = 1 THEN 0 ELSE st.subtree[c[k - 1]])]
    IN  [st EXCEPT !.best = Rotate(d, c, w, [back |-> Len(c), front |-> 1, weight |-> w[1]], @)]

\* A cycle hangs at start and ends with the vertex t.
InvestigateCycle(d, st, t, start) ==
    LET c == PathUp(st.parent, t, start)
        len == Len(c)
        above(k) == IF k = len THEN d.total ELSE st.subtree[c[k]]
        w == [k \in 1 .. len |-> above(k) - (IF k = 1 THEN 0 ELSE st.subtree[c[k - 1]])]
    IN  [st EXCEPT !.best = Rotate(d, c, w, [back |-> len, front |-> 1, weight |-> w[1]], @)]

\* An edge from n: to a new vertex, or back to one where a cycle begins.
RECURSIVE ProcessVertex(_, _, _)
ProcessVertex(d, st, n) ==
    LET leaf == Len(d.g.vs[n]) = 1 /\ n # d.start
        treeEdge(s, e) ==
            LET below == ProcessVertex(d, [s EXCEPT !.parent[e.to] = n], e.to)
                light == LighterBlock(d, below.subtree[e.to])
            IN  IF light > below.best.weight /\ e.w = d.mincut
                THEN [below EXCEPT !.best = [weight |-> light, n1 |-> n, r1 |-> e.to,
                                             n2 |-> n, r2 |-> e.to]]
                ELSE below
        visit(s, e) ==
            IF s.status[e.to] = "undiscovered" THEN treeEdge(s, e)
            ELSE IF s.status[e.to] \in {"active", "cycle"} /\ s.parent[n] # e.to
            THEN [s EXCEPT !.status[e.to] = "cycle", !.cycles[e.to] = Append(@, n)]
            ELSE s
        entered == [st EXCEPT !.status[n] = "active"]
        explored == IF leaf THEN entered ELSE FoldLeft(visit, entered, d.g.vs[n])
        closed == FoldLeft(LAMBDA s, t : InvestigateCycle(d, s, t, n),
                           explored, explored.cycles[n])
        children == {t \in DOMAIN d.g.vs : closed.parent[t] = n}
    IN  [closed EXCEPT !.subtree[n] = d.weight[n]
                                    + MapThenSumSet(LAMBDA t : closed.subtree[t], children),
                       !.status[n] = "finished"]

RunDFS(d) ==
    LET n == Len(d.g.vs)
        st == [status |-> Sequence(n, LAMBDA v : "undiscovered"),
               subtree |-> Sequence(n, LAMBDA v : 0), parent |-> Sequence(n, LAMBDA v : 0),
               cycles |-> Sequence(n, LAMBDA v : <<>>),
               best |-> [weight |-> 0, n1 |-> 1, r1 |-> 1, n2 |-> 1, r2 |-> 1]]
    IN  ProcessVertex(d, st, d.start).best

\* findCutFromCactus: what the vertices on the side of n1 and n2 contain.
RECURSIVE SideOf(_, _, _)
SideOf(G, S, closed) ==
    LET next == UNION {{G.vs[v][i].to : i \in DOMAIN G.vs[v]} : v \in S} \ closed
    IN  IF next \subseteq S THEN S ELSE SideOf(G, S \cup next, closed)

FindCutFromCactus(d) ==
    LET best == RunDFS(d)
    IN  UNION {d.g.cont[v] : v \in SideOf(d.g, {best.n1, best.n2}, {best.r1, best.r2})}
=============================================================================

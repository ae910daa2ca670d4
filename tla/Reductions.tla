------------------------------ MODULE Reductions ------------------------------
(***************************************************************************)
(* What branch and reduce does to the graph of one subproblem              *)
(* (lib/algorithms/multicut): the tests of kernelization_criteria.h, the   *)
(* flows of maximum_flow.h, the choice of a branching of edge_selection.h, *)
(* and the contractions of graph_contraction.h that they end in.           *)
(*                                                                         *)
(* A problem has g, the graph; part, the partition index of its vertices;  *)
(* map, the composition of mappings; orig, the names of its terminals in   *)
(* the input; and lower, upper and deleted.  The vector terminals is set   *)
(* anew before each use, and every flow is invalid when it is looked at,   *)
(* since multiBranch marks them all, so that both are functions of these.  *)
(***************************************************************************)
EXTENDS Coarsening

At(p, x) == p.g.pos[p.map[x]]       \* getCurrentPosition(mapped(x))
\* A difference below zero is close to 2^64, which is far above every weight.
Unsigned(x) == IF x < 0 THEN 1000000 + x ELSE x

Neighbors(G, v) == {e.to : e \in Range(G.vs[v])}
NameOf(G, v) == Min(G.cont[v])            \* any of containedVertices(v)

\* setTerminals: the terminals that still have edges.
Terminals(p) ==
    LET all == [i \in DOMAIN p.orig |-> [pos |-> At(p, p.orig[i]), id |-> i]]
    IN  SelectSeq(all, LAMBDA t : p.g.vs[t.pos] # <<>>)
TerminalSet(p) == {t.pos : t \in Range(Terminals(p))}
TermDegree(p, id) == p.g.deg[At(p, p.orig[id])]

-----------------------------------------------------------------------------
(* graph_contraction.h, and contractions with the partition index            *)

\* Edges between terminals are in every cut: deleteTermEdges takes those of each
\* terminal from the last one.
DeleteTermEdges(p) ==
    LET ts == TerminalSet(p)
        drop(t, q, i) ==
            LET e == q.g.vs[t][i]
            IN  IF e.to \in ts THEN [q EXCEPT !.g = DeleteEdge(@, t, i), !.deleted = @ + e.w] ELSE q
        dropAll(q, t) == FoldLeft(LAMBDA r, i : drop(t.pos, r, i), q,
                                  Reverse(Sequence(Len(q.g.vs[t.pos]), LAMBDA i : i)))
    IN  FoldLeft(dropAll, p, Terminals(p))

\* A removed index is taken by the last one.
DropAt(s, v) == Front([s EXCEPT ![v] = Last(s)])

\* contractVertexSet: the smallest vertex stays, and keeps its partition index.
MergeVertices(p, S0) ==
    LET S == S0 \cap DOMAIN p.g.vs
    IN  IF Cardinality(S) <= 1 THEN p
        ELSE [p EXCEPT !.g = ContractSet(@, S),
                       !.part = FoldLeft(DropAt, @, Reverse(Ascending(S \ {Min(S)})))]

\* Each set of names is merged where they are now, if there is more than one.
MergeNames(p, names) ==
    IF Cardinality(names) > 1 THEN MergeVertices(p, {p.g.pos[x] : x \in names}) ELSE p

\* A merged vertex and what is next to it will be looked at in the next round.
Activate(p, name, next) ==
    LET v == p.g.pos[name]
    IN  [p |-> p, next |-> next \cup UNION {p.g.cont[u] : u \in {v} \cup Neighbors(p.g, v)}]

\* contractIfImproved: the sets of the union-find
ContractIfImproved(p, uf, next) ==
    LET name(v) == NameOf(p.g, v)
        merge(st, B) ==
            IF Cardinality(B) = 1 THEN st
            ELSE Activate(MergeNames(st.p, {name(v) : v \in B}), name(Min(B)), st.next)
        merged == FoldLeft(merge, [p |-> p, next |-> next], Blocks(uf))
    IN  IF NumSets(uf) = Len(uf) THEN [p |-> p, next |-> next]
        ELSE [merged EXCEPT !.p = DeleteTermEdges(@)]

-----------------------------------------------------------------------------
(* kernelization_criteria.h                                                  *)

\* The heavier of two edges of v, the first one if they are equal.
Stronger(G, v, i, j) == IF G.vs[v][i].w >= G.vs[v][j].w THEN G.vs[v][i].to ELSE G.vs[v][j].to

\* A leaf joins its neighbor, which may become a vertex with two edges by that
\* and joins the heavier neighbor, as a vertex with two edges does.
LowDegreeContraction(p) ==
    LET G == p.g
        leaf(uf, v) ==
            LET e == G.vs[v][1]
                others == Ascending(DOMAIN G.vs[e.to] \ {e.rev})
                joined == Union(uf, v, e.to)
            IN  IF Len(others) = 2
                THEN Union(joined, e.to, Stronger(G, e.to, others[1], others[2])) ELSE joined
        look(uf, v) ==
            IF v \in TerminalSet(p) THEN uf
            ELSE IF Len(G.vs[v]) = 1 THEN leaf(uf, v)
            ELSE IF Len(G.vs[v]) = 2 THEN Union(uf, v, Stronger(G, v, 1, 2)) ELSE uf
    IN  FoldLeftDomain(look, Singletons(Len(G.vs)), G.vs)

\* Some tests ask whether a vertex is the root of its set, so here the roots and
\* ranks of union_find.h are kept.
Apart(n) == [root |-> Singletons(n), rank |-> [v \in 1 .. n |-> 0]]
Unite(u, a, b) ==
    LET x == u.root[a]
        y == u.root[b]
        below == IF u.rank[x] < u.rank[y] THEN x ELSE y
        above == IF below = x THEN y ELSE x
    IN  IF x = y THEN u
        ELSE [root |-> Sequence(Len(u.root),
                                LAMBDA v : IF u.root[v] = below THEN above ELSE u.root[v]),
              rank |-> [u.rank EXCEPT ![above] = IF u.rank[x] = u.rank[y] THEN @ + 1 ELSE @]]
Sets(u) ==
    Sequence(Len(u.root), LAMBDA v : Min({w \in DOMAIN u.root : u.root[w] = u.root[v]}))

JoinHeavy(p, active, useSecond) ==
    LET G == p.g
        looked(u, v) == NameOf(G, v) \in active /\ v \notin TerminalSet(p) /\ u.root[v] = v
        heavy(u, v) ==
            LET edges == G.vs[v]
                half == SelectInSeq(edges, LAMBDA e : 2 * e.w >= G.deg[v])
                to == {i \in DOMAIN edges : edges[i].to \in TerminalSet(p)}
                best == Min({i \in to : \A j \in to : edges[j].w <= edges[i].w})
                second == Max({0} \cup {edges[i].w : i \in to \ {best}})
                rest == SumFunction([i \in DOMAIN edges \ to |-> edges[i].w])
            IN  IF half # 0 THEN Unite(u, v, edges[half].to)
                ELSE IF to # {} /\ edges[best].w > rest + (IF useSecond THEN second ELSE 0)
                THEN Unite(u, v, edges[best].to) ELSE u
    IN  Sets(FoldLeftDomain(LAMBDA u, v : IF looked(u, v) THEN heavy(u, v) ELSE u,
                            Apart(Len(G.vs)), G.vs))

\* Mutant: the second heaviest terminal is forgotten.
HighDegreeContraction_OneTerminal(p, active) == JoinHeavy(p, active, FALSE)

\* A vertex joins the end of an edge of half its degree, or a terminal to which
\* it has more weight than to another terminal and the others that are none.
HighDegreeContraction(p, active) == JoinHeavy(p, active, TRUE)

\* Two vertices of a triangle are united if each has half of its degree in it.
InTriangle(G, u, v1, v2, v3, w12, w13, w23) ==
    LET heavy(v, w) == G.deg[v] <= 2 * w /\ u.root[v] = v
        h1 == heavy(v1, w12 + w13)
        h2 == heavy(v2, w12 + w23)
        h3 == heavy(v3, w13 + w23)
        join(c, a, b, x) == IF c THEN Unite(x, a, b) ELSE x
    IN  join(h2 /\ h3, v2, v3, join(h1 /\ h3, v1, v3, join(h1 /\ h2, v1, v2, u)))

\* Triangles v1 < v2 < v3 without terminals; v3 is marked until it was v2 itself.
TriangleDetection(p, active) ==
    LET G == p.g
        free(v) == v \notin TerminalSet(p)
        third(u, v1, i, e) ==
            LET v2 == G.vs[v1][i].to
                k == SelectInSeq(G.vs[v1], LAMBDA f : f.to = e.to)
            IN  IF e.to > v2 /\ free(e.to) /\ k > i
                THEN InTriangle(G, u, v1, v2, e.to, G.vs[v1][i].w, G.vs[v1][k].w, e.w) ELSE u
        second(u, v1, i) ==
            LET v2 == G.vs[v1][i].to
            IN  IF v2 > v1 /\ free(v2)
                THEN FoldLeft(LAMBDA x, e : third(x, v1, i, e), u, G.vs[v2]) ELSE u
        first(u, v1) ==
            LET heaviest == Max({0} \cup {e.w : e \in Range(G.vs[v1])})
            IN  IF NameOf(G, v1) \in active /\ free(v1) /\ 4 * heaviest >= G.deg[v1]
                THEN FoldLeftDomain(LAMBDA x, i : second(x, v1, i), u, G.vs[v1]) ELSE u
    IN  Sets(FoldLeftDomain(first, Apart(Len(G.vs)), G.vs))

\* What connects two vertices by less cannot be merged for the bound: all but two
\* terminals have cuts of their own, half of which every edge may be in.
NoiLimit(p, bound) ==
    LET degs == SortSeq([i \in DOMAIN Terminals(p) |-> TermDegree(p, Terminals(p)[i].id)], <)
        rest == SumFunctionOnSet(degs, 1 .. Len(degs) - 2)
    IN  Unsigned(bound - p.deleted - (rest + 3) \div 4)

-----------------------------------------------------------------------------
(* misc/find_articulation_points.h and misc/equal_neighborhood.h             *)

\* What v reaches within S.
Reached(G, S, v) ==
    FoldLeftDomain(LAMBDA R, i : R \cup (S \cap UNION {Neighbors(G, u) : u \in R}), {v}, G.vs)

\* What a depth-first search from the first vertex of the component finds below
\* v without a way back above it, and v itself.
Right(G, v) ==
    LET component == Reached(G, DOMAIN G.vs, v)
    IN  component \ Reached(G, component \ {v}, Min(component))

\* A part behind an articulation point with no terminal, or before it if all are
\* behind, joins the point.  The first vertex of a component is not looked at.
TerminalsOnBothSides(p) ==
    LET G == p.g
        points == {v \in DOMAIN G.vs :
                      v # Min(Reached(G, DOMAIN G.vs, v)) /\ Right(G, v) # {v}}
        behind(v) == {i \in DOMAIN Terminals(p) : Terminals(p)[i].pos \in Right(G, v)}
        joined(v) ==
            IF behind(v) = DOMAIN Terminals(p)
            THEN (Reached(G, DOMAIN G.vs, v) \ Right(G, v)) \cup {v}
            ELSE IF behind(v) = {} THEN Right(G, v) ELSE {}
        join(uf, v) == FoldLeft(LAMBDA u, w : Union(u, v, w), uf, Ascending(joined(v)))
    IN  FoldLeft(join, Singletons(Len(G.vs)), Ascending(points))

\* Sorted pairs of neighbors and weights.
EdgesBut(G, v, o) == {<<e.to, e.w>> : e \in {f \in Range(G.vs[v]) : f.to # o}}

\* A vertex joins the first one with the same neighbors, if the weights are equal,
\* and each neighbor that has the same neighbors but for the two.
FindEqualNeighborhoods(p, active) ==
    LET G == p.g
        free(v) == v \notin TerminalSet(p)
        looked == {v \in DOMAIN G.vs : NameOf(G, v) \in active /\ free(v) /\ G.vs[v] # <<>>}
        first(v) == Min({u \in looked : Neighbors(G, u) = Neighbors(G, v)})
        apart(uf, v) ==
            IF EdgesBut(G, v, 0) = EdgesBut(G, first(v), 0) THEN Union(uf, v, first(v)) ELSE uf
        twins(v, o) == /\ free(o) /\ Len(G.vs[v]) = Len(G.vs[o]) /\ G.deg[v] = G.deg[o]
                       /\ EdgesBut(G, v, o) = EdgesBut(G, o, v)
        next(uf, v) == FoldLeft(LAMBDA u, e : IF twins(v, e.to) THEN Union(u, v, e.to) ELSE u,
                                uf, G.vs[v])
    IN  FoldLeft(next, FoldLeft(apart, Singletons(Len(G.vs)), Ascending(looked)),
                 Ascending(looked))

-----------------------------------------------------------------------------
(* maximum_flow.h                                                            *)

\* solve_max_flow_min_cut: what the source reaches in a minimum cut, of all of
\* them together.
SourceSet(G, sinks, src) ==
    LET others == DOMAIN G.vs \ (sinks \cup {src})
        sides == {S \cup {src} : S \in SUBSET others}
        least == Min({CutWeight(G, S) : S \in sides})
    IN  UNION {Reached(G, S, src) : S \in {T \in sides : CutWeight(G, T) = least}}
FlowFrom(p, src) == SourceSet(p.g, TerminalSet(p) \ {src}, src)

\* highDistanceVertices: the terminals, then a breadth-first search.
HighDistanceVertices(p) ==
    LET ts == [i \in DOMAIN Terminals(p) |-> Terminals(p)[i].pos]
        find(order, e) == IF Contains(order, e.to) THEN order ELSE Append(order, e.to)
        visit(order, i) == IF i > Len(order) THEN order
                           ELSE FoldLeft(find, order, p.g.vs[order[i]])
    IN  FoldLeftDomain(visit, ts, ts \o p.g.vs)

\* nextInt(last * 0.9, last)
HighDistances(p) ==
    LET order == HighDistanceVertices(p)
    IN  {order[i] : i \in {j \in DOMAIN order : j > ((Len(order) - 1) * 9) \div 10}}

\* setPartitionIndex of all vertices, and of each terminal in the input's order
Labelling(p, others) ==
    LET label(part, i) == [part EXCEPT ![At(p, p.orig[i])] = i]
    IN  FoldLeftDomain(label, Sequence(Len(p.g.vs), LAMBDA v : others), p.orig)

\* contractIsolatingBlocks: a vertex goes to the first block that has it.
ContractIsolatingBlocks(p, blocks) ==
    LET large(i) == IF Cardinality(blocks[i]) > 1 THEN blocks[i] ELSE {}
        base(i) == large(i) \ UNION {large(j) : j \in 1 .. i - 1}
    IN  FoldLeftDomain(LAMBDA q, i : MergeNames(q, {NameOf(p.g, v) : v \in base(i)}), p, blocks)

\* Without the heaviest of the cuts around the terminals ts they are a solution,
\* and half of their sum is a lower bound.
FlowBounds(p, ts) ==
    LET degs == [i \in DOMAIN ts |-> TermDegree(p, ts[i].id)]
        maximum == Max({0} \cup Range(degs))
        heaviest == IF maximum = 0 THEN 1
                    ELSE ts[SelectInSeq(degs, LAMBDA d : d = maximum)].id
        sum == SumFunction(degs)
    IN  [p EXCEPT !.part = Labelling(p, heaviest), !.upper = p.deleted + sum - maximum,
                  !.lower = p.deleted + (sum + 1) \div 2]

\* Mutant: the weight of the deleted edges is not added to the upper bound.
WithBounds_Undeleted(p, ts) == [FlowBounds(p, ts) EXCEPT !.upper = @ - p.deleted]

WithBounds(p, ts) == FlowBounds(p, ts)

\* Each terminal's side of a cut from all others is merged with it.
MaximumIsolatingFlow(p) ==
    LET blocks == [i \in DOMAIN Terminals(p) |-> FlowFrom(p, Terminals(p)[i].pos)]
    IN  WithBounds(ContractIsolatingBlocks(p, blocks), Terminals(p))

\* The minimum cut between the two terminals that are left.
MaximumSTFlow(p) ==
    LET ts == Terminals(p)
        block == FlowFrom(p, ts[1].pos)
        part == Labelling(p, ts[2].id)
    IN  [p EXCEPT !.part = [v \in DOMAIN part |-> IF v \in block THEN ts[1].id ELSE part[v]],
                  !.upper = CutWeight(p.g, block) + p.deleted]

-----------------------------------------------------------------------------
(* edge_selection.h and multiBranch of problem_management.h                  *)

\* findHeavyVertex: the first heaviest neighbor of a terminal.
FindHeavyVertex(p) ==
    LET targets == FlattenSeq([i \in DOMAIN Terminals(p) |->
                       [j \in DOMAIN p.g.vs[Terminals(p)[i].pos] |->
                           p.g.vs[Terminals(p)[i].pos][j].to]])
        heaviest == Max({p.g.deg[v] : v \in Range(targets)})
    IN  IF targets = <<>> THEN p.g.vs[1][1].to
        ELSE targets[SelectInSeq(targets, LAMBDA v : p.g.deg[v] = heaviest)]

\* findEdgeMultiBranch: the terminals whose block v may be in, as positions, and
\* 0 for none of its neighbors'; a terminal comes before one with a lighter edge.
FindEdgeMultiBranch(p, v) ==
    LET ts == SelectSeq(Terminals(p), LAMBDA t : t.pos \in Neighbors(p.g, v))
        weight(x) == (CHOOSE e \in Range(p.g.vs[v]) : e.to = x).w
        known == Sequence(Len(ts), LAMBDA i : [to |-> ts[i].pos, w |-> weight(ts[i].pos)])
        heavy == Max({0} \cup {t.w : t \in Range(known)})
        inner == p.g.deg[v] - SumFunction([i \in DOMAIN known |-> known[i].w])
        rest == Unsigned(inner)
        none == [to |-> 0, w |-> rest]
        all == IF Len(known) < Len(Terminals(p)) /\ rest > heavy THEN Append(known, none)
               ELSE known
    IN  SelectSeq(SortSeq(all, LAMBDA a, b : a.w > b.w),
                  LAMBDA t : Unsigned(inner + t.w) > heavy \/ t.w = heavy)

\* The subproblem in which v is in the block of a terminal: its edges to the other
\* terminals are cut and the one to this terminal is contracted.
Child(p, v, terminal) ==
    LET ts == TerminalSet(p)
        cut(q, i) ==
            LET j == SelectInSeq(q.g.vs[v], LAMBDA e : e.to \in ts \ {terminal})
            IN  IF j = 0 THEN q
                ELSE [q EXCEPT !.g = DeleteEdge(@, v, j), !.deleted = @ + q.g.vs[v][j].w]
        alone == FoldLeftDomain(cut, p, p.g.vs[v])
        k == SelectInSeq(alone.g.vs[v], LAMBDA e : e.to = terminal)
    IN  DeleteTermEdges(IF k = 0 THEN alone
                        ELSE [alone EXCEPT !.g = ContractEdge(@, v, k),
                                           !.part = DropAt(@, Max({v, terminal}))])

\* simplify(), when less than half of the positions are left
Simplified(p) ==
    IF 2 * Len(p.g.vs) < Len(p.g.pos)
    THEN [p EXCEPT !.map = [x \in DOMAIN @ |-> p.g.pos[@[x]]], !.g = Simplify(@)] ELSE p

-----------------------------------------------------------------------------
(* measurements.h, and what a multiterminal cut is                           *)

GetSolution(p) == [x \in DOMAIN p.map |-> p.part[At(p, x)]]

\* flowValue ends the program for any other solution.
IsSolution(orig, sol) == 
    \A i \in DOMAIN orig : Cardinality({j \in DOMAIN orig : sol[orig[j]] = i}) = 1
FlowValue(G, sol) ==
    SumFunction([i \in Range(sol) |->
                    CutWeight(G, {x \in DOMAIN sol : sol[x] = i})]) \div 2

\* The lightest cut of G between the vertices ts.
Separating(G, ts) == {sol \in [DOMAIN G.vs -> DOMAIN ts] : \A i \in DOMAIN ts : sol[ts[i]] = i}
MultiterminalCut(G, ts) == Min({FlowValue(G, sol) : sol \in Separating(G, ts)})

Merged(p) == \E i, j \in DOMAIN p.orig : i # j /\ At(p, p.orig[i]) = At(p, p.orig[j])
\* The lightest solution of the input that p stands for.
Opt(p) == p.deleted + MultiterminalCut(p.g, [i \in DOMAIN p.orig |-> At(p, p.orig[i])])
=============================================================================

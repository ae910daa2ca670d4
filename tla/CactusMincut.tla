----------------------------- MODULE CactusMincut -----------------------------
(***************************************************************************)
(* All minimum cuts of a graph (findAllMincuts of                          *)
(* algorithms/global_mincut/cactus/cactus_mincut.h).  The graph is         *)
(* contracted, level by level, as long as no minimum cut is lost; the      *)
(* cactus of what is left is built by recursion (RecursiveCactus) and      *)
(* every vertex of the graph is located in it through the levels.  The     *)
(* most balanced cut is then searched on the cactus                        *)
(* (cactus/balanced_cut_dfs.h, cactus/most_balanced_minimum_cut.h).        *)
(***************************************************************************)
EXTENDS RecursiveCactus, BalancedCut

CONSTANTS Graphs, \* the graphs on which the program may be called
          EdgeSelections \* the rules among which it is configured to select edges

VARIABLES levels,  \* the graphs, each with the partition index of its vertices
          mincut,  \* the lightest cut seen
          opts,    \* the configuration: edge selection, later what the cut balances
          size,    \* previous_size, 0 when there is none
          before,  \* current_mincut: mincut at the start of a round
          hung,    \* guaranteed_edges with ge_ids: tree edges of the cactus
          phase,   \* "updated" when the graph has changed since (DynamicMincut)
          stack,   \* the calls of the recursion
          cactus,
          cut      \* node_in_cut of the graph, once the most balanced cut is set
vars == <<levels, mincut, opts, size, before, hung, phase, stack, cactus, cut>>

Coarsest == Last(levels).g
Original == levels[1].g

-----------------------------------------------------------------------------
\* Contraction

Init == /\ \E G \in Graphs : levels = <<Level(G)>>
        /\ \E es \in EdgeSelections : opts = [es |-> es]
        /\ mincut = 0 /\ before = 0 /\ size = 0
        /\ hung = <<>> /\ phase = "start" /\ stack = <<>> /\ cactus = Empty(0) /\ cut = {}

\* The estimate of viecut or the mincut that the caller knows: of a graph of up to
\* 10000 vertices it is the minimum cut.
Estimate ==
    /\ phase = "start"
    /\ mincut' = MinimumCut(Original)
    /\ phase' = "round"
    /\ UNCHANGED <<levels, opts, size, before, hung, stack, cactus, cut>>

\* The loop goes on while a round has contracted something (more than 1 %).
Contract(uf, next) ==
    LET c == FromUnionFind(Coarsest, uf, TRUE)
    IN  /\ levels' = IF NumSets(uf) < Len(Coarsest.vs) THEN Coarser(levels, c) ELSE levels
        /\ mincut' = UpdateCut(levels', mincut)
        /\ phase' = next
        /\ UNCHANGED <<opts, stack, cactus, cut>>

\* Mutant: the vertices that hang on a minimum cut are merged and forgotten.
Guaranteed_Forgotten(G, uf) ==
    LET leaf(v) == Len(G.vs[v]) = 1 /\ G.vs[v][1].w = mincut
    IN  [uf |-> FoldLeftDomain(LAMBDA u, v : IF leaf(v) THEN Union(u, v, G.vs[v][1].to) ELSE u,
                               uf, G.vs),
         edges |-> <<>>]

\* A vertex that hangs on one edge of weight mincut is merged, and remembered.
Guaranteed(G, uf) ==
    LET leaf(v) == Len(G.vs[v]) = 1 /\ G.vs[v][1].w = mincut
        hang(st, v) ==
            IF leaf(v) /\ NumSets(st.uf) > 1
            THEN [uf |-> Union(st.uf, v, G.vs[v][1].to),
                  edges |-> Append(st.edges, <<v, G.vs[v][1].to>>)]
            ELSE st
    IN  FoldLeftDomain(hang, [uf |-> uf, edges |-> <<>>], G.vs)

Round ==
    /\ phase = "round"
    /\ size = 0 \/ Len(Coarsest.vs) < size
    /\ \E start \in DOMAIN Coarsest.vs :
          LET g == Guaranteed(Coarsest, Capforest(Coarsest, mincut + 1, start))
          IN  /\ hung' = Append(hung, [level |-> Len(levels), edges |-> g.edges])
              /\ Contract(g.uf, "heavy")
    /\ size' = Len(Coarsest.vs) /\ before' = mincut

HeavyEdges ==
    /\ phase = "heavy"
    /\ Contract(PrTests12(Coarsest, mincut + 1, TRUE), "triangles")
    /\ UNCHANGED <<size, before, hung>>

\* A lighter cut than before the round: the edges remembered are none of its.
HeavyTriangles ==
    /\ phase = "triangles"
    /\ Contract(PrTests34(Coarsest, mincut + 1, TRUE), "round")
    /\ hung' = IF mincut' < before THEN <<>> ELSE hung
    /\ UNCHANGED <<size, before>>

\* noi.perform_minimum_cut on the last graph.
RECURSIVE NoiLevels(_, _, _)
NoiLevels(G, value, start) ==
    IF Len(G.vs) <= 2 \/ value = 0 THEN value
    ELSE LET c == FromUnionFind(G, Capforest(G, value, Min({start, Len(G.vs)})), TRUE)
         IN  NoiLevels(c.g, UpdateCut(<<Level(G), Level(c.g)>>, value), start)

ExactCut ==
    /\ phase = "round"
    /\ size # 0 /\ Len(Coarsest.vs) >= size
    /\ \E start \in DOMAIN Coarsest.vs :
          mincut' = IF Len(Coarsest.vs) = 1 THEN mincut
                    ELSE NoiLevels(Coarsest, MinDegree(Coarsest), start)
    /\ phase' = "recurse"
    /\ stack' = <<Call(Coarsest, 0)>>
    /\ UNCHANGED <<levels, opts, size, before, hung, cactus, cut>>

-----------------------------------------------------------------------------
\* The cactus

\* The last call is at pc, and makes a step.
At(pc) == phase = "recurse" /\ Top(stack).pc = pc
Step(next) == /\ stack' = next
              /\ UNCHANGED <<levels, mincut, opts, size, before, hung, phase, cactus, cut>>

EnterCall == At("enter") /\ Step(Update(stack, TakeOut(Top(stack), mincut)))

ReduceGraph ==
    /\ At("reduce")
    /\ \E start \in DOMAIN Top(stack).g.vs :
          Step(Update(stack, Reduce(Top(stack), mincut, start)))

FlowStep ==
    /\ At("flow")
    /\ \E start \in DOMAIN Top(stack).g.vs :
          Step(Flow(stack, Top(stack), mincut, opts.es, start))

EnterComponent == At("split") /\ Step(Descend(stack, Top(stack)))

ReturnCactus ==
    /\ At("return") /\ Len(stack) > 1
    /\ Step(Return(stack, Built(Top(stack), mincut), mincut))

\* flowMincut ends with a check of its result.
FlowMincut ==
    /\ At("return") /\ Len(stack) = 1
    /\ LET built == Built(Top(stack), mincut)
       IN  cactus' = Checked(built, mincut = 0 \/ IsCNCR(built, mincut))
    /\ phase' = IF cactus'.exited THEN "failed" ELSE "locate"
    /\ stack' = <<>>
    /\ UNCHANGED <<levels, mincut, opts, size, before, hung, cut>>

\* From the last level back: where the vertices of the level are, when those of
\* the next one are at next; those that hung there get vertices of their own.
RECURSIVE LocateFrom(_, _, _, _)
LocateFrom(C, i, next, lv) ==
    LET here == [v \in DOMAIN lv[i].g.vs |-> next[lv[i].part[v]]]
        back == SelectSeq(hung, LAMBDA h : h.level = i)
        hang(st, e) ==
            LET new == NewEmptyNode(st.g)
            IN  [g |-> NewEdgeOrder(new, new.last, st.at[e[2]], mincut),
                 at |-> [st.at EXCEPT ![e[1]] = new.last]]
        edges == IF back = <<>> \/ Len(lv) = 1 THEN <<>> ELSE back[1].edges
        st == FoldLeft(hang, [g |-> C, at |-> here], edges)
    IN  IF i = 1 THEN st ELSE LocateFrom(st.g, i - 1, st.at, lv)

\* setVertexLocations
VertexLocations ==
    LET emptied == [cactus EXCEPT !.cont = [v \in DOMAIN @ |-> {}]]
        last == [v \in DOMAIN Coarsest.vs |-> cactus.pos[v]]
        st == LocateFrom(emptied, Len(levels), last, levels)
    IN  [st.g EXCEPT !.pos = st.at,
                     !.cont = [c \in DOMAIN st.g.vs |-> {v \in DOMAIN st.at : st.at[v] = c}]]

Locate ==
    /\ phase = "locate"
    /\ cactus' = VertexLocations
    /\ phase' = "located"
    /\ UNCHANGED <<levels, mincut, opts, size, before, hung, stack, cut>>

-----------------------------------------------------------------------------
\* The most balanced cut

\* find_lowest_conductance counts the degrees of vertices, otherwise each is one.
Weight(byDegree, S) ==
    IF byDegree THEN MapThenSumSet(LAMBDA v : Original.deg[v], S) ELSE Cardinality(S)

FindCut ==
    /\ phase = "located" /\ mincut # 0
    /\ \E start \in DOMAIN cactus.vs, byDegree \in BOOLEAN :
          /\ opts' = [byDegree |-> byDegree] @@ opts
          /\ cut' = FindCutFromCactus(
                       [g |-> cactus, mincut |-> mincut, start |-> start,
                        total |-> Weight(byDegree, DOMAIN Original.vs),
                        weight |-> [v \in DOMAIN cactus.vs |-> Weight(byDegree, cactus.cont[v])]])
    /\ phase' = "cut"
    /\ UNCHANGED <<levels, mincut, size, before, hung, stack, cactus>>

-----------------------------------------------------------------------------
Next == \/ Estimate \/ Round \/ HeavyEdges \/ HeavyTriangles \/ ExactCut
        \/ EnterCall \/ ReduceGraph \/ FlowStep \/ EnterComponent \/ ReturnCactus
        \/ FlowMincut \/ Locate \/ FindCut

Spec == Init /\ [][Next]_vars

-----------------------------------------------------------------------------
\* Properties

\* The program never ends in one of the checks of the recursion (a cactus that is
\* not canonical, a cycle edge that is not there, a junction that cannot be split).
NeverExits == phase # "failed"

\* The cuts that the cactus stands for.
Represented ==
    LET side(C) == {v \in DOMAIN Original.vs : cactus.pos[v] \in C}
        cuts == {C \in Sides(cactus) : CutWeight(cactus, C) = mincut}
    IN  {side(C) : C \in cuts} \ {{}, DOMAIN Original.vs}

\* The cactus stands for all minimum cuts of the graph and for no other one: no
\* contraction, reduction or split on the way loses or invents one.
ExactlyTheMinimumCuts ==
    phase \in {"located", "cut"} => /\ mincut = MinimumCut(Original)
                                    /\ Represented = AllMinimumCuts(Original)

\* The marked side is a side of a minimum cut, and no minimum cut divides the
\* weight more evenly, wherever the search starts.
MostBalanced ==
    LET lighter(S) == Min({Weight(opts.byDegree, S),
                           Weight(opts.byDegree, DOMAIN Original.vs \ S)})
        cuts == AllMinimumCuts(Original)
    IN  phase = "cut" => cut \in cuts /\ \A S \in cuts : lighter(S) <= lighter(cut)

\* No vertex of the cactus is idle: an empty one joins three cuts or more.
Canonical == phase \in {"located", "cut"} => mincut = 0 \/ IsCNCR(cactus, mincut)
=============================================================================

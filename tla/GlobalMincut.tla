----------------------------- MODULE GlobalMincut -----------------------------
(***************************************************************************)
(* The algorithms for one minimum cut (algorithms/global_mincut/): that of *)
(* Nagamochi, Ono and Ibaraki (noi_minimum_cut.h), of Matula               *)
(* (matula_approx.h), of Padberg and Rinaldi (padberg_rinaldi.h), VieCut   *)
(* (viecut.h with coarsening/label_propagation.h) and that of Karger and   *)
(* Stein (ks_minimum_cut.h).  All of them merge vertices until few are     *)
(* left and keep the lightest vertex seen, and on which side of that cut   *)
(* the vertices of the first graph are.  A program works on static graphs  *)
(* (graph_access.h), of which every contraction is a new one, or on        *)
(* mutable graphs, which some of them contract in place.                   *)
(***************************************************************************)
EXTENDS Coarsening

CONSTANTS Graphs,      \* the graphs on which the program may be called
          Programs(_), \* the algorithms and representations with which it is
          Orders(_),   \* the random orders of so many vertices
          SmallGraph,  \* the size up to which viecut calls noi at once, 10000
          SmallSample  \* the size up to which ks does, 50

VARIABLES call,    \* the algorithm and the representation
          input,   \* the graph given to it
          levels,  \* graphs; of ks with node_in_cut
          mincut,  \* the lightest cut seen
          inCut,   \* node_in_cut of the first graph
          before,  \* last_nodes of padberg_rinaldi; the number of tries of ks
          base,    \* the level on which noi was called
          found,   \* what viecut had found before
          calls,   \* the recursion of ks
          phase
vars == <<call, input, levels, mincut, inCut, before, base, found, calls, phase>>

Coarsest == Last(levels).g
Size == Len(Coarsest.vs)
InPlace(copy) == call.graph = "mutable" /\ ~copy

\* The largest numbers, more than any cut or size of the small graphs.
NoCut == 1000

-----------------------------------------------------------------------------
\* The start and the end of a call

Init == /\ \E G \in Graphs : \E c \in Programs(G) :
              LET first == c.algo \notin {"ks", "cactus"}
              IN  /\ call = c /\ input = G /\ levels = <<Level(G)>>
                  /\ before = IF c.algo = "ks" THEN 0 ELSE NoCut
                  /\ mincut = IF first THEN MinDegree(G) ELSE NoCut
                  /\ inCut = IF first THEN {MinimumIndex(G)} ELSE {}
        /\ base = 1 /\ found = NoCut /\ calls = <<>>
        /\ phase = IF call.algo = "noi" THEN "noi" ELSE "round"

Running(algo, at) == call.algo = algo /\ phase = at

\* A contraction of the last graph, with the updates of cut and saved cut; the
\* cut that noi saves for its caller is that of the graph it was called on.
Merge(uf, copy, next) ==
    LET c == IF call.graph = "static" THEN ContractGraphSparse(Coarsest, Blocks(uf), uf)
             ELSE FromUnionFind(Coarsest, uf, copy)
    IN  /\ levels' = IF InPlace(copy) THEN <<Level(c.g)>> ELSE Coarser(levels, c)
        /\ mincut' = UpdateCut(levels', mincut)
        /\ inCut' = IF base > 1 THEN inCut ELSE IF InPlace(copy) THEN {}
                    ELSE UpdateInCut(levels', mincut, inCut)
        /\ phase' = next
        /\ UNCHANGED <<call, input, base, found, calls>>

Return(value) ==
    /\ mincut' = value
    /\ phase' = "done"
    /\ UNCHANGED <<call, input, levels, inCut, before, base, found, calls>>

-----------------------------------------------------------------------------
\* noi_minimum_cut and matula_approx

NoiRound ==
    /\ phase = "noi" /\ Size > 2 /\ mincut > 0
    /\ \E start \in DOMAIN Coarsest.vs :
          Merge(Capforest(Coarsest, mincut, start), TRUE, "noi")
    /\ UNCHANGED before

NoiReturns ==
    /\ phase = "noi" /\ (Size <= 2 \/ mincut = 0)
    /\ Return(Min({found, mincut}))

MatulaLimit(value) == Max({value \div 2, 1})

MatulaRound ==
    /\ Running("matula", "round") /\ Size > 2 /\ mincut > 0
    /\ \E start \in DOMAIN Coarsest.vs :
          Merge(Capforest(Coarsest, MatulaLimit(mincut), start), FALSE, "round")
    /\ UNCHANGED before

MatulaReturns == /\ Running("matula", "round") /\ (Size <= 2 \/ mincut = 0)
                 /\ Return(mincut)

-----------------------------------------------------------------------------
\* padberg_rinaldi

Shrinks == Size > 2 /\ Size < before

PrTriangles == /\ Running("pr", "round") /\ Shrinks
               /\ Merge(PrTests34(Coarsest, mincut, FALSE), FALSE, "heavy")
               /\ before' = Size

PrHeavy == /\ Running("pr", "heavy")
           /\ Merge(PrTests12(Coarsest, mincut, FALSE), FALSE, "round")
           /\ UNCHANGED before

PrReturns == Running("pr", "round") /\ ~Shrinks /\ Return(mincut)

-----------------------------------------------------------------------------
\* viecut

\* The labels that v may take: those to which it is connected best; which of them
\* depends on the edge that was the last one and on chance.
Strongest(G, labels, v) ==
    LET at(l) == SumFunction([i \in {j \in DOMAIN G.vs[v] : labels[G.vs[v][j].to] = l} |->
                                 G.vs[v][i].w])
        near == {labels[G.vs[v][i].to] : i \in DOMAIN G.vs[v]}
        most == Max({at(l) : l \in near})
    IN  IF near = {} THEN {labels[v]} ELSE {l \in near : at(l) = most}

\* remap_cluster: the vertices with one label are a set of a union-find.
RemapCluster(labels) ==
    Sequence(Len(labels), LAMBDA v : Min({u \in DOMAIN labels : labels[u] = labels[v]}))

\* Two passes over the vertices in a random order.
PropagateLabels(G) ==
    LET relabel(L, v) == UNION {{[l EXCEPT ![v] = s] : s \in Strongest(G, l, v)} : l \in L}
        passes(order) == FoldLeft(relabel, {Singletons(Len(G.vs))}, order \o order)
    IN  {RemapCluster(l) : l \in UNION {passes(order) : order \in Orders(Len(G.vs))}}

\* From block p on: a vertex without which its block is lighter than the target
\* becomes a block of its own.
RECURSIVE TrivialCutsFrom(_, _, _, _)
TrivialCutsFrom(G, blocks, p, target) ==
    IF p > Len(blocks) THEN blocks
    ELSE LET S == blocks[p]
             out(v) == WeightBetween(G, {v}, DOMAIN G.vs \ S)
             gain(v) == WeightBetween(G, {v}, S) - out(v)
             best == Min({gain(v) : v \in S})
             vertex == Min({v \in S : gain(v) = best})
             lighter == MapThenSumSet(out, S) + best
         IN  IF /\ 2 ^ Cardinality(S) < Len(G.vs) /\ Cardinality(S) > 1
                /\ best < 0 /\ lighter < target
             THEN TrivialCutsFrom(G, Append([blocks EXCEPT ![p] = S \ {vertex}], {vertex}), p,
                                  lighter)
             ELSE TrivialCutsFrom(G, blocks, p + 1, target)

FindTrivialCuts(G, uf, target) == TrivialCutsFrom(G, Blocks(uf), 1, target)

Coarsens == /\ Size > SmallGraph
            /\ Len(levels) > 1 => Size < Len(levels[Len(levels) - 1].g.vs)

\* remap_cluster has set the partition index before trivial cuts are found.
Propagate ==
    /\ Running("vc", "round") /\ Coarsens
    /\ \E uf \in PropagateLabels(Coarsest) :
          LET blocks == FindTrivialCuts(Coarsest, uf, mincut)
              c == IF call.graph = "static" THEN ContractGraphSparse(Coarsest, blocks, uf)
                   ELSE ContractGraph(Coarsest, blocks, uf, TRUE)
          IN  levels' = Coarser(levels, c)
    /\ mincut' = UpdateCut(levels', mincut)
    /\ inCut' = UpdateInCut(levels', mincut, inCut)
    /\ phase' = "heavy"
    /\ UNCHANGED <<call, input, before, base, found, calls>>

VcHeavy == /\ Running("vc", "heavy")
           /\ Merge(PrTests12(Coarsest, mincut, FALSE), TRUE, "triangles")
           /\ UNCHANGED before

VcTriangles == /\ Running("vc", "triangles")
               /\ Merge(PrTests34(Coarsest, mincut, FALSE), TRUE, "round")
               /\ UNCHANGED before

CallNoi == /\ Running("vc", "round") /\ ~Coarsens /\ Size > 1
           /\ base' = Len(levels) /\ found' = mincut
           /\ mincut' = MinDegree(Coarsest)
           /\ inCut' = IF Len(levels) = 1 THEN {MinimumIndex(Coarsest)} ELSE inCut
           /\ phase' = "noi"
           /\ UNCHANGED <<call, input, levels, before, calls>>

VcReturns == Running("vc", "round") /\ ~Coarsens /\ Size = 1 /\ Return(mincut)

-----------------------------------------------------------------------------
\* ks_minimum_cut

\* A graph of the recursion with node_in_cut, and a call on the graph at index at:
\* sub is the graph sampled from it, first what the first of two calls returned.
Sampled(G) == [g |-> G, part |-> [v \in DOMAIN G.vs |-> v], in |-> {}]
Recurse(at) == [at |-> at, pc |-> "sample", sub |-> 0, first |-> <<0, 0>>]

Deepest == Last(calls)
Deeper(update) == Front(calls) \o update
KsStep(pc) == Running("ks", "recurse") /\ Deepest.pc = pc
KsUnchanged == UNCHANGED <<call, input, mincut, inCut, before, base, found, phase>>

KsTry ==
    /\ Running("ks", "round") /\ 2 ^ before < Len(input.vs) /\ mincut > 0
    /\ levels' = <<Sampled(input)>> /\ calls' = <<Recurse(1)>>
    /\ phase' = "recurse" /\ before' = before + 1
    /\ UNCHANGED <<call, input, mincut, inCut, base, found>>

KsReturns ==
    /\ Running("ks", "round") /\ (2 ^ before >= Len(input.vs) \/ mincut = 0)
    /\ Return(mincut)

\* In a call but the first one: heavy edges, as long as two vertices are left.
HeavyMerged(G) ==
    LET heavy(a) == a.w > MinDegree(G) \/ 2 * a.w > G.deg[a.n] \/ 2 * a.w > G.deg[a.to]
        merge(uf, a) == IF a.to > a.n /\ NumSets(uf) > 2 /\ heavy(a) THEN Union(uf, a.n, a.to)
                        ELSE uf
    IN  FoldLeft(merge, Singletons(Len(G.vs)), Arcs(G))

\* How many of n vertices a sample takes away: two fifths.
Reduction(n) == Min({(4 * n) \div 10, n - 2})

\* Random edges are united until the vertices are gone.
Samples(G, uf) ==
    LET merged(u) == {Union(u, a.n, a.to) : a \in {b \in Range(Arcs(G)) : u[b.n] # u[b.to]}}
        sampled[k \in Nat] == IF k = 0 THEN {uf} ELSE UNION {merged(u) : u \in sampled[k - 1]}
    IN  sampled[Reduction(NumSets(uf))]

KsSample ==
    /\ KsStep("sample")
    /\ LET G == levels[Deepest.at].g
           merged == IF Deepest.at = 1 THEN Singletons(Len(G.vs)) ELSE HeavyMerged(G)
       IN  \E uf \in Samples(G, merged) :
              LET c == ContractGraphSparse(G, Blocks(uf), uf)
                  new == Len(levels) + 1
                  here == [Deepest EXCEPT !.sub = new]
              IN  /\ levels' = Append([levels EXCEPT ![Deepest.at].part = c.part],
                                      Sampled(c.g))
                  /\ calls' = IF Len(c.g.vs) > SmallSample
                              THEN Deeper(<<[here EXCEPT !.pc = "first"], Recurse(new)>>)
                              ELSE Deeper(<<[here EXCEPT !.pc = "noi"]>>)
    /\ KsUnchanged

\* What noi may answer and save on static graphs.
RECURSIVE NoiAnswers(_, _, _)
NoiAnswers(lv, value, in) ==
    LET G == Last(lv).g
        next(uf) == Coarser(lv, ContractGraphSparse(G, Blocks(uf), uf))
        answers(l) == NoiAnswers(l, UpdateCut(l, value), UpdateInCut(l, value, in))
    IN  IF Len(G.vs) <= 2 \/ value = 0 THEN {[value |-> value, in |-> in]}
        ELSE UNION {answers(next(Capforest(G, value, start))) : start \in DOMAIN G.vs}

\* A call returns the value with the index of the graph that it has sampled.  The
\* caller takes node_in_cut from the better of its two calls, and looks each
\* vertex up in its partition index, which is that of the second one.
Answer(lv, value) ==
    LET c == Deepest
        G == lv[c.at]
        caller == calls[Len(calls) - 1]
        from == IF caller.first[1] < value THEN caller.first[2] ELSE c.sub
        saved == {v \in DOMAIN G.part : G.part[v] \in lv[from].in}
        top == {v \in DOMAIN G.part : G.part[v] \in lv[c.sub].in}
    IN  IF Len(calls) = 1
        THEN /\ mincut' = Min({mincut, value})
             /\ inCut' = IF value < mincut THEN top ELSE inCut
             /\ phase' = "round" /\ levels' = <<Level(input)>> /\ calls' = <<>>
        ELSE /\ levels' = IF caller.pc = "first" THEN lv ELSE [lv EXCEPT ![c.at].in = saved]
             /\ calls' = SubSeq(calls, 1, Len(calls) - 2) \o
                         IF caller.pc = "first"
                         THEN <<[caller EXCEPT !.pc = "second", !.first = <<value, c.sub>>],
                                Recurse(c.at)>>
                         ELSE <<[caller EXCEPT !.pc = "answer",
                                               !.first = <<Min({value, caller.first[1]}), 0>>]>>
             /\ UNCHANGED <<mincut, inCut, phase>>

KsNoi == /\ KsStep("noi")
         /\ LET G == levels[Deepest.sub].g
            IN  \E a \in NoiAnswers(<<Level(G)>>, MinDegree(G), {MinimumIndex(G)}) :
                   Answer([levels EXCEPT ![Deepest.sub].in = a.in], a.value)
         /\ UNCHANGED <<call, input, before, base, found>>

KsAnswer == /\ KsStep("answer")
            /\ Answer(levels, Deepest.first[1])
            /\ UNCHANGED <<call, input, before, base, found>>

-----------------------------------------------------------------------------
Next == \/ NoiRound \/ NoiReturns \/ MatulaRound \/ MatulaReturns
        \/ PrTriangles \/ PrHeavy \/ PrReturns
        \/ Propagate \/ VcHeavy \/ VcTriangles \/ CallNoi \/ VcReturns
        \/ KsTry \/ KsReturns \/ KsSample \/ KsNoi \/ KsAnswer

Spec == Init /\ [][Next]_vars

-----------------------------------------------------------------------------
\* Properties

\* Where the saved cut is that of the answer: not after a contraction in place, not
\* when viecut has coarsened, not when ks has compared two samples.
CutIsKept ==
    \/ call.algo = "noi"
    \/ call.algo \in {"pr", "matula"} /\ call.graph = "static"
    \/ call.algo = "vc" /\ Len(input.vs) <= SmallGraph
    \/ call.algo = "ks" /\ Len(input.vs) - Reduction(Len(input.vs)) <= SmallSample

\* The answer is the weight of a cut of the graph that was given, and not of one
\* that was made on the way: noi, and viecut on a small graph, answer the minimum
\* cut, the others at most what a vertex weighs, Matula's at most twice the
\* minimum and one.  node_in_cut, followed through all levels, is such a cut.
ReturnsACut ==
    phase = "done" =>
        LET least == MinimumCut(input)
        IN  /\ \E S \in Sides(input) : CutWeight(input, S) = mincut
            /\ CutIsKept => inCut \in Sides(input) /\ CutWeight(input, inCut) = mincut
            /\ call.algo # "ks" => mincut <= MinDegree(input)
            /\ call.algo = "noi" \/ (call.algo = "vc" /\ Len(input.vs) <= SmallGraph) =>
                  mincut = least
            /\ call.algo = "matula" => mincut <= 2 * least + 1

\* A round of noi or Matula merges at least two vertices, or nothing would end the
\* loop: the last vertex that the scan reaches is connected by all that it weighs,
\* and a graph with a vertex that it does not reach has a cut of weight 0.
EveryRoundMerges ==
    [][(phase = "noi" \/ call.algo = "matula") /\ phase' = phase => Size' < Size]_vars
=============================================================================

---------------------------- MODULE ParallelMincut ----------------------------
(***************************************************************************)
(* The minimum cut and all minimum cuts by threads: the build with         *)
(* PARALLEL of exact_parallel_minimum_cut.h and parallel_cactus.h          *)
(* (parallel/algorithm/), which merge what threads unite that scan the     *)
(* graph from several vertices, and of viecut, whose label propagation and *)
(* tests share the vertices of a loop among threads (parallel/coarsening/).*)
(* The threads mark vertices in arrays of bytes, some by compare and swap, *)
(* most by plain reads and writes.  Threads add the edges of a contracted  *)
(* graph in any order, so a thread looks at the edges of a vertex in any   *)
(* order.  Uniting two sets is one step here; ParallelUnionFind shows what *)
(* becomes of it between threads.                                          *)
(***************************************************************************)
EXTENDS GlobalMincut

CONSTANT Threads

VARIABLES loop,    \* "viecut", "exact" or "cactus"
          sure,    \* the sides of the cuts of guaranteed_edges
          rescan,  \* disable_blacklist
          shared,  \* what the threads share
          th,      \* what each has for itself
          loose    \* history: whether a thread has united its vertex with one that it
                   \* had counted as reached and not queued
sequential == <<loop, sure, rescan, shared, th, loose>>
program == <<vars, loop, sure, rescan>>
allVars == <<vars, sequential>>

\* find_all_cuts
AllCuts == loop = "cactus"

\* Mutant: what is connected by no more than the minimum cut may be merged.
Limit_Equal == mincut

\* The connectivity from which on vertices are merged.
Limit == IF AllCuts THEN mincut + 1 ELSE mincut

-----------------------------------------------------------------------------
\* Threads

V == DOMAIN Coarsest.vs

\* marks is visited of the scan, contracted of the tests; queue has the keys of the
\* vertices in it.
Fresh(n, order) ==
    [uf |-> Singletons(n), marks |-> {}, finished |-> {}, labels |-> Singletons(n),
     order |-> order, next |-> 1]

Thread(n, pc) ==
    [pc |-> pc, v |-> 0, e |-> {}, left |-> {}, sum |-> Sequence(n, LAMBDA v : 0),
     queue |-> <<>>, seen |-> {}, unqueued |-> {}]

\* A parallel loop over the vertices of G begins.
Begin(G, next, order) ==
    /\ phase' = next
    /\ shared' = Fresh(Len(G.vs), order)
    /\ th' = [t \in Threads |-> Thread(Len(G.vs), "idle")]
    /\ UNCHANGED loose

Step(t, update) == th' = [th EXCEPT ![t] = update] /\ UNCHANGED program
At(t, place, pc) == phase = place /\ th[t].pc = pc
Further(t) == [th[t] EXCEPT !.pc = "edges", !.e = {}]

Turns == IF phase = "labels" THEN 2 * Size ELSE Size
Idle(t) == th[t].pc = "idle"
Joined(place) == phase = place /\ shared.next > Turns /\ \A t \in Threads : Idle(t)

\* A thread gets the next vertex; the code's chunks are 100 or 64 vertices.  The
\* second pass of label propagation waits for the first.
Take(t) ==
    LET v == shared.order[((shared.next - 1) % Size) + 1]
        tests34 == phase = "tests34"
    IN  /\ phase \in {"labels", "tests12", "tests34"} /\ Idle(t) /\ shared.next <= Turns
        /\ shared.next = Size + 1 => \A s \in Threads : Idle(s)
        /\ shared' = [shared EXCEPT !.next = @ + 1,
                                    !.finished = IF tests34 THEN @ \cup {v} ELSE @]
        /\ Step(t, IF tests34 /\ v \in shared.finished THEN th[t]
                   ELSE [th[t] EXCEPT !.pc = "edges", !.v = v, !.left = Range(Coarsest.vs[v])])

EndVertex(t) ==
    /\ phase \in {"tests12", "tests34"} /\ th[t].pc = "edges" /\ th[t].left = {}
    /\ Step(t, Thread(Size, "idle"))
    /\ UNCHANGED shared

\* The end of edge e of v is united with v.
Unite(v, e) ==
    shared' = [shared EXCEPT !.uf = Union(@, v, e.to), !.marks = @ \cup {v, e.to}]

-----------------------------------------------------------------------------
\* Label propagation

LabelEdge(t) ==
    /\ At(t, "labels", "edges")
    /\ \E e \in th[t].left :
          Step(t, [th[t] EXCEPT !.left = @ \ {e}, !.sum[shared.labels[e.to]] = @ + e.w])
    /\ UNCHANGED shared

Relabel(t) ==
    /\ At(t, "labels", "edges") /\ th[t].left = {}
    /\ \E l \in V :
          /\ \A k \in V : th[t].sum[k] <= th[t].sum[l]
          /\ shared' = [shared EXCEPT !.labels[th[t].v] = IF th[t].sum[l] = 0 THEN @ ELSE l]
    /\ Step(t, Thread(Size, "idle"))

-----------------------------------------------------------------------------
\* prTests12

HeavyEdge(t) ==
    /\ At(t, "tests12", "edges")
    /\ \E e \in th[t].left :
          /\ IF e.w >= Limit THEN Unite(th[t].v, e) ELSE UNCHANGED shared
          /\ Step(t, [th[t] EXCEPT !.left = @ \ {e}, !.e = {e}, !.pc = "half"])

\* Whether two vertices have degrees with which they may be merged.
Mergeable(v, e) == AllCuts => Coarsest.deg[v] >= Limit /\ Coarsest.deg[e.to] >= Limit

\* A compare and swap of the mark of the end of which the edge has more than half.
HalfEdge(t) ==
    /\ At(t, "tests12", "half")
    /\ \E e \in th[t].e :
          LET v == th[t].v
              ends == {x \in {v, e.to} : Mergeable(v, e) /\ 2 * e.w > Coarsest.deg[x]}
              end == IF v \in ends THEN v ELSE e.to
          IN  IF ends # {} /\ end \notin shared.marks
              THEN /\ shared' = [shared EXCEPT !.marks = @ \cup {end}]
                   /\ Step(t, [th[t] EXCEPT !.pc = "unite"])
              ELSE Step(t, Further(t)) /\ UNCHANGED shared

UniteHalf(t) ==
    /\ At(t, "tests12", "unite")
    /\ \E e \in th[t].e : Unite(th[t].v, e)
    /\ Step(t, Further(t))

-----------------------------------------------------------------------------
\* prTests34

TriangleEdge(t) ==
    /\ At(t, "tests34", "edges")
    /\ \E e \in th[t].left :
          /\ shared' = [shared EXCEPT !.finished = @ \cup {e.to}]
          /\ Step(t, [th[t] EXCEPT !.left = @ \ {e}, !.e = {e},
                                   !.pc = IF e.to > th[t].v THEN "tight" ELSE "edges"])

\* The edges to third vertices, which v still has marked.
Thirds(t, e) ==
    {p \in Range(Coarsest.vs[e.to]) \X th[t].left : p[1].to = p[2].to /\ p[2].to > th[t].v}

Contractible(v, e, p) ==
    LET over(a, b) == IF AllCuts THEN a > b ELSE a >= b
    IN  /\ over(2 * (e.w + p[2].w), Coarsest.deg[v]) /\ over(2 * (e.w + p[1].w), Coarsest.deg[e.to])
        /\ Mergeable(v, e)

\* Of two compare and swaps the first; when one fails, so do those for the other
\* triangles over the edge.
TightEdge(t) ==
    /\ At(t, "tests34", "tight")
    /\ \E e \in th[t].e :
          LET v == th[t].v
          IN  IF v \notin shared.marks /\ \E p \in Thirds(t, e) : Contractible(v, e, p)
              THEN /\ shared' = [shared EXCEPT !.marks = @ \cup {v}]
                   /\ Step(t, [th[t] EXCEPT !.pc = "swap"])
              ELSE Step(t, [th[t] EXCEPT !.pc = "sum"]) /\ UNCHANGED shared

SwapSecond(t) ==
    /\ At(t, "tests34", "swap")
    /\ \E e \in th[t].e :
          IF e.to \notin shared.marks
          THEN Unite(th[t].v, e) /\ Step(t, Further(t))
          ELSE Step(t, [th[t] EXCEPT !.pc = "sum"]) /\ UNCHANGED shared

SumTriangles(t) ==
    /\ At(t, "tests34", "sum")
    /\ \E e \in th[t].e :
          LET paths == MapThenSumSet(LAMBDA p : Min({p[1].w, p[2].w}), Thirds(t, e))
          IN  IF e.w + paths >= Limit THEN Unite(th[t].v, e) ELSE UNCHANGED shared
    /\ Step(t, Further(t))

-----------------------------------------------------------------------------
\* parallel_modified_capforest

Scanning == phase \in {"scan", "again"}
Queued(t) == DOMAIN th[t].queue
Without(queue, v) == Restrict(queue, DOMAIN queue \ {v})
Resting(t) == th[t].pc = "pop" /\ Queued(t) = {}
Scanned(place) == phase = place /\ \A t \in Threads : Resting(t)

BeginScan(place, starts) ==
    /\ phase' = place
    /\ shared' = Fresh(Size, <<>>)
    /\ th' = [t \in Threads |-> [Thread(Size, "pop") EXCEPT !.queue = starts[t]]]
    /\ UNCHANGED loose

\* Mutant: the vertices are taken in any order.
Pop_Any(t) ==
    /\ Scanning /\ th[t].pc = "pop"
    /\ \E v \in Queued(t) :
          LET free == rescan \/ v \notin shared.marks
              popped == [th[t] EXCEPT !.queue = Without(@, v), !.seen = @ \cup {v}, !.v = v,
                                      !.left = Range(Coarsest.vs[v])]
          IN  Step(t, IF ~free THEN [popped EXCEPT !.left = {}]
                      ELSE [popped EXCEPT !.pc = IF rescan THEN "edges" ELSE "visit"])
    /\ UNCHANGED shared

\* The vertex that is connected best is taken; one that a thread has visited, this or
\* another one, is only skipped when blacklists are used.
Pop(t) ==
    /\ Scanning /\ th[t].pc = "pop"
    /\ \E v \in Queued(t) :
          LET free == rescan \/ v \notin shared.marks
              popped == [th[t] EXCEPT !.queue = Without(@, v), !.seen = @ \cup {v}, !.v = v,
                                      !.left = Range(Coarsest.vs[v])]
          IN  /\ \A u \in Queued(t) : th[t].queue[u] <= th[t].queue[v]
              /\ Step(t, IF ~free THEN [popped EXCEPT !.left = {}]
                         ELSE [popped EXCEPT !.pc = IF rescan THEN "edges" ELSE "visit"])
    /\ UNCHANGED shared

Visit(t) ==
    /\ Scanning /\ th[t].pc = "visit"
    /\ shared' = [shared EXCEPT !.marks = @ \cup {th[t].v}]
    /\ Step(t, Further(t))

\* An edge to a vertex that the thread has not taken itself: what the vertices that
\* the thread has scanned are connected to it by, at most the limit.
Reached(t) ==
    /\ Scanning /\ th[t].pc = "edges"
    /\ \E e \in th[t].left :
          LET new == e.to \notin th[t].seen /\ th[t].sum[e.to] < Limit
              sum == th[t].sum[e.to] + e.w
              left == [th[t] EXCEPT !.left = @ \ {e}]
              counted == [left EXCEPT !.sum[e.to] = Min({sum, Limit})]
              united == new /\ sum >= Limit
          IN  /\ shared' = IF united THEN [shared EXCEPT !.uf = Union(@, th[t].v, e.to)]
                           ELSE shared
              /\ loose' = (loose \/ (united /\ e.to \in th[t].unqueued))
              /\ Step(t, IF ~new \/ e.to \in shared.marks THEN left
                         ELSE [counted EXCEPT !.e = {e}, !.pc = "queue"])

\* The vertex is queued after another look at its mark, which another thread may have
\* set since: it stays counted then.
Enqueue(t) ==
    /\ Scanning /\ th[t].pc = "queue"
    /\ \E e \in th[t].e :
          Step(t, IF e.to \in shared.marks
                  THEN [Further(t) EXCEPT !.unqueued = @ \cup {e.to}]
                  ELSE [Further(t) EXCEPT !.queue = (e.to :> th[t].sum[e.to]) @@ @])
    /\ UNCHANGED shared

EndEdges(t) ==
    /\ Scanning /\ th[t].pc = "edges" /\ th[t].left = {}
    /\ Step(t, [th[t] EXCEPT !.pc = "pop"])
    /\ UNCHANGED shared

-----------------------------------------------------------------------------
\* Between the loops: one thread

Kept == UNCHANGED <<call, input, base, calls>>

\* contractGraphFullMesh: the weights between all pairs of sets, which the threads add
\* up in a matrix; each positive one is an edge.
FullMesh(G, blocks) ==
    LET weight(p, q) == IF p = q THEN 0 ELSE WeightBetween(G, blocks[p], blocks[q])
        join(H, p) == FoldLeft(LAMBDA I, q : IF weight(p, q) > 0 THEN NewEdge(I, p, q, weight(p, q))
                                             ELSE I,
                               H, Singletons(Len(blocks)))
    IN  FoldLeftDomain(join, Empty(Len(blocks)), blocks)

\* A mutable graph of which little is merged is copied and contracted set by set, a
\* static one of which little is left is a full mesh.
ContractInParallel(G, uf) ==
    LET blocks == Blocks(uf)
        n == Len(blocks)
    IN  IF call.graph = "mutable" /\ 6 * n > 5 * Len(G.vs)
        THEN ContractGraphVertexset(G, blocks, TRUE)
        ELSE IF call.graph = "static" /\ n * n <= Len(G.vs)
        THEN [g |-> FullMesh(G, blocks), part |-> [v \in DOMAIN uf |-> Block(uf, v)]]
        ELSE ContractGraphSparse(G, blocks, uf)

\* The search for all cuts contracts only if something is to be merged.
Merges(uf) == AllCuts => NumSets(uf) < Size

\* Mutant: the new weight is compared when it has been set already.
Contract_Unsaved(uf, next) ==
    /\ levels' = IF Merges(uf) THEN Coarser(levels, ContractInParallel(Coarsest, uf)) ELSE levels
    /\ mincut' = UpdateCut(levels', mincut)
    /\ inCut' = UpdateInCut(levels', mincut', inCut)
    /\ Begin(Last(levels').g, next, Singletons(Len(Last(levels').g.vs)))
    /\ Kept

\* fromUnionFind and updateCut; then the next parallel loop.
Contract(uf, next) ==
    /\ levels' = IF Merges(uf) THEN Coarser(levels, ContractInParallel(Coarsest, uf)) ELSE levels
    /\ mincut' = UpdateCut(levels', mincut)
    /\ inCut' = UpdateInCut(levels', mincut, inCut)
    /\ Begin(Last(levels').g, next, Singletons(Len(Last(levels').g.vs)))
    /\ Kept

ParInit == /\ Init
           /\ loop = IF call.algo = "cactus" THEN "cactus" ELSE "viecut"
           /\ sure = {} /\ rescan = FALSE
           /\ shared = Fresh(Size, <<>>) /\ th = [t \in Threads |-> Thread(Size, "idle")]
           /\ loose = FALSE

Parallel(l, at) ==
    call.algo \in {"inexact", "exact", "cactus", "known"} /\ loop = l /\ phase = at

PropagateInParallel ==
    /\ Parallel("viecut", "round") /\ call.algo = "inexact" /\ Coarsens
    /\ \E order \in Orders(Size) : Begin(Coarsest, "labels", order)
    /\ UNCHANGED <<call, input, levels, mincut, inCut, before, base, found, calls, loop, sure,
                   rescan>>

\* The clusters are contracted; findTrivialCuts, on unsigned numbers, finds nothing.
ContractClusters ==
    /\ Joined("labels")
    /\ Contract(RemapCluster(shared.labels), "tests12")
    /\ UNCHANGED <<before, found, loop, sure, rescan>>

ContractTests12 ==
    /\ Joined("tests12")
    /\ Contract(shared.uf, "tests34")
    /\ UNCHANGED <<before, found, loop, sure, rescan>>

\* When a lighter cut has appeared, guaranteed_edges is of no use.
ContractTests34 ==
    /\ Joined("tests34")
    /\ Contract(shared.uf, "round")
    /\ sure' = IF mincut' < found THEN {} ELSE sure
    /\ UNCHANGED <<before, found, loop, rescan>>

\* The rest is given to noi_minimum_cut.
InexactReturns ==
    /\ Parallel("viecut", "round") /\ call.algo = "inexact" /\ ~Coarsens
    /\ Return(IF Size = 1 THEN mincut ELSE Min({mincut, MinimumCut(Coarsest)}))
    /\ UNCHANGED sequential

\* The other programs begin with a cut that viecut has found.
CallViecut ==
    /\ Parallel("viecut", "round") /\ call.algo # "inexact"
    /\ \E S \in Sides(input) :
          /\ CutWeight(input, S) <= MinDegree(input)
          /\ mincut' = CutWeight(input, S) /\ found' = mincut' /\ inCut' = S
    /\ loop' = IF call.algo = "exact" THEN "exact" ELSE "cactus"
    /\ UNCHANGED <<levels, before, sure, rescan, shared, th, loose, phase>> /\ Kept

BeginExact ==
    /\ Parallel("exact", "round") /\ Size > 2 /\ mincut > 0
    /\ \E starts \in [Threads -> V] : BeginScan("scan", [t \in Threads |-> starts[t] :> 0])
    /\ UNCHANGED <<levels, mincut, inCut, before, found, loop, sure, rescan>> /\ Kept

\* The threads have merged nothing: one of them scans all of the graph.
ScanAgain ==
    /\ loop = "exact" /\ Scanned("scan") /\ NumSets(shared.uf) = Size
    /\ \E t \in Threads, v \in V :
          BeginScan("again", [s \in Threads |-> IF s = t THEN v :> 0 ELSE <<>>])
    /\ UNCHANGED <<levels, mincut, inCut, before, found, loop, sure, rescan>> /\ Kept

ScanEnds == Scanned("again") \/ (Scanned("scan") /\ NumSets(shared.uf) < Size)

ContractScan ==
    /\ loop = "exact" /\ ScanEnds /\ NumSets(shared.uf) > 1
    /\ Contract(shared.uf, "round")
    /\ UNCHANGED <<before, found, loop, sure, rescan>>

ExactReturns ==
    /\ \/ Parallel("exact", "round") /\ (Size <= 2 \/ mincut = 0)
       \/ loop = "exact" /\ ScanEnds /\ NumSets(shared.uf) = 1
    /\ Return(mincut)
    /\ UNCHANGED sequential

\* The graph must have become smaller by a hundredth.
BeginCactus ==
    /\ Parallel("cactus", "round") /\ 101 * Size < 100 * before
    /\ mincut' = UpdateCut(levels, mincut)
    /\ inCut' = UpdateInCut(levels, mincut, inCut)
    /\ found' = mincut' /\ before' = Size
    /\ \E starts \in [Threads -> V] : BeginScan("scan", [t \in Threads |-> starts[t] :> 0])
    /\ UNCHANGED <<levels, loop, sure, rescan>> /\ Kept

\* The vertices with one edge, which is a minimum cut, as long as fewer were found
\* than come before; they are merged with the end of the edge.
Guaranteed ==
    FoldLeftDomain(
        LAMBDA S, v : IF /\ Len(Coarsest.vs[v]) = 1 /\ Coarsest.vs[v][1].w = mincut
                         /\ Cardinality(S) + 1 < v - 1
                      THEN S \cup {v} ELSE S,
        {}, Coarsest.vs)

ContractCactus ==
    /\ loop = "cactus" /\ Scanned("scan")
    /\ LET join(uf, v) == Union(uf, v, Coarsest.vs[v][1].to)
       IN  Contract(FoldLeft(join, shared.uf, Ascending(Guaranteed)), "tests12")
    /\ sure' = sure \cup {{x \in DOMAIN input.vs : CoarseID(levels, x) = v} : v \in Guaranteed}
    /\ rescan' = TRUE
    /\ UNCHANGED <<before, found, loop>>

\* The rest is given to the exact algorithm, and to the search for all its cuts.
CactusReturns ==
    /\ Parallel("cactus", "round") /\ 101 * Size >= 100 * before
    /\ Return(IF Size > 1 THEN Min({mincut, MinimumCut(Coarsest)}) ELSE mincut)
    /\ UNCHANGED sequential

ThreadStep(t) ==
    \/ Take(t) \/ EndVertex(t) \/ LabelEdge(t) \/ Relabel(t)
    \/ HeavyEdge(t) \/ HalfEdge(t) \/ UniteHalf(t)
    \/ TriangleEdge(t) \/ TightEdge(t) \/ SwapSecond(t) \/ SumTriangles(t)
    \/ Pop(t) \/ Visit(t) \/ Enqueue(t) \/ EndEdges(t)

ParNext ==
    \/ NoiRound /\ UNCHANGED sequential
    \/ NoiReturns /\ UNCHANGED sequential
    \/ MatulaRound /\ UNCHANGED sequential
    \/ MatulaReturns /\ UNCHANGED sequential
    \/ PrTriangles /\ UNCHANGED sequential
    \/ PrHeavy /\ UNCHANGED sequential
    \/ PrReturns /\ UNCHANGED sequential
    \/ Propagate /\ UNCHANGED sequential
    \/ VcHeavy /\ UNCHANGED sequential
    \/ VcTriangles /\ UNCHANGED sequential
    \/ CallNoi /\ UNCHANGED sequential
    \/ VcReturns /\ UNCHANGED sequential
    \/ KsTry /\ UNCHANGED sequential
    \/ KsReturns /\ UNCHANGED sequential
    \/ KsSample /\ UNCHANGED sequential
    \/ KsNoi /\ UNCHANGED sequential
    \/ KsAnswer /\ UNCHANGED sequential
    \/ \E t \in Threads : Reached(t) \/ (ThreadStep(t) /\ UNCHANGED loose)
    \/ PropagateInParallel \/ ContractClusters \/ ContractTests12 \/ ContractTests34
    \/ InexactReturns \/ CallViecut
    \/ BeginExact \/ ScanAgain \/ ContractScan \/ ExactReturns
    \/ BeginCactus \/ ContractCactus \/ CactusReturns

ParSpec == ParInit /\ [][ParNext]_allVars

-----------------------------------------------------------------------------
\* Properties

LightestCut(G, value) == IF Len(G.vs) > 1 THEN Min({value, MinimumCut(G)}) ELSE value

\* What threads merge at a time, in a scan or in the tests of one cut, keeps a minimum
\* cut or has been seen to leave a lighter one: two of them never merge, each for a
\* reason of its own, both ends of what only one may merge.  That a cut may be lost at
\* all is due to the two reads of visited (exact_parallel_minimum_cut.h:221 and 226):
\* a vertex that another thread visits in between is counted, is not queued, and may be
\* united when it is reached again.  No other union of the threads loses a cut.
MergesKeepMinimum ==
    [][levels' # levels /\ phase \in {"tests12", "tests34", "scan", "again"} =>
          loose \/ LightestCut(Last(levels').g, mincut') = LightestCut(Coarsest, mincut)]_allVars

\* The loop of cactus loses no minimum cut of the input but those in guaranteed_edges,
\* unless a thread has united a vertex that it had not queued.
EveryMinimumCut ==
    ~loose /\ loop = "cactus" /\ phase \in {"round", "done"} /\ mincut = MinimumCut(input) =>
        \A S \in AllMinimumCuts(input) :
            \/ S \in sure \/ DOMAIN input.vs \ S \in sure
            \/ \A x \in S, y \in DOMAIN input.vs \ S : CoarseID(levels, x) # CoarseID(levels, y)

\* The programs answer the minimum cut, and the exact one has saved it if viecut
\* has not found it among coarser graphs; again unless such a vertex was united.
AnswersMinimum ==
    ~loose /\ phase = "done" /\ call.algo \in {"exact", "cactus", "known"} =>
        /\ mincut = MinimumCut(input)
        /\ loop = "exact" /\ (mincut < found \/ Len(input.vs) <= SmallGraph) =>
              inCut \in Sides(input) /\ CutWeight(input, inCut) = mincut
=============================================================================

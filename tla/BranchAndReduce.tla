--------------------------- MODULE BranchAndReduce ---------------------------
(***************************************************************************)
(* The search for a multiterminal cut by one worker thread, with what it   *)
(* does to the graphs (lib/algorithms/multicut/branch_multicut.h,          *)
(* kernelization_criteria.h and problem_management.h): a problem is taken  *)
(* from the queue, reduced by seven tests until none of them merges        *)
(* anything, and replaced by one problem for each terminal that a vertex   *)
(* may belong to, whose flows give a solution and a bound.  Meanwhile the  *)
(* main thread offers the solution of the flows of the input.              *)
(*                                                                         *)
(* MulticutSearch has several workers, with problems of which only the     *)
(* bounds are known; here are the problems, and one worker.                *)
(* An input is a connected graph g with at least three terminals orig.     *)
(***************************************************************************)
EXTENDS Reductions

CONSTANTS Inputs,             \* records [g, orig]
          RandomFlows,        \* the options random_flows
          HighDistanceFlows   \* and high_distance_flows

VARIABLES input,     \* what to solve
          queue,     \* the queued problems
          phase,     \* what the worker does next
          cur,       \* the problem that it works on, unless it looks for one
          size,      \* num_vtcs
          limit,     \* the bound that it has read, which limits the kernelization
          active, next,       \* names of the vertices in active_c and active_n
          uf, flows, \* of nonTerminalFlow: what is united and the flows done
          kids,      \* what the problem is replaced by, and is not yet in the queue
          offers,    \* findBestSolution of both threads
          best,      \* gub, beforeLSGUB and terminalGUB by number of terminals,
                     \* bestSolutionInitialized, last_sent_flow, and mpic's best_solution
          found,     \* history: the weights of the solutions offered, and of those of
                     \* the local search
          optimum    \* history: what is looked for

kernel == <<size, limit, active, next, uf, flows>>
vars == <<input, queue, phase, cur, kernel, kids, offers, best, found, optimum>>

Threads == {"worker", "main"}
Size(p) == Len(p.g.vs)
NumTerminals(p) == Len(Terminals(p))

-----------------------------------------------------------------------------
\* updateBestSolution and findBestSolution, without the mutex of the best solution,
\* which is not looked at here.

None == [stage |-> "none", prev |-> 0, ls |-> 0, k |-> 0, shares |-> FALSE]
OfferOf(sol, k, shares) ==
    [stage |-> "offer", prev |-> FlowValue(input.g, sol), ls |-> 0, k |-> k, shares |-> shares]

\* The worker begins to offer a solution; the program exits if it is not one.
Offer(sol, k, shares, to) ==
    IF ~IsSolution(input.orig, sol) THEN phase' = "exited" /\ UNCHANGED <<offers, found>>
    ELSE /\ offers' = [offers EXCEPT !["worker"] = OfferOf(sol, k, shares)]
         /\ found' = found \cup {FlowValue(input.g, sol)}
         /\ phase' = to

\* Thread t goes from one step to the next of findBestSolution.
Goes(t, from, to) ==
    /\ offers[t].stage = from
    /\ offers' = [offers EXCEPT ![t] = IF to = "none" THEN None ELSE [@ EXCEPT !.stage = to]]
Returned(t) == IF offers[t].shares THEN "share" ELSE "none"

Beforehand(t) ==
    LET o == offers[t]
    IN  /\ \/ Goes(t, "offer", IF o.prev > best.before[o.k] THEN "none" ELSE "compare")
           \/ Goes(t, "compare", IF o.prev < best.gub THEN "bound1" ELSE "search")
        /\ UNCHANGED <<best, found>>

SetBound(t) ==
    /\ \/ Goes(t, "bound1", "copy1") /\ best' = [best EXCEPT !.gub = offers[t].prev]
       \/ Goes(t, "bound2", "copy2") /\ best' = [best EXCEPT !.gub = offers[t].ls]
    /\ UNCHANGED found

CopySolution(t) ==
    /\ Goes(t, "copy1", "search") \/ Goes(t, "copy2", Returned(t))
    /\ best' = [best EXCEPT !.init = TRUE]
    /\ UNCHANGED found

\* The local search makes the solution one of any weight down to the optimum.
LocalSearch(t) ==
    /\ offers[t].stage = "search"
    /\ \E b \in optimum .. offers[t].prev :
        /\ offers' = [offers EXCEPT ![t].stage = IF b <= best.after[offers[t].k] THEN "after"
                                                 ELSE "again",
                                   ![t].ls = b]
        /\ found' = found \cup {b}
    /\ UNCHANGED best

Record(t) ==
    LET o == offers[t]
    IN  /\ \/ Goes(t, "after", "before") /\ best' = [best EXCEPT !.after[o.k] = o.ls]
           \/ Goes(t, "before", "again") /\ best' = [best EXCEPT !.before[o.k] = o.prev]
        /\ UNCHANGED found

\* A solution is kept that is better, or that comes before any other was stored.
AndAfterwards(t) ==
    /\ Goes(t, "again", IF offers[t].ls < best.gub \/ ~best.init THEN "bound2" ELSE "none")
    /\ UNCHANGED <<best, found>>

\* broadcastImprovedSolution, of which the compare-and-swap may fail
Told(v) == {best.told, Min({best.told, v})}

Share(t) ==
    /\ Goes(t, "share", "none")
    /\ IF best.sent > best.gub
       THEN \E v \in Told(offers[t].ls) : best' = [best EXCEPT !.sent = best.gub, !.told = v]
       ELSE UNCHANGED best
    /\ UNCHANGED found

OfferStep ==
    /\ phase # "exited"
    /\ \E t \in Threads :
        \/ Beforehand(t) \/ SetBound(t) \/ CopySolution(t) \/ LocalSearch(t) \/ Record(t)
        \/ AndAfterwards(t) \/ Share(t)
    /\ UNCHANGED <<input, queue, phase, cur, kernel, kids, optimum>>

\* What the worker does else waits for its offer.
Free == offers["worker"] = None

\* runLocalSearch
WorthOffering(p) == p.upper < best.before[NumTerminals(p)]

-----------------------------------------------------------------------------
\* find_multiterminal_cut
Root(in) ==
    MaximumIsolatingFlow([g |-> in.g, part |-> [v \in DOMAIN in.g.vs |-> 1],
                          map |-> [v \in DOMAIN in.g.vs |-> v], orig |-> in.orig,
                          lower |-> -1, upper |-> -1, deleted |-> 0])

\* The workers are started while the main thread begins to offer the first solution.
Init ==
    /\ input \in Inputs
    /\ optimum = MultiterminalCut(input.g, input.orig)
    /\ LET p == Root(input)
           unknown == SumFunction(input.g.deg)
           none == [k \in 0 .. Len(input.orig) |-> unknown]
           first == OfferOf(GetSolution(p), NumTerminals(p), TRUE)
       IN  /\ queue = {p} /\ cur = p
           /\ offers = [t \in Threads |-> IF t = "main" THEN first ELSE None]
           /\ best = [gub |-> p.upper, before |-> none, after |-> none, init |-> FALSE,
                      sent |-> unknown, told |-> unknown]
           /\ found = {first.prev}
    /\ phase = "poll" /\ kids = <<>>
    /\ size = 0 /\ limit = 0 /\ active = {} /\ next = {} /\ uf = <<>> /\ flows = 0

\* pollWork: a better bound is announced,
Poll ==
    /\ phase = "poll" /\ Free /\ queue # {} /\ phase' = "refresh"
    /\ IF best.sent > best.gub
       THEN \E v \in Told(best.gub) : best' = [best EXCEPT !.sent = best.gub, !.told = v]
       ELSE UNCHANGED best
    /\ UNCHANGED <<input, queue, cur, kernel, kids, offers, found, optimum>>

\* and updateBound computes the minimum of both bounds and stores it later.
Refresh ==
    /\ phase = "refresh" /\ phase' = "store"
    /\ limit' = Min({best.told, best.gub})
    /\ UNCHANGED <<input, queue, cur, size, active, next, uf, flows, kids, offers, best, found,
                   optimum>>
Store ==
    /\ phase = "store" /\ phase' = "pull"
    /\ best' = [best EXCEPT !.gub = limit]
    /\ UNCHANGED <<input, queue, cur, kernel, kids, offers, found, optimum>>

\* solveProblem until the kernelization; a problem may be dropped.
Pull ==
    /\ phase = "pull"
    /\ \E p \in queue :
        /\ queue' = queue \ {p}
        /\ IF p.lower >= best.gub THEN phase' = "poll" /\ UNCHANGED <<cur, kernel>>
           ELSE /\ cur' = Simplified(p) /\ phase' = "lowdeg" /\ size' = Size(p)
                /\ limit' = best.gub /\ active' = DOMAIN Simplified(p).g.pos /\ next' = {}
                /\ uf' = <<>> /\ flows' = 0
    /\ UNCHANGED <<input, kids, offers, best, found, optimum>>

-----------------------------------------------------------------------------
\* kernelization

\* A test in its turn, and the contraction of what it unites.
Reduce(from, to, sets) ==
    /\ phase = from /\ phase' = to
    /\ LET c == ContractIfImproved(cur, sets, next) IN cur' = c.p /\ next' = c.next
    /\ UNCHANGED <<input, queue, size, limit, active, flows, kids, offers, best, found, optimum>>

LowDegree == Reduce("lowdeg", "high_degree", LowDegreeContraction(cur)) /\ UNCHANGED uf
HighDegree ==
    Reduce("high_degree", "triangle", HighDegreeContraction(cur, active)) /\ UNCHANGED uf
Triangle == Reduce("triangle", "noi", TriangleDetection(cur, active)) /\ UNCHANGED uf
Noi ==
    /\ phase = "noi"
    /\ \E start \in DOMAIN cur.g.vs :
        Reduce("noi", "aps", Capforest(cur.g, NoiLimit(cur, limit), start))
    /\ UNCHANGED uf
ArticulationPoints == Reduce("aps", "equal_nbrhd", TerminalsOnBothSides(cur)) /\ UNCHANGED uf
EqualNeighborhoods ==
    /\ Reduce("equal_nbrhd", "flow", FindEqualNeighborhoods(cur, active))
    /\ uf' = Singletons(Size(cur'))

\* What is on the side of a vertex in a cut from the terminals is merged with it.
Unify(r) == uf' = FoldLeft(LAMBDA u, s : Union(u, s, r), uf, Ascending(FlowFrom(cur, r)))
MayBeBelow(r) == \E v \in DOMAIN uf : v # r /\ uf[v] = uf[r]

\* nonTerminalFlow, a flow at a time: first from any vertices, as the search for a
\* good one gives up, then from some of the last tenth, unless the vertex is no
\* longer the root of its set.
Flow ==
    /\ phase = "flow" /\ flows < RandomFlows + HighDistanceFlows
    /\ flows' = flows + 1
    /\ IF flows < RandomFlows THEN \E r \in DOMAIN uf : Unify(r)
       ELSE \/ \E r \in HighDistances(cur) : Unify(r) \/ (MayBeBelow(r) /\ UNCHANGED uf)
            \/ HighDistances(cur) = {} /\ UNCHANGED uf
    /\ UNCHANGED <<input, queue, phase, cur, size, limit, active, next, kids, offers, best,
                   found, optimum>>

FlowsDone ==
    /\ flows = RandomFlows + HighDistanceFlows
    /\ Reduce("flow", "again", uf) /\ UNCHANGED uf

\* Another round if this one has merged anything.
Again ==
    /\ phase = "again"
    /\ IF Size(cur) < size
       THEN /\ phase' = "lowdeg" /\ size' = Size(cur) /\ active' = next /\ next' = {}
            /\ uf' = <<>> /\ flows' = 0 /\ UNCHANGED limit
       ELSE phase' = "branch" /\ UNCHANGED kernel
    /\ UNCHANGED <<input, queue, cur, kids, offers, best, found, optimum>>

-----------------------------------------------------------------------------
\* branchOnEdge and multiBranch
Branch ==
    /\ phase = "branch"
    /\ LET p == DeleteTermEdges(cur)
           v == FindHeavyVertex(p)
           terminals == FindEdgeMultiBranch(p, v)
       IN  IF cur.deleted > best.gub THEN phase' = "poll" /\ UNCHANGED <<kids, offers, found>>
           ELSE IF p.g.m = 0
           THEN Offer(GetSolution(p), NumTerminals(p), TRUE, "poll") /\ UNCHANGED kids
           ELSE /\ phase' = "kids" /\ UNCHANGED <<offers, found>>
                /\ kids' = [i \in DOMAIN terminals |-> Child(p, v, terminals[i].to)]
    /\ UNCHANGED <<input, queue, cur, kernel, best, optimum>>

\* processNewProblem for the next one, c, of k terminals, of which p is made by
\* the flows
ProcessNewProblem(c, k, p, to) ==
    LET offer(q) == IF WorthOffering(q) THEN Offer(GetSolution(q), k, FALSE, to)
                    ELSE phase' = to /\ UNCHANGED <<offers, found>>
    IN  IF k < 2 /\ WorthOffering(c) THEN offer(c) /\ UNCHANGED queue
        ELSE IF k = 2 THEN offer(MaximumSTFlow(c)) /\ UNCHANGED queue
        ELSE IF p.g.m = 0 THEN offer([p EXCEPT !.upper = p.deleted]) /\ UNCHANGED queue
        ELSE IF p.lower < best.gub THEN offer(p) /\ queue' = queue \cup {p}
        ELSE phase' = to /\ UNCHANGED <<queue, offers, found>>

Process ==
    /\ phase = "kids" /\ Free /\ kids' = Tail(kids)
    /\ ProcessNewProblem(Head(kids), NumTerminals(Head(kids)),
                         DeleteTermEdges(MaximumIsolatingFlow(Head(kids))),
                         IF Len(kids) = 1 THEN "poll" ELSE "kids")
    /\ UNCHANGED <<input, cur, kernel, best, optimum>>

Terminated ==
    /\ phase = "exited" \/ (phase = "poll" /\ queue = {} /\ \A t \in Threads : offers[t] = None)
    /\ UNCHANGED vars

Next ==
    \/ OfferStep \/ Poll \/ Refresh \/ Store \/ Pull
    \/ LowDegree \/ HighDegree \/ Triangle \/ Noi \/ ArticulationPoints
    \/ EqualNeighborhoods \/ Flow \/ FlowsDone \/ Again
    \/ Branch \/ Process \/ Terminated

Spec == Init /\ [][Next]_vars

-----------------------------------------------------------------------------
Open ==
    queue \cup Range(kids) \cup
    (IF phase \in {"poll", "refresh", "store", "pull", "kids", "exited"} THEN {} ELSE {cur})

\* The optimum is never lost: a solution of that weight was found, or can still be
\* found in a problem that is queued, in work or about to be looked at, through all
\* merges of the tests, the cuts and contractions of branching and the problems that
\* are dropped for their bounds, which may be those of long ago and may rise while
\* the main thread stores the first solution (kernelization_criteria.h,
\* problem_management.h, branch_multicut.h).
KeepsOptimum ==
    phase # "exited" =>
        optimum = Min(found \cup {Opt(p) : p \in {q \in Open : ~Merged(q)}})

\* The bounds of a queued problem, which decide whether it is dropped and in which
\* order problems are solved, are bounds of what can be found in it, as it is after
\* the contraction of its isolating cuts and the deletion of edges between its
\* terminals (maximum_flow.h, graph_contraction.h).
BoundsHold ==
    \A p \in queue : ~Merged(p) => p.lower <= Opt(p) /\ Opt(p) <= p.upper
=============================================================================

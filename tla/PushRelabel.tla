------------------------------- MODULE PushRelabel -------------------------------
(***************************************************************************)
(* Maximum flow from one terminal to the others                            *)
(* (lib/algorithms/flow/push_relabel.h): highest label push-relabel with   *)
(* global relabelling and the gap heuristic.  Vertices of a queue are      *)
(* discharged one after the other; the queue is the maximum heap of        *)
(* PriorityQueues, whose keys are the labels at the time of the insertion. *)
(* The limited variant of the dynamic minimum cut starts from labels that  *)
(* a search of bounded depth gives, prefers low labels and stops when the  *)
(* flow reaches a limit.  The edges of a vertex are read in any order.     *)
(***************************************************************************)
EXTENDS Integers, FiniteSets, Functions

CONSTANTS
    Problems,  \* calls: [n, cap, src, sinks, limited, limit, depth], cap[u][v] the
               \* weight between u and v, 0 without an edge; depth is
               \* depthOfPartialRelabeling
    Work       \* GLOBAL_UPDATE_FRQ in percent

NodesOf(p) == 1 .. p.n

ASSUME WorkAssumption == Work \in Nat
ASSUME ProblemsAssumption ==
    \A p \in Problems :
        /\ p.n \in Nat \ {0} /\ p.limit \in Nat /\ p.depth \in Nat /\ p.limited \in BOOLEAN
        /\ p.cap \in [NodesOf(p) -> [NodesOf(p) -> Nat]]
        /\ \A u, v \in NodesOf(p) : p.cap[u][v] = p.cap[v][u]
        /\ \A u \in NodesOf(p) : p.cap[u][u] = 0
        /\ p.src \in NodesOf(p)
        /\ p.sinks \subseteq NodesOf(p) \ {p.src}
        /\ p.depth < p.n     \* m_count has only 2n places

VARIABLES
    call,      \* the arguments
    flow,      \* getEdgeFlow from each vertex to each other one
    excess,    \* m_excess
    dist,      \* m_distance
    count,     \* m_count: how many vertices have which label
    queue,     \* m_Q: its vertices and their keys
    work,      \* m_work
    reached,   \* m_limitreached
    pc,
    at,        \* the vertex that is discharged, and its edges not read yet
    search     \* of global_relabeling: the vertices touched (m_bfstouched), those in its
               \* queue, their distance to a sink, and where it stops

state == <<flow, excess, dist, count, queue, work, reached>>
vars == <<call, state, pc, at, search>>

Nodes == NodesOf(call)
Terminals == call.sinks \cup {call.src}
Neighbors(u) == {v \in Nodes : call.cap[u][v] > 0}
Residual(f, u, v) == call.cap[u][v] - f[u][v]

Least(a, b) == IF a < b THEN a ELSE b
Greatest(a, b) == IF a > b THEN a ELSE b

HowMany(d, k) == Cardinality({v \in DOMAIN d : d[v] = k})

\* Every change of m_distance but two is counted.
Counted(c, d, e) == [k \in DOMAIN c |-> c[k] + HowMany(e, k) - HowMany(d, k)]

-----------------------------------------------------------------------------
\* init and the start of global_relabeling<true>: the source has filled all its
\* edges.  The limited variant searches down to a depth and counts all vertices
\* but the source under the label behind it; the other gives them n, but leaves
\* them counted under 0.
StartLabel(p) == IF p.limited THEN p.depth + 1 ELSE p.n

StartCount(p) ==
    LET filled == IF p.limited THEN p.depth + 1 ELSE 0
        sunk == IF p.limited THEN p.depth + 1 ELSE p.n
        sinks == Cardinality(p.sinks)
    IN  [k \in 0 .. 2 * p.n - 1 |->
            (IF k = filled THEN p.n - 1 ELSE IF k = p.n THEN 1 ELSE 0)
                + (IF k = 0 THEN sinks ELSE 0) - (IF k = sunk THEN sinks ELSE 0)]

Init ==
    /\ call \in Problems
    /\ flow = [u \in Nodes |-> [v \in Nodes |->
                  IF u = call.src THEN call.cap[u][v] ELSE IF v = call.src THEN -call.cap[u][v] ELSE 0]]
    /\ excess = [v \in Nodes |-> call.cap[call.src][v]]
    /\ queue = [v \in Neighbors(call.src) \ Terminals |-> 0]
    /\ reached = (call.limited /\ \E s \in call.sinks \cap Neighbors(call.src) :
                                      call.cap[call.src][s] >= call.limit)
    /\ dist = [v \in Nodes |-> IF v = call.src THEN call.n
                               ELSE IF v \in call.sinks THEN 0 ELSE StartLabel(call)]
    /\ count = StartCount(call)
    /\ work = 0
    /\ pc = "search"
    /\ at = [node |-> call.src, edges |-> {}]
    /\ search = [touched |-> Terminals, open |-> call.sinks, level |-> 0,
                 far |-> IF call.limited THEN call.depth ELSE call.n]

-----------------------------------------------------------------------------
\* The main loop

\* Stands for 2^32, the range of a key of the queue; distances are far below it.
KeyRange == 2^16

\* enqueue every vertex of S that has excess and is not in the queue; terminals
\* never enter it (their m_active is set).  The limited variant negates the distance
\* for a queue of minima, but keys are unsigned: distance 0 stays the least key.
Enqueued(Q, S, x, d) ==
    LET new == {v \in S \ (DOMAIN Q \cup Terminals) : x[v] > 0}
    IN  [v \in DOMAIN Q \cup new |->
            IF v \in new THEN IF call.limited THEN (-d[v]) % KeyRange ELSE d[v] ELSE Q[v]]

Take ==
    /\ pc = "next"
    /\ \E v \in DOMAIN queue :
          /\ \A u \in DOMAIN queue : queue[u] <= queue[v]
          /\ queue' = Restrict(queue, DOMAIN queue \ {v})
          /\ at' = [node |-> v, edges |-> Neighbors(v)]
    /\ pc' = "discharge"
    /\ UNCHANGED <<call, flow, excess, dist, count, work, reached, search>>

\* Mutant: flow is also pushed between equal labels.
Push_Level ==
    /\ pc = "discharge" /\ excess[at.node] > 0
    /\ \E t \in at.edges :
          LET s == at.node
              amount == IF dist[s] < dist[t] THEN 0
                        ELSE Least(Residual(flow, s, t), excess[s])
          IN  /\ at' = [at EXCEPT !.edges = @ \ {t}]
              /\ flow' = [flow EXCEPT ![s][t] = @ + amount, ![t][s] = @ - amount]
              /\ excess' = [excess EXCEPT ![s] = @ - amount, ![t] = @ + amount]
              /\ reached' = (reached \/ (call.limited /\ amount > 0 /\ t \in call.sinks
                                                  /\ excess'[t] >= call.limit))
              /\ queue' = IF amount = 0 THEN queue ELSE Enqueued(queue, {t}, excess', dist)
    /\ UNCHANGED <<call, dist, count, work, pc, search>>

\* push along the next edge, which does nothing uphill or when the edge is full.
Push ==
    /\ pc = "discharge" /\ excess[at.node] > 0
    /\ \E t \in at.edges :
          LET s == at.node
              amount == IF dist[s] <= dist[t] THEN 0
                        ELSE Least(Residual(flow, s, t), excess[s])
          IN  /\ at' = [at EXCEPT !.edges = @ \ {t}]
              /\ flow' = [flow EXCEPT ![s][t] = @ + amount, ![t][s] = @ - amount]
              /\ excess' = [excess EXCEPT ![s] = @ - amount, ![t] = @ + amount]
              /\ reached' = (reached \/ (call.limited /\ amount > 0 /\ t \in call.sinks
                                                  /\ excess'[t] >= call.limit))
              /\ queue' = IF amount = 0 THEN queue ELSE Enqueued(queue, {t}, excess', dist)
    /\ UNCHANGED <<call, dist, count, work, pc, search>>

Drained ==
    /\ pc = "discharge" /\ excess[at.node] = 0
    /\ pc' = "discharged"
    /\ UNCHANGED <<call, state, at, search>>

Gap == count[dist[at.node]] = 1 /\ dist[at.node] < call.n

\* Mutant: only vertices above the gap are raised.
GapHeuristic_Above ==
    /\ pc = "discharge" /\ at.edges = {} /\ excess[at.node] > 0
    /\ Gap
    /\ LET above == {v \in Nodes : dist[v] > dist[at.node]}
           raised == [v \in Nodes |-> IF v \in above THEN Greatest(dist[v], call.n) ELSE dist[v]]
       IN  /\ dist' = raised
           /\ count' = Counted(count, dist, raised)
           /\ queue' = Enqueued(queue, above, excess, raised)
    /\ pc' = "discharged"
    /\ UNCHANGED <<call, flow, excess, work, reached, at, search>>

\* No vertex is left on the level once this one rises, so that all vertices
\* above it cannot reach a sink.
GapHeuristic ==
    /\ pc = "discharge" /\ at.edges = {} /\ excess[at.node] > 0
    /\ Gap
    /\ LET above == {v \in Nodes : dist[v] >= dist[at.node]}
           raised == [v \in Nodes |-> IF v \in above THEN Greatest(dist[v], call.n) ELSE dist[v]]
       IN  /\ dist' = raised
           /\ count' = Counted(count, dist, raised)
           /\ queue' = Enqueued(queue, above, excess, raised)
    /\ pc' = "discharged"
    /\ UNCHANGED <<call, flow, excess, work, reached, at, search>>

\* Mutant: the vertex is not counted under its new label.
Relabel_Uncounted ==
    /\ pc = "discharge" /\ at.edges = {} /\ excess[at.node] > 0
    /\ ~Gap
    /\ LET v == at.node
           labels == {dist[t] + 1 : t \in {u \in Neighbors(v) : Residual(flow, v, u) > 0}}
                        \cup {2 * call.n}
           raised == [dist EXCEPT ![v] = CHOOSE k \in labels : \A j \in labels : k <= j]
       IN  /\ dist' = raised
           /\ count' = [count EXCEPT ![dist[v]] = @ - 1]
           /\ queue' = Enqueued(queue, {v}, excess, raised)
           /\ work' = work + 9 + Cardinality(Neighbors(v))
    /\ pc' = "discharged"
    /\ UNCHANGED <<call, flow, excess, reached, at, search>>

Relabel ==
    /\ pc = "discharge" /\ at.edges = {} /\ excess[at.node] > 0
    /\ ~Gap
    /\ LET v == at.node
           labels == {dist[t] + 1 : t \in {u \in Neighbors(v) : Residual(flow, v, u) > 0}}
                        \cup {2 * call.n}
           raised == [dist EXCEPT ![v] = CHOOSE k \in labels : \A j \in labels : k <= j]
       IN  /\ dist' = raised
           /\ count' = Counted(count, dist, raised)
           /\ queue' = Enqueued(queue, {v}, excess, raised)
           /\ work' = work + 9 + Cardinality(Neighbors(v))
    /\ pc' = "discharged"
    /\ UNCHANGED <<call, flow, excess, reached, at, search>>

ReturnLimit ==
    /\ pc = "discharged" /\ reached
    /\ pc' = "limited"
    /\ UNCHANGED <<call, state, at, search>>

EdgeNumber == Cardinality({e \in Nodes \X Nodes : e[2] \in Neighbors(e[1])})

WorkIsDone == 100 * work <= Work * (4 * call.n + EdgeNumber)

\* Labels rise to n at least before the search, but stay counted where they were.
GlobalRelabeling ==
    /\ pc = "discharged" /\ ~reached /\ ~WorkIsDone
    /\ dist' = [v \in Nodes |-> IF v = call.src THEN call.n
                                ELSE IF v \in call.sinks THEN 0 ELSE Greatest(dist[v], call.n)]
    /\ count' = [count EXCEPT ![call.n] = @ - Cardinality(call.sinks),
                              ![0] = @ + Cardinality(call.sinks)]
    /\ search' = [touched |-> Terminals, open |-> call.sinks, level |-> 0, far |-> call.n]
    /\ work' = 0
    /\ pc' = "search"
    /\ UNCHANGED <<call, flow, excess, queue, reached, at>>

\* Breadth first search against the residual edges: the next level.
Search ==
    /\ pc = "search" /\ search.open # {} /\ search.level < search.far
    /\ LET found == {t \in Nodes \ search.touched :
                        \E u \in search.open : Residual(flow, t, u) > 0}
           labels == [v \in Nodes |-> IF v \in found THEN search.level + 1 ELSE dist[v]]
       IN  /\ dist' = labels
           /\ count' = Counted(count, dist, labels)
           /\ search' = [search EXCEPT !.touched = @ \cup found, !.open = found, !.level = @ + 1]
    /\ UNCHANGED <<call, flow, excess, queue, work, reached, pc, at>>

SearchEnds ==
    /\ pc = "search" /\ (search.open = {} \/ search.level = search.far)
    /\ pc' = "next"
    /\ UNCHANGED <<call, state, at, search>>

NextVertex ==
    /\ pc = "discharged" /\ ~reached /\ WorkIsDone
    /\ pc' = "next"
    /\ UNCHANGED <<call, state, at, search>>

-----------------------------------------------------------------------------
\* The result

\* What a search reaches from S when next gives the vertices that each one leads to:
\* what is in every set that has S and is closed under next.
Reachable(S, next) ==
    {v \in Nodes : \A R \in SUBSET Nodes : (S \subseteq R /\ \A u \in R : next[u] \subseteq R)
                                                => v \in R}

\* Mutant: the search from the sinks follows edges forwards.
SourceSet_Forwards ==
    LET behind == Reachable(call.sinks,
                            [u \in Nodes |-> {t \in Nodes : Residual(flow, u, t) > 0}])
    IN  Reachable({call.src}, [u \in Nodes |-> Neighbors(u) \ behind])

\* computeSourceSet: what the source is connected to without the vertices that
\* can still reach a sink.
SourceSet ==
    LET behind == Reachable(call.sinks,
                            [u \in Nodes |-> {t \in Nodes : Residual(flow, t, u) > 0}])
    IN  Reachable({call.src}, [u \in Nodes |-> Neighbors(u) \ behind])

TotalFlow == SumFunctionOnSet(excess, call.sinks)

Return ==
    /\ pc = "next" /\ DOMAIN queue = {}
    /\ pc' = "returned"
    /\ UNCHANGED <<call, state, at, search>>

Next ==
    \/ Take \/ Push \/ Drained \/ GapHeuristic \/ Relabel
    \/ NextVertex \/ GlobalRelabeling \/ Search \/ SearchEnds
    \/ ReturnLimit \/ Return

Spec == Init /\ [][Next]_vars /\ WF_vars(Next)

-----------------------------------------------------------------------------
\* Properties

\* A preflow of which no excess is forgotten: flows respect capacities in both
\* directions, and a vertex that has excess is a terminal, in the queue, or the one
\* that is being discharged.  The marks m_active, the early ends of the push loop and
\* the gap heuristic, which queues many vertices at once, could each strand it.
Capacities == \A u, v \in Nodes : flow[u][v] = -flow[v][u] /\ flow[u][v] <= call.cap[u][v]
NoneStranded ==
    \A v \in Nodes \ Terminals :
        excess[v] > 0 => v \in DOMAIN queue \/ (pc = "discharge" /\ v = at.node)
Preflow == Capacities /\ NoneStranded

\* Labels are lower bounds of distances in the residual graph, whatever of push,
\* relabel, gap heuristic and global relabelling changed flow or labels; no level
\* between 1 and n is counted empty that is not, although the counters drift at
\* each global relabelling: the gap heuristic would otherwise cut off vertices
\* that still reach a sink; and no label leaves m_count, since what has excess
\* can always send it back to the source.
Labelled ==
    /\ dist[call.src] = call.n /\ \A s \in call.sinks : dist[s] = 0
    /\ pc # "search" =>
          \A u, v \in Nodes : Residual(flow, u, v) > 0 => dist[u] <= dist[v] + 1
    /\ \A k \in 1 .. call.n - 1 : HowMany(dist, k) <= count[k]
    /\ \A v \in Nodes : dist[v] < 2 * call.n

Boundary(S) ==
    SumFunction([e \in S \X (Nodes \ S) |-> call.cap[e[1]][e[2]]])
Cuts == {S \in SUBSET Nodes : call.src \in S /\ S \cap call.sinks = {}}
MinimumCuts == {S \in Cuts : \A T \in Cuts : Boundary(S) <= Boundary(T)}

\* What is returned is a flow, its value that of a minimum cut between the source and
\* the other terminals, and the source set is such a cut, the largest of those that
\* the source is connected to; a limit is returned only when the minimum cut is
\* not smaller.
Inflow(v) == SumFunction([u \in Nodes |-> flow[u][v]])
ReturnsMinCut ==
    /\ pc = "returned" =>
          /\ \A v \in Nodes \ {call.src} :
                excess[v] = Inflow(v) /\ (v \notin call.sinks => excess[v] = 0)
          /\ SourceSet \in MinimumCuts
          /\ TotalFlow = Boundary(SourceSet)
          /\ \A S \in MinimumCuts :
                Reachable({call.src}, [u \in Nodes |-> Neighbors(u) \cap S]) \subseteq SourceSet
    /\ pc = "limited" => \A S \in Cuts : Boundary(S) >= call.limit

\* The loop ends: labels only rise, up to the bound, however pushes go back and forth.
FlowEnds == <>(pc \in {"returned", "limited"})
=============================================================================

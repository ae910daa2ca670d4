# TLA+ models of VieCut

VieCut is a C++ library of minimum cut algorithms: global minimum cuts, cactuses
of all minimum cuts, and minimum multiterminal cuts, each with a shared-memory
parallel version and the last one also with MPI.  This directory holds
specifications of its parts, configurations that check them with TLC, and proofs
that TLAPS checks.  All paths below are relative to the root of the repository.

## 1. The system and its parts

| part | where | state | operations | what makes it correct |
|---|---|---|---|---|
| parallel union-find | `lib/parallel/data_structure/union_find.h` | parent and rank arrays shared by OpenMP threads, no lock | Union, SameSet, Find, n | never joins what nobody united; loses no union that is needed; calls return |
| queue of subproblems | `lib/algorithms/multicut/problem_queues/per_thread_problem_queue.h` | a priority queue and a counter per worker, a slot for the problem to hand on, two kinds of mutex | addProblem, pullProblem, prepareQueue, sizes | a bag: nothing lost, duplicated or null; counters agree with the queues; no deadlock |
| branch and reduce | `lib/algorithms/multicut/{branch_multicut,problem_management}.h` | idle counter, finish flag, incumbent bound and solution, local-search bounds per number of terminals | pollWork, solveProblem, branch, processNewProblem, findBestSolution, waitForProblem | no subproblem that may hold the optimum is cut off; the search ends only when nothing is open; the bound and the solution belong together |
| distribution over ranks | `lib/algorithms/multicut/mpi_communication.h`, `branch_multicut.h` | messages with tags 3000, 4000, 1010, 1020, 15123 | checkForReceiver, waitForProblem, sendProblem, broadcastImprovedSolution | a problem sent is received; ranks stop together and only when all are empty |
| reductions | `lib/algorithms/multicut/{kernelization_criteria,graph_contraction,edge_selection,local_search,maximum_flow,measurements}.h` | the graph and terminals of one subproblem | contract, delete, flows between terminals, local moves | lower bound <= optimum <= upper bound of the subproblem |
| flows | `lib/algorithms/flow/` | labels, excesses, a queue of active vertices | push, relabel, global relabelling, gap heuristic | labelling valid, preflow, value of flow = value of cut |
| global cuts | `lib/algorithms/global_mincut/` | a chain of contracted graphs, the lightest cut seen and its side | NOI, VieCut, Padberg-Rinaldi, Matula, Karger-Stein | the value returned is that of a cut, and the minimum for the exact ones; the saved side is that cut |
| parallel cuts | `lib/parallel/algorithm/`, `lib/parallel/coarsening/` | visited and contracted marks shared by threads, a queue and connectivities per thread, the parallel union-find | parallel_modified_capforest, prTests12, prTests34, propagate_labels, the loops of the programs | what threads merge keeps a minimum cut, for the cactus all of them |
| cactus | `lib/algorithms/global_mincut/cactus/` | a graph, its contracted vertices, vertices set aside | recursive cactus, heavy edges, merging of cacti, balanced cut | every minimum cut is represented, and nothing else |
| dynamic cut | `lib/algorithms/global_mincut/dynamic/` | graph, cactus, cached cactuses of other cuts | addEdge, removeEdge | the cut is the minimum after each update |
| coarsening | `lib/coarsening/` | cluster mapping, partition indices | label propagation, contraction tests, contraction | every cut of the coarse graph is one of the fine graph |
| graphs | `lib/data_structure/` | adjacency arrays, reverse edges, contained vertices | build, contract, delete, serialize | each edge and its reverse point at each other; each vertex is contained in one place |
| priority queues | `lib/data_structure/priority_queues/` | buckets or heaps with positions | insert, increaseKey, deleteMax | deleteMax returns the maximum; the index finds every element |
| helpers | `lib/algorithms/misc/`, `lib/io/`, `lib/tools/`, `app/` | none to speak of | components, bridges, cores, reading files, command lines | functions of their input |

Where parts meet: the OpenMP threads of the exact parallel cut and of the
contraction tests call the union-find at the same time.  All global algorithms
are loops of tests and contractions over one chain of graphs; the cactus takes
what is left of that chain, splits it by flows, and the dynamic cut edits the
cactus.  The worker threads of branch and reduce share one `problem_management`,
which owns the queue and the incumbent; a worker takes a subproblem, reduces it by
flows and contractions on its own copy of the graph, branches, and puts the
children into its own queue or that of another worker, whom it wakes by a
condition variable.  Thread 0 of each rank also answers requests of other ranks.

## 2. The modules

Which module stands on which:

    AdjacencyArrays           <- MutableGraph  (implements ContractedGraph)
                                              <- AdjacencyArraysProofs <- MutableGraphProofs
      ContractionTests <- Coarsening <- GlobalMincut <- ParallelMincut
                                     <- RecursiveCactus, CactusGraphs, StrongComponents, BalancedCut
                                                     <- CactusMincut <- DynamicMincut
    PriorityQueues            (implements MaxQueue)
    PushRelabel               <- PushRelabelProofs (uses FiniteSums)
    ParallelUnionFind         <- ParallelUnionFindProofs
    ProblemQueue              <- ProblemQueueProofs
    MulticutSearch            <- MulticutSearchProofs
    MulticutRanks             <- MulticutRanksProofs
    Coarsening                <- Reductions <- BranchAndReduce

The `MC` modules give the instances for TLC.  Names of the form `Action_Word` are
faulty variants of a definition, each with a comment that says what is wrong; no
run uses them as they stand.

### ParallelUnionFind

One step per load and per compare-and-swap of the four functions.  `parent` and
`rank` are the arrays; `lhs`, `rhs`, `rl`, `rr`, `elem`, `next` are the locals of
the same role, `seen` is the word a thread loaded last, and `call` says which call
of `Find` or `UpdateRoot` is running.  The client is the parallel loop: each pair of
`Ops` is taken by one idle thread that calls `Union`, or `SameSet` and then
`Union`.

### ProblemQueue

One step per access to words that other threads may touch; what is done while a
mutex protects it is one step.  A mutex knows who took it, but `unlock` frees it
for whoever calls, as the double unlock in `addProblem` does: for the C++ standard
this is undefined, and freeing is what the futex of the usual implementation does.
The counters `sizes[i].first` and the flags `sizes[i].second` are `size` and
`busy`, the fields about `sendProblem` are `send`, `haveSend`, `sendWeight`.  The
queues are sequences in the order of insertion and `top` is any problem that is
minimal for `Key`, which stands for the comparison chosen by `queue_type`.  The
clients add each problem once and pull and prepare at most `Calls` times per thread.

### MulticutSearch

`pollWork`, `solveProblem`, `multiBranch`, `singleBranch`, `processNewProblem`,
`findBestSolution`, `updateBestSolution`, `updateBound` and the idle protocol, by `T`
workers and the main thread, which offers the cut of the root's flows after it started the
workers.  The search tree is a constant: `Children`, the bounds `LB` and `Value`
that flows and kernelization compute, `Polished` for the value after local search,
and `Direct` for the children that are solved without being queued.
`BoundsAssumption` is what that graph work promises (no cut below a problem is
lighter than its lower bound).  `gub`, `best`, `before`, `after`, `lastSent`,
`mpiBest`, `idle`, `finished` are `global_upper_bound`, the value of
`best_solution`, `beforeLSGUB`, `terminalGUB`, `last_sent_flow`, the
`best_solution` of `mpi_communication`, `idle_threads` and `is_finished`.  No lock
covers these words, so each read and each write of them is a step; calls of the
queue are single steps here, as ProblemQueue has their interior, and `slot` is
`sendProblem`.  `found` is a history of the cuts computed so far, for the
properties.

### MulticutRanks

The same search seen from outside: `M` ranks with one worker each.  Status
messages (tag 3000), problems (1010 and 1020), bounds (15123) and reports (4000)
are sequences per pair of ranks, because MPI keeps the order of messages of one
sender with one tag and promises nothing else; a receive from `MPI_ANY_SOURCE`
takes the first message of any sender, and a probe may miss one.  Sends are
eager: they never wait for the receiver.  A non-blocking send of a bound reads its
variable at any time until the message is received (`TakeBound`).  `pc` follows
`pollWork` and `waitForProblem`; `peer` is `src` of `waitForProblem`, or the rank
that `checkForReceiver` found; `done` is `mpi_done`.

On rank 0 the main thread offers the cut of the root's flows while the worker is at
work already (`branch_multicut.h:119-121`).  What the two share, and what other ranks
send, is read and written word by word as in MulticutSearch: `job` says for each thread where it is in
`findBestSolution`, `updateBestSolution`, `broadcastImprovedSolution` or `updateBound`,
with which cut, and what it has read.  So the bound may rise, by a value that
was read before or by `|| !bestSolutionInitialized`.  `found` is the history of the cuts
computed so far, and `raced` says whether the worker of rank 0 began before the main thread was done
with its offer.  Only `prepareQueue` prunes with one value of the bound.  A child that is sent keeps the bound of
its parent in the code until its flows are computed; the model gives it its own at once.

### AdjacencyArrays, MutableGraph and ContractedGraph

`AdjacencyArrays` has the methods of `mutable_graph` as operators from graph to
graph, with their loops as folds in the order of the arrays: `vs`, `deg`, `m`,
`last`, `cont`, `pos` are `vertices`, `weighted_degree`, `num_edges`, `last_node`,
`contained_in_this`, `current_position`.  Every other module about cuts works on
these objects.  Indices start at 1.  Where the code reads an element that was
removed just before (the target of a contraction is the last vertex), that vector was
moved onto itself and is empty, so nothing is done.

`MutableGraph` holds one object in `g`, and an action calls one method with any
arguments that its callers may give: graphs have no parallel edges, the
sparse contraction without an edge is for vertices that are not adjacent, and deleted
vertices come back in the reverse order (`heavy_edges`), for which `removed` is
the caller's stack.  The set given to `contractVertexSet` is a hash table, so its
elements come in any order.  Contained vertices are sets: only the
first of them is ever looked at by a caller, as a name for all.

`ContractedGraph` is what callers rely on: blocks of original vertices, weights
between them, and what merging, cutting, deleting and inserting do to these.  The
property `IsContracted` says that MutableGraph implements it, where a vertex stands for
what it contains and an edge for the pair of its ends.  `simplify` names the
vertices anew, which is the action `Rename`.

### PriorityQueues and MaxQueue

The heap, the bucket queue and the first-in bucket queue, one object `q` of the
chosen `kind` and one action per method.  `MaxQueue` is what callers rely on, and
`IsMaxQueue` says that each of them implements it, with the keys read through the
index.

### PushRelabel

One call of `solve_max_flow_min_cut`, in both variants.  `discharge` is split: a step
takes a vertex from the heap, a step pushes along one edge, a step relabels or
closes a gap.  `global_relabeling` advances by one level of its breadth first search per step.
`flow[u][v]` is what `getEdgeFlow` gives, `count` and `dist` are `m_count` and
`m_distance`; `count` drifts in the code, since `global_relabeling` raises
labels without counting them, and it drifts in the model.  Edges of a
vertex are read in any order.  The variant with a limit orders its heap by `-m_distance` in an unsigned
type, so that label 0 comes last; `KeyRange` is 2^16 for 2^32.  `SourceSet` is `computeSourceSet`.

### ContractionTests and Coarsening

Operators for the CAPFOREST scan (`Capforest`, with the first-in buckets as sequences), the
tests of Padberg and Rinaldi, those of the cactus, and contraction by a
union-find structure, which is here the partition that it stands for.  A *level* is a
graph with the partition index of its vertices in the next one; `CoarseID`,
`UpdateCut` and `UpdateInCut` follow a vertex and a cut through all levels.

### GlobalMincut and ParallelMincut

One call of one of the algorithms.  In GlobalMincut a step is one round of the loop or
one of its contractions; a scan starts at any vertex, label propagation goes through
the vertices in any order of `Orders` and decides ties either way, and Karger and Stein's
samples are any that the code can draw.  The recursion of the latter is a stack in
`calls`.  A contraction of a static graph makes a new level; one of a mutable
graph may change the level itself (`InPlace`), which is why not every saved cut can be trusted (section 4).

In ParallelMincut the threads of a parallel loop make the steps: each takes the next
vertex, reads or writes one mark, sets one label, or unites two sets, and in
the scan takes one vertex, visits it, or sees one edge.  `shared` has the marks, labels
and sets, `th` what each thread has for itself.  The programs `inexact`, `exact` and
`cactus` are those of the parallel build, the last with `guaranteed_edges` in `sure`; `known` is
the loop of the cactus program in the same build for a caller that knows the minimum cut.
The scan reads the visited mark of a neighbour twice, as the code does at lines 221 and 226 of
`exact_parallel_minimum_cut.h`: `Reached` counts the edge, and `Enqueue` queues the vertex only
if nobody has marked it since.  `loose` is a history: whether a thread has united its
vertex with one that it had counted and not queued.

### CactusGraphs, RecursiveCactus, StrongComponents, BalancedCut, CactusMincut

`CactusMincut` is `findAllMincuts`: rounds of contraction, the recursion, the location
of all vertices, and the most balanced cut.  The recursion is a stack of calls;
`EnterCall`, `ReduceGraph`, `FlowStep`, `EnterComponent` and `ReturnCactus` are its
steps, on operators of `RecursiveCactus` (selection of an edge, split by strong
components) and `CactusGraphs` (heavy edges and cycles set aside and put back, merging,
canonical form).  A graph that reaches one of the code's `exit(1)` carries
`exited`, and the phase becomes `"failed"`.  Flows are the ones found by augmenting
paths; the components of the residual graph do not depend on which largest flow it is,
and that `push_relabel` finds one is what PushRelabel is about.  `BalancedCut` is
the depth-first search with the weights of subtrees.

### DynamicMincut

`addEdge` and `removeEdge` after CactusMincut has built the first cactus.  `num`,
`lowest` and `cached` are the cache.  `strayed` is a history: whether an insertion was replayed
on a cached cactus along another path than cuts of its weight call for.  An update that needs a new cactus runs all of
CactusMincut again.

### Reductions and BranchAndReduce

`Reductions` has, as operators from subproblem to subproblem, the tests of
`kernelization_criteria.h` (leaves and vertices of two edges, heavy edges, triangles, articulation
points, equal neighbourhoods; the scan is `Capforest`), the flows of `maximum_flow.h` with the
bounds that they give, deletion of edges between terminals, the choice of a vertex to
branch on and the children.  A test returns the sets that it unites and
`ContractIfImproved` merges them, by names, in the order of the code.  `part` is the
partition index of each vertex, from which a solution is read; merging keeps that of
the smallest vertex, as `contractVertexSet` does.  `TriangleDetection` and
`HighDegreeContraction` ask whether a vertex is the root of its set, so that they
keep the ranks of `union_find` (`Unite`).  `NoiLimit` is unsigned.  A flow is the largest source
side of a minimum cut, by its definition; that `push_relabel` finds it is what PushRelabel is about.

`BranchAndReduce` is the search by one worker beside the main thread: `Pull` is `solveProblem` until the
kernelization, each of its tests is an action of its own because the main thread may
change the bound between any two of them; then `Branch`,
and `Process` for each child (`processNewProblem`).  `limit` is the bound that was
read when the kernelization began.  `offers` says for either thread where it is in `findBestSolution`
and `updateBestSolution`, whose tests and stores are steps of their own (`OfferStep`), so that the bound may
rise.  Local search may end with any weight between the optimum and that of the solution, and `found` is the history of the
weights computed so far.  A solution that `flowValue` does not
accept ends the program (`exited`, section 7).

### The proof modules

`ParallelUnionFindProofs`, `ProblemQueueProofs`, `MulticutSearchProofs`, `MulticutRanksProofs`
and `PushRelabelProofs` extend the module they are about.  `AdjacencyArraysProofs` says what the
loops of the mutable graph keep, the contraction of an edge and of a set with one table per vertex;
`MutableGraphProofs` goes on with the other methods and has the theorems.  `FiniteSums` has
the lemmas about `SumFunction` and `SumFunctionOnSet` of the community modules, for sums over any finite set.

## 3. What each run checks

| run | instance | properties |
|---|---|---|
| `uf_path` | 2 threads, 6 elements, 4 unions of a path | TypeOK; NoOvermerge: blocks are never mixed; AllJoined: no union is lost; LoopEnds: every call returns |
| `queue_two` | 2 threads, 3 problems, 1 pull and 1 prune each | SizesAgree: counters read without a lock are right; CallsReturn: no call is stuck at a mutex |
| `queue_one` | 1 thread, 3 problems, 3 pulls and prunes | NothingLost, NothingTwice, NoNullProblem, EmptyHanded: the queue is a bag |
| `search_one` | 1 worker and the main thread, tree of 6 problems | OptimumSafe, BoundsAreCuts, NoEarlyFinish, SearchEnds |
| `ranks_two` | 2 ranks and the main thread of rank 0, tree of 5 problems | StopsWhenEmpty; ResultFound: a cut as light as the optimum was computed; LightestElected: unless the two threads raced, the elected rank holds the lightest cut; RanksEnd |
| `structure_calls` | a mutable graph: a clique of 4 vertices, 4 calls; a chorded cycle of 5, 3 calls; or one of 3 priority queues, empty or with 6 nodes, 4 calls | Linked: the copies of an edge hold each other's index; DegreesAgree; Placed: positions and contained vertices are inverse; IsContracted: implements ContractedGraph; IndexAgrees; IsMaxQueue: implements MaxQueue |
| `flow_calls` | all graphs of 4 vertices with weights 0 to 2, some of 5; one or two sinks, limits 2 and 3 | Preflow, Labelled, ReturnsMinCut, FlowEnds |
| `cactus` | 12 graphs of 4 to 7 vertices, all edge selections; updates on 7 of them | NeverExits, ExactlyTheMinimumCuts, MostBalanced, Canonical; UpdatesAreExact: unless the history `strayed` |
| `mincut` | 12 graphs of 3 to 9 vertices, all algorithms and representations, 2 threads | ReturnsACut, EveryRoundMerges; AnswersMinimum, MergesKeepMinimum, EveryMinimumCut: unless the history is `loose` |
| `branch` | 7 graphs of 5 to 9 vertices with 3 or 4 terminals, 1 worker and the main thread | KeepsOptimum: a solution of optimal weight was computed or can still be found in an open problem; BoundsHold: the bounds of queued problems are bounds |

### Bounds, and why they are enough

- Two threads suffice for every race listed: each is between one thread whose test
  is out of date and one that made it so.  `uf_kite` needs five elements, because a
  cycle of two roots takes one redundant union and ranks that two further unions
  have raised.  The four unions of `uf_path` are all needed: each joins two blocks, and
  what AllJoined shows is that no such union is lost, through raised ranks, undone links and retries.
  That parents stay a forest in general is not true (section 4) and not claimed.
- The problems of the queue are three: one in the slot, one that is better and
  swaps with it, one more.  `FallingLB` makes the swap happen and `OtherKey` orders the
  queue differently from the slot, as `bound_sum` does.  `Calls` bounds the pulls
  and prunes per thread; adds are bounded by the problems.
- The tree of `search_one` has a child of each kind (branches, queued, solved at
  once), an optimum below the second branching, and local search that improves
  some cuts; one worker already races with the main thread.
- Two ranks cannot withdraw a report: rank 0 is done only when rank 1 is.
  `ranks_two` bounds nothing beyond the tree: channels are finite because each
  rank has one request under way.  In its tree one child of the root is solved without being queued and
  the other one branches again, the optimum is below that one, and local search finds a cut lighter
  than the root's first, so that bounds fall on both ranks and may rise on rank 0.
- Four vertices are the fewest in which a set of three is contracted next to a vertex that
  all of them are adjacent to, where the place of its edge must be followed
  (`TakeFromSet`); five add pairs that are not adjacent.  A deletion, contractions and the
  insertion of what was deleted fit into three calls, a fourth leaves room for any
  call before or after.  The bound is `calls` in each start graph.  One new weight, unlike those
  of the start graphs, tells a changed edge from the others.
- Six nodes are the fewest for which what fills a hole of the heap may have to rise.
- `Work` is 51 percent in place of 300, so that global relabelling happens several times in
  graphs this small; five vertices in a path with side edges leave gaps between levels.
- The graphs of `cactus` have every feature of a cactus: cycles, cycles that meet in an empty
  vertex or in another one, a star around an empty vertex, tree edges, several
  components, and vertices in no minimum cut of their own.  `MaxCacheSize`
  is 1 and the degrees for contraction are 2, so that the cache overflows and both
  contractions happen.
- Viecut coarsens above 10000 vertices and Karger and Stein recurse above 50; the model does
  above `SmallGraph` = 3 and `SmallSample` = 2.  With graphs of up to four vertices all
  random orders are taken, with more two of them.  The chunks of the parallel loops are
  one vertex.
- Between them the graphs of `branch` make each of the seven tests merge something, lead to branchings into
  two, three and four terminals and into none, to problems dropped for their bounds, and to a second round of
  tests; `Merging` has a scan that merges terminals, after which a problem holds no solution lighter than the bound
  and is not counted (`Merged`).  One random and one high-distance flow per round (`RandomFlows`,
  `HighDistanceFlows`) from any of their vertices stand for the five of each by default, as a
  further one finds what the one of the next round would.
- Threads are symmetric in `mincut`, where no temporal property but action properties is checked.

## 4. Where the code does other than it says

Two runs show such a place, and must end in a violation.

| run | property that fails | what happens |
|---|---|---|
| `uf_kite` | AllJoined | Stale ranks let two threads link two roots to each other; two Finds that halve this cycle at once make roots of both, and a union that returned true is gone. Needs a redundant union. |
| `search_race` | AnswerIsLightest | `findBestSolution` tests a cut against `global_upper_bound` and stores bound and solution later, without a lock. The main thread offers the cut of the root while the only worker searches, and overwrites a lighter one. In experiments with random graphs about one run of a thousand of the program in its default configuration answered a cut that is not minimal, and the right one when repeated. |

Others were met on the way.  Each can be had from the modules by the instance
named; they have no run of their own here.

- *Queue with two threads* (ProblemQueue, `T = 2`): two adds at once both find `haveSendProblem`
  false, and the second problem overwrites the first (NothingLost).  The second unlock of
  `send_problem_mutex` after a swap (lines 186 and 188) may open it for a third
  thread (NoNullProblem, NothingTwice).  For this reason the bag properties are claimed
  for one thread only.
- *End with two workers* (MulticutSearch, `T = 2`): `allThreadsIdle` is read
  before the sizes of the queues, and in between a thread may leave the wait and take
  the last problem, so NoEarlyFinish is claimed for one worker only.
- *Race on rank 0* (MulticutRanks, LightestElected without `~raced`): bound and solution part in the same
  way, and what other ranks are told with them.  Then the broadcast may carry a heavier cut, or no rank calls the
  best solution its own and `MPI_Bcast` gets `mpi_size` for a root.  Also without a
  race the bound of a rank rises when its first solution is heavier than what it has heard of
  (`|| !bestSolutionInitialized`, `problem_management.h:289`): ResultFound is about the cuts that were computed for
  this reason, and not about the last bound.
- *Scan with two threads* (ParallelMincut): the visited mark of a vertex is read at line 221 of
  `exact_parallel_minimum_cut.h`, when an edge to it is counted, and again at line 226, when it is to be queued.
  A thread that marks the vertex in between leaves it counted and not queued.  A later edge then lifts it over the limit, and
  the only minimum cut of a triangle with weights 2, 1 and 3 is contracted.  Without `loose` all of
  EveryMinimumCut, MergesKeepMinimum and AnswersMinimum are violated on the run; with it they say that this is
  the only way in which racing threads lose a cut.
- *Heavy problems* (MulticutSearch without `CutsFit`): `mpi_communication` starts
  its bound with `UNDEFINED_NODE` where `problem_management` uses `UNDEFINED_FLOW`, so
  that cuts of 2^32 - 1 and more are all cut off.
- *Three ranks* (MulticutRanks, `M = 3`): the last rank counts a rank as finished that has been promised
  a problem, and stops it; that problem is never received.  Two idle ranks may also
  ask each other for ever while the third waits for a receiver.
- *Matula's algorithm*: two complete graphs of four vertices with an edge
  between them have a minimum cut of 1, and the answer is 3.  `README.md:286` cites a
  (2 + ε)-approximation; rounding makes it twice the minimum plus one, which is what
  ReturnsACut asks.
- *Saved cuts* (GlobalMincut without `CutIsKept`): contraction of a mutable graph in place
  changes the graph of the level to which partition indices refer; the cut that
  `noi` finds at the end of `viecut` is that of a coarser graph and is not saved; and
  `ks` looks the better of two cuts up through the partition index of the other one.
  In these cases the saved side is not a cut of the value that is returned.
- *Karger and Stein* with few edges: the sampler draws edges until two fifths of the vertices
  are gone, which never happens when the edges do not join as many.
- *Trivial cuts in parallel*: `findTrivialCuts` (`lib/parallel/coarsening/contract_graph.h:84-98`)
  subtracts unsigned weights, and in effect finds nothing.
- *Known cut of the parallel cactus* (`parallel_cactus.h:88`): the test is the wrong way
  round, so that the estimate is computed when the cut is known, and is the undefined
  value otherwise, which the first `updateCut` replaces by the smallest degree.
- *Dynamic cut* (DynamicMincut, UpdatesAreExact without `strayed`): on a path of five vertices with weights 1,
  delete (3,4), insert (1,5,1), then insert (3,4,1).  The answer is 1 and the minimum cut is 2.  The cactus of the
  cuts of weight 1 is taken from the cache, and the insertions are replayed on it, but `buildCactusFromCache` looks for
  tree edges of weight `current_cut`, which still is that of the lighter cut (`dynamic_mincut.h:166`), and contracts the
  wrong vertices.  The run has this stream and all others on that path after its first deletion.  `strayed` says that it has happened;
  until then every answer is right.  When
  no larger cut is cached, insertions of an entry are appended to the vector that is being read
  (`dynamic_mincut.h:156`).

## 5. Fairness

- `ParallelUnionFind`, `ProblemQueue`, `MulticutSearch`: weak fairness of each thread's
  steps. The threads are OpenMP or `std::thread` threads of the operating system
  and none of them waits for a condition that only a notification ends: the wait of
  `waitForProblem` has a limit of a second, so `Wake` needs no notification. A
  mutex that stays free is taken in the end.
- `MulticutRanks`: weak fairness of each rank, strong fairness of `Count`, because
  a report that was sent is delivered in the end and the last rank keeps probing
  for it, and weak fairness of `Leave`: a barrier that all ranks reached completes for a
  rank that keeps testing it.
- `PushRelabel`: weak fairness of the next step, as one thread runs the loop.
- The others: none.  They claim only what holds at every step; that their loops end follows
  for each instance from the fact that TLC finishes, since every round adds a level or
  makes a graph smaller.
- Not claimed: that the search ends with two workers. Two threads may leave their wait
  alternately so that never all of them are counted as idle.  Nor that three ranks end
  (section 4).

## 6. What is proved

TLAPS checks these for all values of the constants under the assumptions of the modules.

| theorem | statement | inductive invariant |
|---|---|---|
| `ParallelUnionFindProofs!TypeCorrect` | `Spec => []TypeOK` | the one below |
| `ParallelUnionFindProofs!NeverOvermerges` | `Spec => []NoOvermerge` | TypeOK, NoOvermerge, and for each thread: what its Find holds (`elem`, `next`, `seen`) and the roots it has found are in the block of its operands. NoOvermerge alone is not inductive, since a halving or a link stores what was read some steps before. |
| `ProblemQueueProofs!SizesAlwaysAgree` | `Spec => []SizesAgree` | a thread at work on a queue holds its mutex (Holds), and the size of a queue is its length, plus one while an adder has counted a problem that it has not pushed yet (Counted). It does not mention `send_problem_mutex`, whose double unlock therefore cannot break it. |
| `MulticutSearchProofs!OptimumNeverLost` | `CutsFit => (Spec => []OptimumSafe)` | types, that `cur` and `kids` are empty where they are overwritten (Placed), that all bounds are values of computed cuts, and that so are the values in local variables which a thread is about to store (LocalsAreCuts). A problem is cut off for a stale bound only, and a stale bound is a computed cut as well. |
| `MulticutSearchProofs!BoundsFromCuts` | `CutsFit => (Spec => []BoundsAreCuts)` | the same |
| `MulticutSearchProofs!OneWorkerEndsLast` | `CutsFit /\ T = 1 => (Spec => []NoEarlyFinish)` | the one above, and SoleWorker: the main thread only offers a cut and is gone; the queue stays empty once its size was read as zero, and so does the slot when the worker is about to end; it is gone once it ended. Nobody else touches the queue and the slot, which is what two workers lack. |
| `ProblemQueueProofs!NothingIsLost`, `NothingHandedOutTwice`, `NeverNull`, `EmptyHandedOnlyWhenEmpty` | `T = 1 => (Spec => []NothingLost)`, and so on for NothingTwice, NoNullProblem and EmptyHanded | BagInv: a problem is in one of these places and in no two of them: not yet added, in the queue, in the slot, in a call, handed out, pruned (Somewhere, OnePlace); the queue repeats none (Distinct); and `haveSend` agrees with the slot except between claiming it and emptying it (SlotTold). The double unlock is harmless here because nobody else can take the mutex. |
| `MulticutRanksProofs!BoundsAreCuts` | `Spec => []RankInv`, any number of ranks | RankInv: types (WorkTypes), and every bound that is known, sent, or was read and is about to be stored is the value of a computed cut (BoundInv). |
| `MulticutRanksProofs!NoLeafLost` | `Spec => []WorkInv`, any number of ranks | KidsPlaced, and LeafSafe: each leaf is below an open problem or one in a message, or a cut as light as it was computed. A problem is dropped for a bound that some cut had, if perhaps not the last bound. |
| `MulticutRanksProofs!PairStopsWhenEmpty`, `PairAnswersRight`, `PairResultFound` | `M = 2 => (Spec => []StopsWhenEmpty)`, and so on for RightSender and ResultFound | PairInv, for each of the two ranks and the other one: at most one request and one answer are on their way in a channel, no promise behind a request and no answer behind the end (Requests); a problem is on its way only to a rank that was promised one (Promises); "empty as well" stays true until it is heard (EmptyTold); and once the last rank counts, nobody has work or the promise of any (Over). |
| `PushRelabelProofs!PreflowHolds` | `Spec => []Preflow` | the one below |
| `PushRelabelProofs!LabelsHold` | `Spec => []Labelled` | types, Preflow, positive labels and counters above the true numbers (Levels), validity of the labels outside a search, that the edges which the discharged vertex has read lead nowhere downhill (Reads, which is why the gap heuristic and relabel are right about it), and Searching, below; for the bound 2n also Inflows, below. |
| `PushRelabelProofs!ReturnsMinimumCut` | `Spec => []ReturnsMinCut` | the same; that the excess of each vertex is the sum of what flows into it (Inflows), that a limit was reached by a sink that keeps its excess (Reaching), and that it returns only from an empty queue (Ending). |
| `MutableGraphProofs!StaysIntact` | `Spec => []Intact` | Intact: the graph is Sound with the stack `removed`, below. |
| `MutableGraphProofs!EdgesLinked`, `DegreesRight`, `NamesPlaced` | `Spec => []Linked`, `[]DegreesAgree`, `[]Placed` | the same |

`CutsFit` says that every cut is lighter than 2^32 - 1, which is needed (section 4), as are
`T = 1` for the bag and for the end of the search, and `M = 2` for the end of the ranks: with one more thread or rank TLC finds
counterexamples.  What holds for any number of ranks is that no work is lost before a rank
leaves; the counting of finished ranks is what fails with three.  The other assumptions are the number of
threads (`TAssumption`, at least one), that the tree is one (`TreeAssumption`) and that
its bounds are sound (`BoundsAssumption`).  `ProblemsAssumption` says that capacities
are symmetric and that `depthOfPartialRelabeling` is less than the number of vertices,
without which `m_count` is read behind its end.  `StartsAssumption` says that the graphs which the calls begin with are built
from edges, none of them parallel to another, and `WeightsAssumption` that new weights are numbers.

The difficulty of the flow proof is the global relabelling, in the middle of which labels
are not valid: some vertices have new labels, others old ones raised to `far + 1`.
Searching says that the closed part of the search is exact and complete (every residual edge
into it comes from a touched vertex), and that there are labels (`Floor`) which were
valid before and are nowhere above the present ones.  When the search ends, a residual edge within
the touched vertices is covered by the first part, one among the others by the second,
and one from the others into the touched ones would have been followed.
The counters are only compared from above, because `global_relabeling` makes
them drift upwards; a gap that they show is real nevertheless, a gap that they miss costs only time.

That the flow is maximal and its cut minimal is the theorem of Ford and Fulkerson for what this code
leaves behind.  The flow over any cut is the sum of what flows into the vertices beyond it,
because flow is antisymmetric, and with an empty queue that is what the sinks have (AllArrived): no cut is lighter than the
flow.  There are fewer vertices than labels between those of the sinks and of the source, so that some label is
carried by none (SomeGap); labels are valid, so that the search of `computeSourceSet` from the sinks never crosses it and does not reach the
source.  Every edge out of the source set is full, and the cut is as light as the flow.  Any other
minimum cut has full edges too, so that no search from the sinks enters its side: the source set is the largest.  When
the limit was reached one sink has that much, and so each cut weighs as much.  The bound of the labels
is the same argument above the source: if a vertex with excess had the label 2n, some label between n and 2n would be carried by none, no
flow could come in above it, and the excess above it would not be positive (ActiveBelow).  In this way
the proof needs neither paths nor a decomposition of the flow.  Sums over sets do need an induction:
`SubsetInduction` states it for a set of subsets instead of a predicate, from the well-foundedness of the
strict subset relation, and SumEquation unfolds the fold of the library once.

The proof about the mutable graph is one about loops that leave the arrays unsound between their
passes.  Live says how a graph is in the middle of a method: `A` has the entries that count, each is the
mate of exactly one other that counts (Paired: their `rev` hold each other's index), none is a
loop, no two of one vertex lead to the same end, and degrees and `num_edges` are sums over them, up to what the
method has counted ahead for some vertices.  Between two calls all entries count and nothing is ahead (Alive, and Sound with the names).  Named has the names: a vertex stands where the blocks it
contains say (`current_position` and `contained_in_this` are inverse), and the blocks of deleted vertices
point behind the last vertex, in the order of the caller's stack, which is what lets `heavy_edges` put them
back after any contractions.  Each pass of a loop takes an entry from those that count, moves the last one of its array into
the gap and tells its mate; a lemma per pass says what it leaves of the rest of the loop.  A loop is a fold over a
sequence, whose unfolding is a run: the function from the number of passes to the graph after them
(UpTo is the induction along it, FoldRuns the unfolding).  `TakeFromSet` is the hard one:
its table must follow an end of an edge that a deletion in another array has just moved, and
Taking says what the table knows at any edge.

Only model-checked: everything about the end of loops and searches (liveness
under fairness is outside the prover); AllJoined, which does not hold for all unions
(section 4), and LightestElected; that the mutable graph implements ContractedGraph; the queues, whose heap
sifts by recursion.  The other modules about graphs and cuts
define their traversals by RECURSIVE operators, which the prover does not accept, so that nothing about
them is proved.

## 7. What is not modelled

- The time limit, the memory limit, the inexact mode and the integer program of branch
  and reduce: each drops or replaces problems on purpose.
- Of the reductions: flows in parallel, which unite the same sets, the edge selections other
  than the default, the local search, which stands for any improvement, and `multiterminal_cut.h`, which
  splits the input into components and chooses terminals.
- What happens after the exit of `flowValue`.  KeepsOptimum is asked only before it, and it is not rare: adding
  the invariant `phase # "exited"` to `branch.cfg` shows both ways to it.  When the optimum equals the bound, the scan
  may merge two terminals, and the solution of the merged problem has two terminals in a block.
  And `contractVertexSet` keeps the partition index of the smallest vertex: when a terminal is not the
  smallest, its own index, set by the last flow, is lost, and a solution read without another flow
  (`branch_multicut.h:546-552`, and children of less than two terminals) has an empty block.  In experiments with small random graphs the
  program ended that way on less than one in a hundred with the terminals first in the input, and on three to seven with
  the terminals last.
- `single_problem_queue`, `unit_flow`, `excess_scaling` and `stoer_wagner_minimum_cut`, which
  nothing calls; `sparsify`, the edge sampler and the graph stream, which only experiments
  call; the sparse contraction without hash tables and the second label propagation
  of the parallel build, which are never called.
- Priority queues of the scan other than first-in buckets (settings `pq` and `disable_limiting`).
  PriorityQueues shows that all of them give a largest element; the scan is right for any choice among
  equal ones, as the mutants that break the order show.
- Of the mutable graph: flows on edges, and vertices that
  contain nothing within MutableGraph (the cactus modules have them).  `CallCopy` sends only graphs that are read back:
  `deserialize` takes a number for a target if it is below `num_edges` (line 855), so a
  graph with fewer edges than vertices may be misread.  Static graphs with
  double edges, whose weights `from_graph_access` counts too often (lines 806-817).  Parallel edges in
  streams of updates.
- Reading and writing of files, timers, random numbers, hashing and command lines.

## 8. Order of the work

Branch and reduce came first, as the part with the most shared state: ParallelUnionFind, ProblemQueue,
MulticutSearch, MulticutRanks.  Then the data that all cut algorithms contract and order
(MutableGraph, PriorityQueues), flows (PushRelabel), the cactus and its updates on top of both
(CactusMincut, DynamicMincut), and the global algorithms with their threads
(GlobalMincut, ParallelMincut), and the reductions of the multiterminal cut (Reductions, BranchAndReduce).  What is left
is worth doing in this order: what two workers keep of the end of the search, as lemmas about the counter of
idle threads; the refinement of the mutable graph, whose invariant is proved; the index of the heap, with its sifting as a recursive function.

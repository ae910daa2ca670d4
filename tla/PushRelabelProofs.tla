------------------------- MODULE PushRelabelProofs --------------------------
(***************************************************************************)
(* For graphs of any size and any weights, with and without a limit: no    *)
(* excess is forgotten and no capacity exceeded (Preflow).  The invariant  *)
(* also has the labels, which stay lower bounds of distances whatever      *)
(* happens to flow and labels, and their counters, which never show a gap  *)
(* where there is none.                                                    *)
(*                                                                         *)
(* What is returned is a maximum flow and a minimum cut (ReturnsMinCut).   *)
(* Excess is the sum of what flows into a vertex, so that at the end the   *)
(* flow over any cut is what the sinks have received; and labels that are  *)
(* valid leave a level without vertices below the source, over which       *)
(* nothing can flow any more.  The same holds above the source, so that no *)
(* label leaves the counters (Labelled).                                   *)
(***************************************************************************)
EXTENDS PushRelabel, FiniteSums, FiniteSetTheorems, TLAPS

Types ==
    /\ call \in Problems
    /\ flow \in [Nodes -> [Nodes -> Int]]
    /\ excess \in [Nodes -> Nat]
    /\ dist \in [Nodes -> 0 .. 2 * call.n]
    /\ count \in [0 .. 2 * call.n - 1 -> Int]
    /\ DOMAIN queue \subseteq Nodes \ Terminals
    /\ at \in [node : Nodes, edges : SUBSET Nodes]
    /\ pc = "discharge" => at.node \notin Terminals
    /\ search \in [touched : SUBSET Nodes, open : SUBSET Nodes, level : Nat, far : Nat]

Valid(d) == \A u, v \in Nodes : Residual(flow, u, v) > 0 => d[u] <= d[v] + 1

\* Labels of terminals are fixed, others are positive, and no vertex between two
\* counters is left out.
Levels ==
    /\ dist[call.src] = call.n /\ \A s \in call.sinks : dist[s] = 0
    /\ \A v \in Nodes \ call.sinks : dist[v] >= 1
    /\ \A k \in 1 .. call.n - 1 : HowMany(dist, k) <= count[k]

\* The edges that the vertex in discharge has read lead nowhere downhill any more.
Reads ==
    pc = "discharge" /\ excess[at.node] > 0 =>
        \A t \in Neighbors(at.node) \ at.edges :
            Residual(flow, at.node, t) <= 0 \/ dist[t] >= dist[at.node]

\* The labels before the search, which are valid and not above the present ones.
Floor(d) ==
    /\ d \in [Nodes -> Nat] /\ Valid(d) /\ d[call.src] = call.n
    /\ \A v \in Nodes : d[v] <= dist[v]
    /\ \A v \in Nodes \ search.touched : dist[v] <= Greatest(d[v], search.far + 1)

\* A search has labelled what it touched with the distances that it found; all
\* edges that enter its closed vertices come from touched ones.
Searching ==
    pc = "search" =>
        LET inside == search.touched \ {call.src} IN
        /\ Terminals \subseteq search.touched
        /\ search.open \subseteq inside
        /\ search.level <= search.far /\ search.far <= call.n
        /\ \A u \in inside : dist[u] <= search.level
        /\ \A u \in search.open : dist[u] = search.level
        /\ \A u \in inside \ search.open, t \in Nodes \ search.touched : Residual(flow, t, u) <= 0
        /\ \A u, v \in inside : Residual(flow, u, v) > 0 => dist[u] <= dist[v] + 1
        /\ \A v \in Nodes \ search.touched : dist[v] >= search.far
        /\ \E d \in [Nodes -> Nat] : Floor(d)

IInv ==
    /\ Types
    /\ Preflow
    /\ Levels
    /\ pc # "search" => Valid(dist)
    /\ Reads
    /\ Searching

-----------------------------------------------------------------------------
\* Facts about the constants and the counters

\* What the assumption says of the arguments of the call.
LEMMA CallFacts ==
    ASSUME call \in Problems
    PROVE  /\ call.n \in Nat /\ call.n >= 1 /\ call.depth \in Nat /\ call.depth < call.n
           /\ call.limited \in BOOLEAN
           /\ call.cap \in [Nodes -> [Nodes -> Nat]]
           /\ \A u, v \in Nodes : call.cap[u][v] = call.cap[v][u]
           /\ \A u \in Nodes : call.cap[u][u] = 0
           /\ call.src \in Nodes /\ call.sinks \subseteq Nodes /\ call.src \notin call.sinks
           /\ IsFiniteSet(Nodes) /\ Cardinality(Nodes) = call.n
  <1>1. call.n \in Nat /\ call.n >= 1
    BY ProblemsAssumption
  <1>2. IsFiniteSet(Nodes) /\ Cardinality(Nodes) = call.n
    BY <1>1, FS_Interval DEF Nodes, NodesOf
  <1> QED
    BY <1>1, <1>2, ProblemsAssumption DEF Nodes, NodesOf

\* A level holds a natural number of vertices.
LEMMA HowManyNat ==
    ASSUME NEW d, IsFiniteSet(DOMAIN d), NEW k
    PROVE  HowMany(d, k) \in Nat
  <1>1. {v \in DOMAIN d : d[v] = k} \in SUBSET DOMAIN d
    OBVIOUS
  <1> QED
    BY <1>1, FS_Subset, FS_CardinalityType DEF HowMany

\* A level without vertices holds none.
LEMMA HowManyZero ==
    ASSUME NEW d, NEW k, \A v \in DOMAIN d : d[v] # k
    PROVE  HowMany(d, k) = 0
  <1>1. {v \in DOMAIN d : d[v] = k} = {}
    OBVIOUS
  <1> QED
    BY <1>1, FS_EmptySet DEF HowMany

\* What changes labels and counts it keeps the counters above the levels.
LEMMA CountedKeeps ==
    ASSUME call \in Problems,
           count \in [0 .. 2 * call.n - 1 -> Int],
           \A k \in 1 .. call.n - 1 : HowMany(dist, k) <= count[k],
           NEW e, DOMAIN dist = Nodes, DOMAIN e = Nodes
    PROVE  /\ Counted(count, dist, e) \in [0 .. 2 * call.n - 1 -> Int]
           /\ \A k \in 1 .. call.n - 1 : HowMany(e, k) <= Counted(count, dist, e)[k]
  <1>1. \A k : HowMany(dist, k) \in Nat /\ HowMany(e, k) \in Nat
    BY HowManyNat, CallFacts
  <1>2. call.n \in Nat /\ call.n >= 1
    BY CallFacts
  <1> DEFINE h(k) == HowMany(dist, k)
             i(k) == HowMany(e, k)
  <1>3. Counted(count, dist, e) = [k \in 0 .. 2 * call.n - 1 |-> count[k] + i(k) - h(k)]
    BY DEF Counted
  <1>4. \A k : h(k) \in Nat /\ i(k) \in Nat
    BY <1>1
  <1>5. \A k \in 1 .. call.n - 1 : h(k) <= count[k]
    OBVIOUS
  <1> HIDE DEF h, i
  <1>6. Counted(count, dist, e) \in [0 .. 2 * call.n - 1 -> Int]
    BY <1>3, <1>4
  <1>7. \A k \in 1 .. call.n - 1 : i(k) <= Counted(count, dist, e)[k]
    <2> SUFFICES ASSUME NEW k \in 1 .. call.n - 1
                 PROVE  i(k) <= Counted(count, dist, e)[k]
      OBVIOUS
    <2>1. k \in 0 .. 2 * call.n - 1
      BY <1>2
    <2>2. Counted(count, dist, e)[k] = count[k] + i(k) - h(k) /\ count[k] \in Int
      BY <1>3, <2>1
    <2> QED
      BY <1>4, <1>5, <2>2
  <1> QED
    BY <1>6, <1>7 DEF i

\* What is left of a finite set without a part of it.
LEMMA CardinalityWithout ==
    ASSUME NEW S, IsFiniteSet(S), NEW U, U \subseteq S
    PROVE  Cardinality(S \ U) = Cardinality(S) - Cardinality(U)
  <1>1. S \cap U = U
    OBVIOUS
  <1> QED
    BY <1>1, FS_Difference

\* A level that is counted to hold one vertex at most holds no second one.
LEMMA Alone ==
    ASSUME NEW d, IsFiniteSet(DOMAIN d), NEW u \in DOMAIN d, NEW v \in DOMAIN d,
           d[u] = d[v], HowMany(d, d[u]) <= 1
    PROVE  u = v
  <1> DEFINE L == {x \in DOMAIN d : d[x] = d[u]}
  <1>1. L \in SUBSET DOMAIN d
    OBVIOUS
  <1>2. IsFiniteSet(L) /\ Cardinality(L) \in Nat
    BY <1>1, FS_Subset, FS_CardinalityType
  <1>3. Cardinality(L) <= 1 /\ u \in L /\ v \in L
    BY DEF HowMany
  <1>4. Cardinality(L) # 0
    BY <1>2, <1>3, FS_EmptySet
  <1>5. Cardinality(L) = 1
    BY <1>2, <1>3, <1>4
  <1>6. PICK x : L = {x}
    BY <1>2, <1>5, FS_Singleton
  <1> QED
    BY <1>3, <1>6

\* Residual capacities are numbers.
LEMMA ResidualInt ==
    ASSUME call \in Problems, flow \in [Nodes -> [Nodes -> Int]],
           NEW u \in Nodes, NEW v \in Nodes
    PROVE  /\ call.cap[u][v] \in Nat /\ flow[u][v] \in Int
           /\ Residual(flow, u, v) \in Int
  <1>1. call.cap[u][v] \in Nat
    BY CallFacts
  <1>2. flow[u][v] \in Int
    OBVIOUS
  <1> QED
    BY <1>1, <1>2 DEF Residual

\* Between vertices that are no neighbours nothing flows.
LEMMA OnlyEdges ==
    ASSUME call \in Problems, flow \in [Nodes -> [Nodes -> Int]], Capacities,
           NEW u \in Nodes, NEW v \in Nodes, Residual(flow, u, v) > 0
    PROVE  v \in Neighbors(u)
  BY CallFacts DEF Capacities, Residual, Neighbors

-----------------------------------------------------------------------------
\* The first state

\* At the start all labels below n are counted right.
LEMMA InitLevels ==
    ASSUME Init
    PROVE  /\ count \in [0 .. 2 * call.n - 1 -> Int]
           /\ Levels
  <1> DEFINE n == call.n
             m == Cardinality(call.sinks)
  <1>1. /\ n \in Nat /\ n >= 1 /\ call.depth \in Nat /\ call.depth < n
        /\ call.src \in Nodes /\ call.sinks \subseteq Nodes /\ call.src \notin call.sinks
        /\ IsFiniteSet(Nodes) /\ Cardinality(Nodes) = n
    BY CallFacts DEF Init
  <1>2. count = StartCount(call)
    BY DEF Init
  <1>3. dist = [v \in Nodes |-> IF v = call.src THEN n
                                ELSE IF v \in call.sinks THEN 0 ELSE StartLabel(call)]
    BY DEF Init
  <1>4. IsFiniteSet(call.sinks) /\ m \in Nat
    BY <1>1, FS_Subset, FS_CardinalityType
  <1>5. count \in [0 .. 2 * n - 1 -> Int]
    <2>1. CASE call.limited
      BY <1>4, <1>2, <1>1, <2>1 DEF StartCount
    <2>2. CASE ~call.limited
      BY <1>4, <1>2, <1>1, <2>2 DEF StartCount
    <2> QED
      BY <2>1, <2>2
  <1>6. StartLabel(call) \in Nat /\ StartLabel(call) >= 1
    BY <1>1 DEF StartLabel
  <1>7. dist[call.src] = n /\ \A s \in call.sinks : dist[s] = 0
    BY <1>3, <1>1
  <1>8. \A v \in Nodes \ call.sinks : dist[v] >= 1
    BY <1>6, <1>3, <1>1
  <1>9. ASSUME NEW k \in 1 .. n - 1
        PROVE  HowMany(dist, k) <= count[k]
    <2>1. CASE ~call.limited
      <3>1. StartLabel(call) = n
        BY <2>1 DEF StartLabel
      <3>2. \A v \in Nodes : dist[v] # k
        BY <1>3, <1>1, <3>1
      <3>3. HowMany(dist, k) = 0
        BY <1>3, <3>2, HowManyZero
      <3>4. count[k] = 0
        BY <1>2, <1>1, <2>1 DEF StartCount
      <3> QED
        BY <3>3, <3>4
    <2>2. CASE call.limited /\ k # call.depth + 1
      <3>1. StartLabel(call) = call.depth + 1
        BY <2>2 DEF StartLabel
      <3>2. \A v \in Nodes : dist[v] # k
        BY <1>3, <1>1, <2>2, <3>1
      <3>3. HowMany(dist, k) = 0
        BY <1>3, <3>2, HowManyZero
      <3>4. count[k] = 0
        BY <1>2, <1>1, <2>2 DEF StartCount
      <3> QED
        BY <3>3, <3>4
    <2>3. CASE call.limited /\ k = call.depth + 1
      <3>1. StartLabel(call) = k
        BY <2>3 DEF StartLabel
      <3>2. {v \in DOMAIN dist : dist[v] = k} = (Nodes \ {call.src}) \ call.sinks
        BY <1>3, <1>1, <3>1
      <3>3. IsFiniteSet(Nodes \ {call.src}) /\ Cardinality(Nodes \ {call.src}) = n - 1
        BY <1>1, FS_RemoveElement
      <3>5. Cardinality((Nodes \ {call.src}) \ call.sinks) = Cardinality(Nodes \ {call.src}) - m
        BY <1>4, <1>1, <3>3, CardinalityWithout
      <3>6. HowMany(dist, k) = n - 1 - m
        BY <3>2, <3>3, <3>5 DEF HowMany
      <3>7. count[k] = n - 1 - m
        BY <1>4, <1>2, <1>1, <2>3 DEF StartCount
      <3> QED
        BY <1>4, <1>1, <3>6, <3>7
    <2> QED
      BY <2>1, <2>2, <2>3
  <1> QED
    BY <1>5, <1>7, <1>8, <1>9 DEF Levels

\* The first search starts from labels that are 0 everywhere but at the source.
LEMMA InitIInv ==
    ASSUME Init
    PROVE  IInv
  <1> USE CallFacts DEF Init
  <1>1. count \in [0 .. 2 * call.n - 1 -> Int] /\ Levels
    BY InitLevels
  <1>2. StartLabel(call) \in 1 .. call.n
    BY DEF StartLabel
  <1>3. flow \in [Nodes -> [Nodes -> Int]]
    OBVIOUS
  <1>4. dist \in [Nodes -> 0 .. 2 * call.n]
    BY <1>2
  <1>5. DOMAIN queue \subseteq Nodes \ Terminals /\ excess \in [Nodes -> Nat]
    BY DEF Neighbors
  <1>6. search \in [touched : SUBSET Nodes, open : SUBSET Nodes, level : Nat, far : Nat]
    BY DEF Terminals
  <1>7. Types
    BY <1>1, <1>3, <1>4, <1>5, <1>6 DEF Types
  <1>8. Preflow
    <2>1. Capacities
      BY DEF Capacities
    <2>2. NoneStranded
      BY DEF NoneStranded, Neighbors
    <2> QED
      BY <2>1, <2>2 DEF Preflow
  <1>9. Searching
    <2> DEFINE d == [v \in Nodes |-> IF v = call.src THEN call.n ELSE 0]
    <2>1. d \in [Nodes -> Nat] /\ d[call.src] = call.n
      OBVIOUS
    <2>2. Valid(d)
      BY DEF Valid, Residual
    <2>3. \A v \in Nodes : d[v] <= dist[v]
      BY <1>2, <1>4
    <2>4. \A v \in Nodes \ search.touched : dist[v] <= Greatest(d[v], search.far + 1)
      BY DEF StartLabel, Terminals, Greatest
    <2>5. Floor(d)
      BY <2>1, <2>2, <2>3, <2>4 DEF Floor
    <2>6. \A v \in Nodes \ search.touched : dist[v] >= search.far
      BY DEF StartLabel, Terminals
    <2>7. search.touched \ {call.src} = call.sinks /\ search.open = call.sinks
      BY DEF Terminals
    <2> QED
      BY <2>1, <2>5, <2>6, <2>7 DEF Searching, Terminals
  <1> QED
    BY <1>1, <1>7, <1>8, <1>9 DEF IInv, Reads

-----------------------------------------------------------------------------
\* The steps

\* What the invariant is about, but for pc, at and search.
StateOf == <<call, flow, excess, dist, count, queue>>

\* Nothing but the place in the program changes, and the invariant that goes with it.
LEMMA OtherPlace ==
    ASSUME IInv, UNCHANGED StateOf, UNCHANGED <<at, search>>,
           pc' = "discharge" => pc = "discharge",
           pc' = "search" => pc = "search",
           pc = "discharge" /\ pc' # "discharge" => excess[at.node] = 0,
           pc' # "search" => Valid(dist)
    PROVE  IInv'
  <1> USE DEF StateOf, Nodes, Terminals
  <1>1. Types'
    BY DEF IInv, Types
  <1>2. Preflow'
    BY DEF IInv, Preflow, Capacities, NoneStranded, Types
  <1>3. Levels'
    BY DEF IInv, Levels
  <1>4. (pc # "search" => Valid(dist))'
    BY DEF IInv, Valid, Residual
  <1>5. Reads'
    BY DEF IInv, Reads, Residual, Neighbors
  <1>6. Searching'
    BY DEF IInv, Searching, Floor, Valid, Residual
  <1> QED
    BY <1>1, <1>2, <1>3, <1>4, <1>5, <1>6 DEF IInv

\* What a search leaves behind are valid labels: an edge from a vertex out of its
\* reach ends at another one, at the source, or on the last level.
LEMMA SearchLeavesValid ==
    ASSUME IInv, pc = "search", search.open = {} \/ search.level = search.far
    PROVE  Valid(dist)
  <1> DEFINE inside == search.touched \ {call.src}
  <1>1. PICK d \in [Nodes -> Nat] : Floor(d)
    BY DEF IInv, Searching
  <1> SUFFICES ASSUME NEW u \in Nodes, NEW v \in Nodes, Residual(flow, u, v) > 0
               PROVE  dist[u] <= dist[v] + 1
    BY DEF Valid
  <1>2. d[u] <= d[v] + 1 /\ d[u] <= dist[u] /\ d[v] <= dist[v]
    BY <1>1 DEF Floor, Valid
  <1>3. /\ dist[u] \in Nat /\ dist[v] \in Nat /\ d[u] \in Nat /\ d[v] \in Nat
        /\ search.far \in Nat /\ search.level \in Nat /\ call.n \in Nat
        /\ ~(Residual(flow, u, v) <= 0)
    <2>1. call.n \in Nat
      BY CallFacts DEF IInv, Types
    <2>2. dist[u] \in Nat /\ dist[v] \in Nat
      BY <2>1 DEF IInv, Types
    <2>3. Residual(flow, u, v) \in Int
      BY ResidualInt DEF IInv, Types
    <2>4. search.far \in Nat /\ search.level \in Nat
      BY DEF IInv, Types
    <2> QED
      BY <2>1, <2>2, <2>3, <2>4
  <1>4. /\ dist[call.src] = call.n /\ d[call.src] = call.n
        /\ search.level <= search.far /\ search.far <= call.n
    BY <1>1, CallFacts DEF IInv, Levels, Searching, Floor
  <1>5. CASE u = call.src
    BY <1>2, <1>3, <1>4, <1>5
  <1>6. CASE u \in inside
    <2>1. dist[u] <= search.level
      BY <1>6 DEF IInv, Searching
    <2>2. CASE v = call.src
      BY <1>3, <1>4, <2>1, <2>2
    <2>3. CASE v \in inside
      BY <1>6, <2>3 DEF IInv, Searching
    <2>4. CASE v \notin search.touched
      <3>1. dist[v] >= search.far
        BY <2>4 DEF IInv, Searching
      <3> QED
        BY <1>3, <1>4, <2>1, <3>1
    <2> QED
      BY <2>2, <2>3, <2>4
  <1>7. CASE u \notin search.touched
    <2>1. dist[u] <= Greatest(d[u], search.far + 1)
      BY <1>1, <1>7 DEF Floor
    <2>2. dist[u] <= search.far + 1 \/ dist[u] <= d[v] + 1
      BY <1>2, <1>3, <2>1 DEF Greatest
    <2>3. CASE v = call.src
      BY <1>3, <1>4, <2>2, <2>3
    <2>4. CASE v \in inside
      <3>1. v \in search.open
        BY <1>3, <1>7, <2>4 DEF IInv, Searching
      <3>2. dist[v] = search.far
        BY <3>1 DEF IInv, Searching
      <3> QED
        BY <1>2, <1>3, <2>2, <3>2
    <2>5. CASE v \notin search.touched
      <3>1. dist[v] >= search.far
        BY <2>5 DEF IInv, Searching
      <3> QED
        BY <1>2, <1>3, <2>2, <3>1
    <2> QED
      BY <2>3, <2>4, <2>5
  <1> QED
    BY <1>5, <1>6, <1>7

\* The steps that only leave one part of the program for another.
LEMMA MoveKeepsIInv ==
    ASSUME IInv, Drained \/ ReturnLimit \/ NextVertex \/ Return \/ SearchEnds \/ UNCHANGED vars
    PROVE  IInv'
  <1>1. pc # "search" => Valid(dist)
    BY DEF IInv
  <1>2. CASE Drained
    BY <1>1, <1>2, OtherPlace DEF Drained, StateOf, state
  <1>3. CASE ReturnLimit
    BY <1>1, <1>3, OtherPlace DEF ReturnLimit, StateOf, state
  <1>4. CASE NextVertex
    BY <1>1, <1>4, OtherPlace DEF NextVertex, StateOf, state
  <1>5. CASE Return
    BY <1>1, <1>5, OtherPlace DEF Return, StateOf, state
  <1>6. CASE SearchEnds
    <2>1. Valid(dist)
      BY <1>6, SearchLeavesValid DEF SearchEnds
    <2> QED
      BY <1>6, <2>1, OtherPlace DEF SearchEnds, StateOf, state
  <1>7. CASE UNCHANGED vars
    BY <1>1, <1>7, OtherPlace DEF vars, StateOf, state
  <1> QED
    BY <1>2, <1>3, <1>4, <1>5, <1>6, <1>7

\* A vertex leaves the queue to be discharged, none of its edges read.
LEMMA TakeKeepsIInv ==
    ASSUME IInv, Take
    PROVE  IInv'
  <1> USE DEF Take, Nodes, Terminals
  <1>1. PICK v \in DOMAIN queue :
            /\ queue' = Restrict(queue, DOMAIN queue \ {v})
            /\ at' = [node |-> v, edges |-> Neighbors(v)]
    OBVIOUS
  <1>2. DOMAIN queue' = DOMAIN queue \ {v}
    BY <1>1 DEF Restrict
  <1>3. v \in Nodes \ Terminals
    BY DEF IInv, Types
  <1>4. Types'
    BY <1>1, <1>2, <1>3 DEF IInv, Types, Neighbors
  <1>5. Preflow'
    <2>1. Capacities'
      BY DEF IInv, Preflow, Capacities
    <2>2. NoneStranded'
      BY <1>1, <1>2 DEF IInv, Preflow, NoneStranded
    <2> QED
      BY <2>1, <2>2 DEF Preflow
  <1>6. Levels'
    BY DEF IInv, Levels
  <1>7. Valid(dist)'
    BY DEF IInv, Valid, Residual
  <1>8. Reads'
    BY <1>1 DEF Reads, Neighbors
  <1>9. Searching'
    BY DEF Searching
  <1> QED
    BY <1>4, <1>5, <1>6, <1>7, <1>8, <1>9 DEF IInv

\* What Enqueued adds are vertices that are no terminals, among them all of S that
\* have excess; it takes none out.
LEMMA EnqueuedFacts ==
    ASSUME NEW Q, NEW S, NEW x, NEW d
    PROVE  /\ DOMAIN Q \subseteq DOMAIN Enqueued(Q, S, x, d)
           /\ DOMAIN Enqueued(Q, S, x, d) \subseteq DOMAIN Q \cup (S \ Terminals)
           /\ \A v \in S \ Terminals : x[v] > 0 => v \in DOMAIN Enqueued(Q, S, x, d)
  BY DEF Enqueued

\* What a push of an amount to t does.
Pushed(t, amount) ==
    LET s == at.node IN
    /\ pc = "discharge" /\ excess[s] > 0 /\ UNCHANGED <<call, dist, count, pc, search>>
    /\ at' \in [node : Nodes, edges : SUBSET Nodes]
    /\ at'.node = s /\ at'.edges = at.edges \ {t}
    /\ amount <= excess[s] /\ amount <= Residual(flow, s, t)
    /\ amount > 0 => dist[s] > dist[t]
    /\ dist[s] <= dist[t] \/ amount = excess[s] \/ amount = Residual(flow, s, t)
    /\ amount = 0 => UNCHANGED <<flow, excess, queue>>
    /\ amount > 0 =>
          /\ flow' \in [Nodes -> [Nodes -> Int]]
          /\ flow'[s][t] = flow[s][t] + amount /\ flow'[t][s] = flow[t][s] - amount
          /\ \A u, v \in Nodes :
                (u # s \/ v # t) /\ (u # t \/ v # s) => flow'[u][v] = flow[u][v]
          /\ excess' \in [Nodes -> Nat]
          /\ excess'[s] = excess[s] - amount /\ excess'[t] = excess[t] + amount
          /\ \A v \in Nodes \ {s, t} : excess'[v] = excess[v]
          /\ queue' = Enqueued(queue, {t}, excess', dist)
    /\ reached' = (reached \/ (call.limited /\ amount > 0 /\ t \in call.sinks
                                        /\ excess'[t] >= call.limit))

\* The types of what a push reads.
LEMMA PushTypes ==
    ASSUME IInv, pc = "discharge", NEW t \in at.edges
    PROVE  /\ at.node \in Nodes /\ t \in Nodes /\ at.node \notin Terminals
           /\ dist[at.node] \in Nat /\ dist[t] \in Nat
           /\ excess[at.node] \in Nat /\ excess[t] \in Nat
           /\ Residual(flow, at.node, t) \in Int /\ Residual(flow, at.node, t) >= 0
  <1> USE DEF Nodes, Terminals
  <1> DEFINE s == at.node
  <1>1. /\ s \in Nodes /\ t \in Nodes /\ s \notin Terminals
        /\ dist[s] \in Nat /\ dist[t] \in Nat /\ excess[s] \in Nat /\ excess[t] \in Nat
    <2>1. call.n \in Nat
      BY CallFacts DEF IInv, Types
    <2> QED
      BY <2>1 DEF IInv, Types
  <1>2. Residual(flow, s, t) \in Int /\ Residual(flow, s, t) >= 0
    <2>1. Residual(flow, s, t) \in Int /\ call.cap[s][t] \in Nat /\ flow[s][t] \in Int
      BY <1>1, ResidualInt DEF IInv, Types
    <2>2. flow[s][t] <= call.cap[s][t]
      BY <1>1 DEF IInv, Preflow, Capacities
    <2> QED
      BY <2>1, <2>2 DEF Residual
  <1> QED
    BY <1>1, <1>2

\* Every push is one of these.
LEMMA PushFacts ==
    ASSUME IInv, Push
    PROVE  \E t \in at.edges, amount \in Nat : Pushed(t, amount)
  <1> DEFINE s == at.node
  <1>1. PICK t \in at.edges :
            LET amount == IF dist[s] <= dist[t] THEN 0
                          ELSE Least(Residual(flow, s, t), excess[s])
            IN  /\ at' = [at EXCEPT !.edges = @ \ {t}]
                /\ flow' = [flow EXCEPT ![s][t] = @ + amount, ![t][s] = @ - amount]
                /\ excess' = [excess EXCEPT ![s] = @ - amount, ![t] = @ + amount]
                /\ reached' = (reached \/ (call.limited /\ amount > 0 /\ t \in call.sinks
                                                    /\ excess'[t] >= call.limit))
                /\ queue' = IF amount = 0 THEN queue ELSE Enqueued(queue, {t}, excess', dist)
    BY DEF Push
  <1> DEFINE amount == IF dist[s] <= dist[t] THEN 0
                       ELSE Least(Residual(flow, s, t), excess[s])
  <1>2. pc = "discharge" /\ excess[s] > 0 /\ UNCHANGED <<call, dist, count, pc, search>>
    BY DEF Push
  <1>3. /\ s \in Nodes /\ t \in Nodes /\ s \notin Terminals
        /\ dist[s] \in Nat /\ dist[t] \in Nat /\ excess[s] \in Nat /\ excess[t] \in Nat
        /\ Residual(flow, s, t) \in Int /\ Residual(flow, s, t) >= 0
    BY <1>2, PushTypes
  <1>4. /\ amount \in Nat /\ amount <= excess[s] /\ amount <= Residual(flow, s, t)
        /\ amount > 0 => dist[s] > dist[t]
        /\ dist[s] <= dist[t] \/ amount = excess[s] \/ amount = Residual(flow, s, t)
    BY <1>3 DEF Least
  <1>5. /\ at' = [at EXCEPT !.edges = @ \ {t}]
        /\ flow' = [flow EXCEPT ![s][t] = @ + amount, ![t][s] = @ - amount]
        /\ excess' = [excess EXCEPT ![s] = @ - amount, ![t] = @ + amount]
        /\ queue' = IF amount = 0 THEN queue ELSE Enqueued(queue, {t}, excess', dist)
        /\ reached' = (reached \/ (call.limited /\ amount > 0 /\ t \in call.sinks
                                            /\ excess'[t] >= call.limit))
    BY <1>1
  <1> HIDE DEF amount
  <1>6. /\ at' \in [node : Nodes, edges : SUBSET Nodes]
        /\ at'.node = s /\ at'.edges = at.edges \ {t}
    BY <1>5 DEF IInv, Types
  <1>7. flow \in [Nodes -> [Nodes -> Int]] /\ excess \in [Nodes -> Nat]
    BY DEF IInv, Types
  <1>8. amount = 0 => UNCHANGED <<flow, excess, queue>>
    <2> HAVE amount = 0
    <2>1. flow' = flow
      BY <1>3, <1>5, <1>7
    <2>2. excess' = excess /\ queue' = queue
      BY <1>3, <1>5, <1>7
    <2> QED
      BY <2>1, <2>2
  <1>9. ASSUME amount > 0
        PROVE  /\ s # t
               /\ flow' \in [Nodes -> [Nodes -> Int]]
               /\ flow'[s][t] = flow[s][t] + amount /\ flow'[t][s] = flow[t][s] - amount
               /\ \A u, v \in Nodes :
                     (u # s \/ v # t) /\ (u # t \/ v # s) => flow'[u][v] = flow[u][v]
    <2>1. s # t
      BY <1>3, <1>4, <1>9
    <2>2. flow \in [Nodes -> [Nodes -> Int]]
      BY <1>7
    <2> HIDE DEF s
    <2>3. /\ flow' \in [Nodes -> [Nodes -> Int]]
          /\ flow'[s][t] = flow[s][t] + amount /\ flow'[t][s] = flow[t][s] - amount
          /\ \A u, v \in Nodes :
                (u # s \/ v # t) /\ (u # t \/ v # s) => flow'[u][v] = flow[u][v]
      <3>1. /\ amount \in Int /\ s \in Nodes /\ t \in Nodes
            /\ flow' = [flow EXCEPT ![s][t] = @ + amount, ![t][s] = @ - amount]
        BY <1>3, <1>4, <1>5
      <3>2. flow[s] \in [Nodes -> Int] /\ flow[t] \in [Nodes -> Int]
        BY <2>2, <3>1
      <3>3. flow'[s] = [flow[s] EXCEPT ![t] = @ + amount]
        BY <2>1, <2>2, <3>1
      <3>4. flow'[t] = [flow[t] EXCEPT ![s] = @ - amount]
        BY <2>1, <2>2, <3>1
      <3>5. \A u \in Nodes \ {s, t} : flow'[u] = flow[u]
        BY <2>1, <2>2, <3>1
      <3>6. DOMAIN flow' = Nodes /\ flow' = [u \in Nodes |-> flow'[u]]
        BY <2>2, <3>1
      <3>7. flow'[s] \in [Nodes -> Int] /\ flow'[t] \in [Nodes -> Int]
        <4>1. flow[s][t] + amount \in Int /\ flow[t][s] - amount \in Int
          BY <3>1, <3>2
        <4>2. [flow[s] EXCEPT ![t] = @ + amount] \in [Nodes -> Int]
          BY <3>1, <3>2, <4>1
        <4>3. [flow[t] EXCEPT ![s] = @ - amount] \in [Nodes -> Int]
          BY <3>1, <3>2, <4>1
        <4> QED
          BY <3>3, <3>4, <4>2, <4>3
      <3>8. flow' \in [Nodes -> [Nodes -> Int]]
        BY <2>2, <3>5, <3>6, <3>7
      <3>9. flow'[s][t] = flow[s][t] + amount /\ flow'[t][s] = flow[t][s] - amount
        BY <3>1, <3>2, <3>3, <3>4
      <3>10. ASSUME NEW u \in Nodes, NEW v \in Nodes, u # s \/ v # t, u # t \/ v # s
             PROVE  flow'[u][v] = flow[u][v]
        BY <2>1, <3>2, <3>3, <3>4, <3>5, <3>10
      <3> QED
        BY <3>8, <3>9, <3>10
    <2> QED
      BY <2>1, <2>3
  <1>10. ASSUME amount > 0
         PROVE  /\ excess' \in [Nodes -> Nat]
                /\ excess'[s] = excess[s] - amount /\ excess'[t] = excess[t] + amount
                /\ \A v \in Nodes \ {s, t} : excess'[v] = excess[v]
    BY <1>3, <1>4, <1>5, <1>7, <1>9, <1>10
  <1> QED
    <2>1. amount > 0 => queue' = Enqueued(queue, {t}, excess', dist)
      BY <1>4, <1>5
    <2>2. Pushed(t, amount)
      BY <1>2, <1>4, <1>5, <1>6, <1>8, <1>9, <1>10, <2>1 DEF Pushed
    <2> QED
      BY <1>4, <2>2

\* Flow goes downhill only and never more than fits; the edge that it opens
\* backwards leads uphill by one level at most.
LEMMA PushKeepsIInv ==
    ASSUME IInv, Push
    PROVE  IInv'
  <1> USE DEF Nodes, Terminals
  <1> DEFINE s == at.node
  <1>1. PICK t \in at.edges, amount \in Nat : Pushed(t, amount)
    BY PushFacts
  <1>2. pc = "discharge" /\ excess[s] > 0 /\ UNCHANGED <<call, dist, count, pc, search>>
    BY <1>1 DEF Pushed
  <1>3. /\ s \in Nodes /\ t \in Nodes /\ s \notin Terminals
        /\ dist[s] \in Nat /\ dist[t] \in Nat /\ excess[s] \in Nat /\ excess[t] \in Nat
    BY <1>2, PushTypes
  <1>4. Residual(flow, s, t) \in Int /\ Residual(flow, s, t) >= 0
    BY <1>2, PushTypes
  <1>5. /\ amount \in Nat /\ amount <= excess[s] /\ amount <= Residual(flow, s, t)
        /\ amount > 0 => dist[s] > dist[t]
        /\ dist[s] <= dist[t] \/ amount = excess[s] \/ amount = Residual(flow, s, t)
    BY <1>1 DEF Pushed
  <1>6. at' \in [node : Nodes, edges : SUBSET Nodes]
    BY <1>1 DEF Pushed
  <1>7. at'.node = s /\ at'.edges = at.edges \ {t}
    BY <1>1 DEF Pushed
  <1>8. CASE amount = 0
    <2>1. flow' = flow
      BY <1>1, <1>8 DEF Pushed
    <2>2. excess' = excess /\ queue' = queue
      BY <1>1, <1>8 DEF Pushed
    <2>3. Types'
      BY <1>2, <1>6, <1>7, <2>1, <2>2 DEF IInv, Types
    <2>4. Preflow'
      BY <1>2, <1>7, <2>1, <2>2 DEF IInv, Preflow, Capacities, NoneStranded
    <2>5. Levels'
      BY <1>2 DEF IInv, Levels
    <2>6. Valid(dist)'
      BY <1>2, <2>1 DEF IInv, Valid, Residual
    <2>7. Reads'
      <3>1. Residual(flow, s, t) <= 0 \/ dist[t] >= dist[s]
        BY <1>2, <1>3, <1>4, <1>5, <1>8
      <3> QED
        BY <1>2, <1>7, <2>1, <2>2, <3>1 DEF IInv, Reads, Neighbors, Residual
    <2>8. Searching'
      BY <1>2 DEF Searching
    <2> QED
      BY <2>3, <2>4, <2>5, <2>6, <2>7, <2>8 DEF IInv
  <1>9. CASE amount > 0
    <2>1. s # t
      BY <1>3, <1>5, <1>9
    <2>2. flow \in [Nodes -> [Nodes -> Int]] /\ excess \in [Nodes -> Nat]
      BY DEF IInv, Types
    <2>3. /\ flow' \in [Nodes -> [Nodes -> Int]]
          /\ flow'[s][t] = flow[s][t] + amount /\ flow'[t][s] = flow[t][s] - amount
          /\ \A u, v \in Nodes :
                (u # s \/ v # t) /\ (u # t \/ v # s) => flow'[u][v] = flow[u][v]
      BY <1>1, <1>9 DEF Pushed
    <2>4. /\ excess' \in [Nodes -> Nat]
          /\ excess'[s] = excess[s] - amount
          /\ \A v \in Nodes \ {s, t} : excess'[v] = excess[v]
      BY <1>1, <1>9 DEF Pushed
    <2>5. /\ DOMAIN queue \subseteq DOMAIN queue'
          /\ DOMAIN queue' \subseteq DOMAIN queue \cup ({t} \ Terminals)
          /\ t \notin Terminals /\ excess'[t] > 0 => t \in DOMAIN queue'
      <3>1. queue' = Enqueued(queue, {t}, excess', dist)
        BY <1>1, <1>9 DEF Pushed
      <3> QED
        BY <3>1, EnqueuedFacts
    <2>5a. Residual(flow', s, t) = Residual(flow, s, t) - amount
      <3>1. call.cap[s][t] \in Nat /\ flow[s][t] \in Int
        BY <1>3, ResidualInt DEF IInv, Types
      <3> QED
        BY <1>5, <2>3, <3>1 DEF Residual
    <2>6. Types'
      BY <1>2, <1>3, <1>6, <1>7, <2>3, <2>4, <2>5 DEF IInv, Types
    <2>7. Capacities'
      <3> SUFFICES ASSUME NEW u \in Nodes, NEW v \in Nodes
                   PROVE  flow'[u][v] = -flow'[v][u] /\ flow'[u][v] <= call.cap[u][v]
        BY <1>2 DEF Capacities
      <3>1. /\ flow[u][v] = -flow[v][u] /\ flow[u][v] <= call.cap[u][v]
            /\ flow[u][v] \in Int /\ flow[v][u] \in Int /\ call.cap[u][v] \in Nat
        BY ResidualInt DEF IInv, Types, Preflow, Capacities
      <3>2. CASE u = s /\ v = t
        <4>1. amount <= call.cap[s][t] - flow[s][t]
          BY <1>5 DEF Residual
        <4> QED
          BY <1>5, <2>3, <3>1, <3>2, <4>1
      <3>3. CASE u = t /\ v = s
        BY <1>5, <1>9, <2>3, <3>1, <3>3
      <3>4. CASE ~(u = s /\ v = t) /\ ~(u = t /\ v = s)
        BY <2>3, <3>1, <3>4
      <3> QED
        BY <3>2, <3>3, <3>4
    <2>8. NoneStranded'
      BY <1>2, <1>7, <2>4, <2>5 DEF IInv, Preflow, NoneStranded
    <2>9. Levels'
      BY <1>2 DEF IInv, Levels
    <2>10. Valid(dist)'
      <3> SUFFICES ASSUME NEW u \in Nodes, NEW v \in Nodes, Residual(flow, u, v)' > 0
                   PROVE  dist[u] <= dist[v] + 1
        BY <1>2 DEF Valid, Residual
      <3>1. Residual(flow, u, v) > 0 => dist[u] <= dist[v] + 1
        BY <1>2 DEF IInv, Valid
      <3>2. CASE u = t /\ v = s
        BY <1>3, <1>5, <1>9, <3>2
      <3>3. CASE u = s /\ v = t
        <4>1. Residual(flow', s, t) > 0
          BY <1>2, <3>3 DEF Residual
        <4> QED
          BY <1>4, <1>5, <2>5a, <3>1, <3>3, <4>1
      <3>4. CASE ~(u = s /\ v = t) /\ ~(u = t /\ v = s)
        BY <1>2, <2>3, <3>1, <3>4 DEF Residual
      <3> QED
        BY <3>2, <3>3, <3>4
    <2>11. Reads'
      <3> SUFFICES ASSUME excess'[s] > 0, NEW v \in Neighbors(s) \ (at.edges \ {t})
                   PROVE  Residual(flow', s, v) <= 0 \/ dist[v] >= dist[s]
        BY <1>2, <1>7 DEF Reads, Neighbors, Residual
      <3>1. CASE v = t
        <4>1. amount = Residual(flow, s, t)
          BY <1>3, <1>5, <1>9, <2>4
        <4> QED
          BY <1>4, <2>5a, <3>1, <4>1
      <3>2. CASE v # t
        <4>1. v \in Nodes /\ v # s
          <5>1. v \in Nodes /\ call.cap[s][v] > 0
            BY DEF Neighbors
          <5>2. call.cap[s][s] = 0
            BY <1>3, CallFacts DEF IInv, Types
          <5> QED
            BY <5>1, <5>2
        <4>2. Residual(flow, s, v) <= 0 \/ dist[v] >= dist[s]
          BY <1>2, <3>2 DEF IInv, Reads
        <4>3. flow'[s][v] = flow[s][v]
          BY <1>3, <2>3, <3>2, <4>1
        <4> QED
          BY <4>2, <4>3 DEF Residual
      <3> QED
        BY <3>1, <3>2
    <2>12. Searching'
      BY <1>2 DEF Searching
    <2> QED
      BY <1>2, <2>6, <2>7, <2>8, <2>9, <2>10, <2>11, <2>12 DEF IInv, Preflow
  <1> QED
    BY <1>5, <1>8, <1>9

\* Numbers that the steps which change labels compute with.
LEMMA Numbers ==
    ASSUME IInv
    PROVE  /\ call.n \in Nat /\ call.n >= 1
           /\ dist \in [Nodes -> 0 .. 2 * call.n] /\ \A v \in Nodes : dist[v] \in Nat
           /\ excess \in [Nodes -> Nat]
           /\ call.src \in Nodes /\ call.sinks \subseteq Nodes
  <1>1. call.n \in Nat /\ call.n >= 1 /\ call.src \in Nodes /\ call.sinks \subseteq Nodes
    BY CallFacts DEF IInv, Types
  <1>2. dist \in [Nodes -> 0 .. 2 * call.n] /\ excess \in [Nodes -> Nat]
    BY DEF IInv, Types
  <1>3. \A v \in Nodes : dist[v] \in Nat
    BY <1>1, <1>2
  <1> QED
    BY <1>1, <1>2, <1>3

\* New labels that are counted keep the counters above the levels, if they leave
\* the terminals alone and are positive elsewhere.
LEMMA LevelsKept ==
    ASSUME IInv, UNCHANGED call,
           dist' \in [Nodes -> 0 .. 2 * call.n],
           count' = Counted(count, dist, dist'),
           \A v \in Terminals : dist'[v] = dist[v],
           \A v \in Nodes \ Terminals : dist'[v] >= 1
    PROVE  count' \in [0 .. 2 * call.n - 1 -> Int] /\ Levels'
  <1>1. DOMAIN dist = Nodes /\ DOMAIN dist' = Nodes
    BY DEF IInv, Types
  <1>2. /\ count' \in [0 .. 2 * call.n - 1 -> Int]
        /\ \A k \in 1 .. call.n - 1 : HowMany(dist', k) <= count'[k]
    BY <1>1, CountedKeeps DEF IInv, Types, Levels
  <1>3. dist'[call.src] = call.n /\ \A s \in call.sinks : dist'[s] = 0
    BY DEF IInv, Levels, Terminals
  <1>4. \A v \in Nodes \ call.sinks : dist'[v] >= 1
    BY <1>3, Numbers DEF Terminals
  <1> QED
    BY <1>2, <1>3, <1>4 DEF Levels, Nodes

\* The gap heuristic: the vertex in discharge is alone on its level and no edge of
\* it leads further down, so that no edge crosses the level.
LEMMA GapKeepsIInv ==
    ASSUME IInv, GapHeuristic
    PROVE  IInv'
  <1> DEFINE n == call.n
             s == at.node
             above == {v \in Nodes : dist[v] >= dist[s]}
  <1>1. /\ pc = "discharge" /\ excess[s] > 0 /\ at.edges = {}
        /\ count[dist[s]] = 1 /\ dist[s] < n
        /\ dist' = [v \in Nodes |-> IF v \in above THEN Greatest(dist[v], n) ELSE dist[v]]
        /\ count' = Counted(count, dist, dist')
        /\ queue' = Enqueued(queue, above, excess, dist')
        /\ pc' = "discharged"
        /\ UNCHANGED <<call, flow, excess, at, search>>
    BY DEF GapHeuristic, Gap
  <1>2. s \in Nodes /\ s \notin Terminals
    BY <1>1 DEF IInv, Types
  <1>3. dist[s] >= 1
    BY <1>2 DEF IInv, Levels, Terminals
  <1>4. \A v \in Nodes : /\ dist'[v] \in 0 .. 2 * n /\ dist'[v] >= dist[v]
                         /\ v \notin above => dist'[v] = dist[v] /\ dist[v] < dist[s]
                         /\ v \in above => dist[v] >= dist[s]
                                           /\ (dist'[v] = n \/ dist'[v] = dist[v])
                                           /\ dist'[v] >= n
    BY <1>1, <1>2, Numbers DEF Greatest
  <1>5. dist' \in [Nodes -> 0 .. 2 * n]
    BY <1>1, <1>4
  <1>6. \A v \in Terminals : dist'[v] = dist[v]
    <2> SUFFICES ASSUME NEW v \in Terminals PROVE dist'[v] = dist[v]
      OBVIOUS
    <2>1. CASE v = call.src
      <3>1. dist[v] = n /\ v \in Nodes
        BY <2>1, Numbers DEF IInv, Levels
      <3> QED
        BY <1>4, <3>1
    <2>2. CASE v \in call.sinks
      <3>1. dist[v] = 0 /\ v \in Nodes
        BY <2>2, Numbers DEF IInv, Levels
      <3>2. v \notin above
        BY <1>2, <1>3, <3>1, Numbers
      <3> QED
        BY <1>4, <3>1, <3>2
    <2> QED
      BY <2>1, <2>2 DEF Terminals
  <1>7. \A v \in Nodes \ Terminals : dist'[v] >= 1
    <2>1. \A v \in Nodes \ Terminals : dist[v] >= 1
      BY DEF IInv, Levels, Terminals
    <2> QED
      BY <1>4, <2>1, Numbers
  <1>8. count' \in [0 .. 2 * n - 1 -> Int] /\ Levels'
    BY <1>1, <1>5, <1>6, <1>7, LevelsKept
  <1>9. /\ DOMAIN queue \subseteq DOMAIN queue' /\ DOMAIN queue' \subseteq Nodes \ Terminals
        /\ s \in DOMAIN queue'
    <2>1. DOMAIN queue \subseteq Nodes \ Terminals
      BY DEF IInv, Types
    <2>2. s \in above
      BY <1>2, Numbers
    <2> QED
      BY <1>1, <1>2, <2>1, <2>2, EnqueuedFacts
  <1>10. Types'
    BY <1>1, <1>5, <1>8, <1>9 DEF IInv, Types, Nodes, Terminals
  <1>11. Preflow'
    <2>1. Capacities'
      BY <1>1 DEF IInv, Preflow, Capacities, Nodes
    <2>2. NoneStranded'
      BY <1>1, <1>9 DEF IInv, Preflow, NoneStranded, Nodes, Terminals
    <2> QED
      BY <2>1, <2>2 DEF Preflow
  <1>12. Valid(dist)'
    <2> SUFFICES ASSUME NEW u \in Nodes, NEW v \in Nodes, Residual(flow, u, v) > 0
                 PROVE  dist'[u] <= dist'[v] + 1
      BY <1>1 DEF Valid, Residual, Nodes
    <2>1. dist[u] <= dist[v] + 1
      BY <1>1 DEF IInv, Valid
    <2>2. CASE u \notin above
      BY <1>4, <2>1, <2>2, Numbers
    <2>3. CASE u \in above /\ v \in above
      BY <1>4, <2>1, <2>3, Numbers
    <2>4. CASE u \in above /\ v \notin above
      <3>1. dist[u] = dist[s] /\ dist[v] < dist[s]
        BY <1>2, <1>4, <2>1, <2>4, Numbers
      <3>2. HowMany(dist, dist[s]) <= 1
        BY <1>1, <1>2, <1>3, Numbers DEF IInv, Levels
      <3>3. u = s
        <4>1. DOMAIN dist = Nodes /\ IsFiniteSet(Nodes)
          BY CallFacts, Numbers DEF IInv, Types
        <4> QED
          BY <1>2, <3>1, <3>2, <4>1, Alone
      <3>4. v \in Neighbors(s) \ at.edges
        BY <1>1, <3>3, OnlyEdges DEF IInv, Types, Preflow
      <3>5. Residual(flow, s, v) <= 0 \/ dist[v] >= dist[s]
        BY <1>1, <3>4 DEF IInv, Reads
      <3>6. Residual(flow, s, v) \in Int
        BY <1>2, ResidualInt DEF IInv, Types
      <3> QED
        BY <1>2, <3>1, <3>3, <3>5, <3>6, Numbers
    <2> QED
      BY <2>2, <2>3, <2>4
  <1> QED
    BY <1>1, <1>8, <1>10, <1>11, <1>12 DEF IInv, Reads, Searching

\* A set of natural numbers has a least member, which CHOOSE finds.
LEMMA LeastMember ==
    ASSUME NEW L \in SUBSET Nat, L # {}
    PROVE  LET k == CHOOSE i \in L : \A j \in L : i <= j
           IN  k \in L /\ \A j \in L : k <= j
  <1>1. PICK x \in L : \A y \in L : ~(<<y, x>> \in OpToRel(<, Nat))
    BY WFMin, NatLessThanWellFounded
  <1>2. \A y \in L : x <= y
    <2> SUFFICES ASSUME NEW y \in L PROVE x <= y
      OBVIOUS
    <2>1. x \in Nat /\ y \in Nat
      OBVIOUS
    <2>2. <<y, x>> \in Nat \X Nat
      BY <2>1
    <2>3. ~(y < x)
      BY <1>1, <2>2 DEF OpToRel
    <2> QED
      BY <2>1, <2>3
  <1> QED
    BY <1>2

\* Relabelling: the new label is above the old one, as all edges that lead further
\* down have been read, and above no residual neighbour by more than one level.
LEMMA RelabelKeepsIInv ==
    ASSUME IInv, Relabel
    PROVE  IInv'
  <1> DEFINE n == call.n
             s == at.node
             labels == {dist[t] + 1 : t \in {u \in Neighbors(s) : Residual(flow, s, u) > 0}} \cup {2 * n}
             k == CHOOSE i \in labels : \A j \in labels : i <= j
  <1>1. /\ pc = "discharge" /\ excess[s] > 0 /\ at.edges = {}
        /\ dist' = [dist EXCEPT ![s] = k]
        /\ count' = Counted(count, dist, dist')
        /\ queue' = Enqueued(queue, {s}, excess, dist')
        /\ pc' = "discharged"
        /\ UNCHANGED <<call, flow, excess, at, search>>
    BY DEF Relabel
  <1>2. s \in Nodes /\ s \notin Terminals
    BY <1>1 DEF IInv, Types
  <1>3. labels \in SUBSET Nat /\ labels # {} /\ 2 * n \in labels
    <2>1. \A t \in Neighbors(s) : dist[t] + 1 \in Nat
      BY Numbers DEF Neighbors
    <2> QED
      BY <2>1, Numbers
  <1>4. k \in labels /\ \A j \in labels : k <= j
    BY <1>3, LeastMember
  <1>5. k \in Nat /\ k <= 2 * n
    BY <1>3, <1>4
  <1>6. \A j \in labels : j > dist[s] \/ j = 2 * n
    <2> SUFFICES ASSUME NEW t \in Neighbors(s), Residual(flow, s, t) > 0
                 PROVE  dist[t] + 1 > dist[s]
      OBVIOUS
    <2>1. t \in Nodes
      BY DEF Neighbors
    <2>2. Residual(flow, s, t) \in Int
      BY <1>2, <2>1, ResidualInt DEF IInv, Types
    <2>3. Residual(flow, s, t) <= 0 \/ dist[t] >= dist[s]
      BY <1>1 DEF IInv, Reads
    <2> QED
      BY <1>2, <2>1, <2>2, <2>3, Numbers
  <1>7. k >= 1 /\ k >= dist[s]
    <2>1. dist[s] \in 0 .. 2 * n /\ dist[s] >= 1
      BY <1>2, Numbers DEF IInv, Levels, Terminals
    <2>2. k > dist[s] \/ k = 2 * n
      BY <1>4, <1>6
    <2> HIDE DEF k
    <2> QED
      BY <1>5, <2>1, <2>2, Numbers
  <1>8. \A t \in Nodes : Residual(flow, s, t) > 0 => k <= dist[t] + 1
    <2> SUFFICES ASSUME NEW t \in Nodes, Residual(flow, s, t) > 0
                 PROVE  k <= dist[t] + 1
      OBVIOUS
    <2>1. t \in Neighbors(s)
      BY <1>2, OnlyEdges DEF IInv, Types, Preflow
    <2>2. dist[t] + 1 \in labels
      BY <2>1
    <2> QED
      BY <1>4, <2>2
  <1> HIDE DEF k, labels
  <1>9. /\ dist'[s] = k /\ \A v \in Nodes \ {s} : dist'[v] = dist[v]
        /\ dist' \in [Nodes -> 0 .. 2 * n]
    BY <1>1, <1>2, <1>5, Numbers
  <1>10. \A v \in Terminals : dist'[v] = dist[v]
    BY <1>2, <1>9, Numbers DEF Terminals
  <1>11. \A v \in Nodes \ Terminals : dist'[v] >= 1
    <2>1. \A v \in Nodes \ Terminals : dist[v] >= 1
      BY DEF IInv, Levels, Terminals
    <2> QED
      BY <1>7, <1>9, <2>1
  <1>12. count' \in [0 .. 2 * n - 1 -> Int] /\ Levels'
    BY <1>1, <1>9, <1>10, <1>11, LevelsKept
  <1>13. /\ DOMAIN queue \subseteq DOMAIN queue' /\ DOMAIN queue' \subseteq Nodes \ Terminals
         /\ s \in DOMAIN queue'
    <2>1. DOMAIN queue \subseteq Nodes \ Terminals
      BY DEF IInv, Types
    <2> QED
      BY <1>1, <1>2, <2>1, EnqueuedFacts
  <1>14. Types'
    BY <1>1, <1>9, <1>12, <1>13 DEF IInv, Types, Nodes, Terminals
  <1>15. Preflow'
    <2>1. Capacities'
      BY <1>1 DEF IInv, Preflow, Capacities, Nodes
    <2>2. NoneStranded'
      BY <1>1, <1>13 DEF IInv, Preflow, NoneStranded, Nodes, Terminals
    <2> QED
      BY <2>1, <2>2 DEF Preflow
  <1>16. Valid(dist)'
    <2> SUFFICES ASSUME NEW u \in Nodes, NEW v \in Nodes, Residual(flow, u, v) > 0
                 PROVE  dist'[u] <= dist'[v] + 1
      BY <1>1 DEF Valid, Residual, Nodes
    <2>1. dist[u] <= dist[v] + 1
      BY <1>1 DEF IInv, Valid
    <2>2. dist'[v] >= dist[v] /\ dist'[v] \in Nat
      BY <1>5, <1>7, <1>9, Numbers
    <2>3. CASE u # s
      BY <1>9, <2>1, <2>2, <2>3, Numbers
    <2>4. CASE u = s
      BY <1>5, <1>8, <1>9, <2>2, <2>4, Numbers
    <2> QED
      BY <2>3, <2>4
  <1> QED
    BY <1>1, <1>12, <1>14, <1>15, <1>16 DEF IInv, Reads, Searching

\* The labels of a search start above all levels but 0; their floor are the labels
\* before it.
LEMMA RelabelingKeepsIInv ==
    ASSUME IInv, GlobalRelabeling
    PROVE  IInv'
  <1> DEFINE n == call.n
             m == Cardinality(call.sinks)
  <1>1. /\ pc = "discharged" /\ pc' = "search"
        /\ dist' = [v \in Nodes |-> IF v = call.src THEN n
                                    ELSE IF v \in call.sinks THEN 0 ELSE Greatest(dist[v], n)]
        /\ count' = [count EXCEPT ![n] = @ - m, ![0] = @ + m]
        /\ search' = [touched |-> Terminals, open |-> call.sinks, level |-> 0, far |-> n]
        /\ UNCHANGED <<call, flow, excess, queue, at>>
    BY DEF GlobalRelabeling
  <1>2. /\ IsFiniteSet(call.sinks) /\ m \in Nat /\ call.src \notin call.sinks
        /\ IsFiniteSet(Nodes)
    BY CallFacts, FS_Subset, FS_CardinalityType DEF IInv, Types
  <1>3. dist[call.src] = n /\ \A v \in call.sinks : dist[v] = 0
    BY DEF IInv, Levels
  <1>4. \A v \in Nodes : /\ dist'[v] \in 0 .. 2 * n /\ dist'[v] >= dist[v]
                         /\ v \in call.sinks => dist'[v] = 0
                         /\ v \notin call.sinks => dist'[v] >= n
                         /\ v \notin Terminals => dist'[v] = Greatest(dist[v], n)
    BY <1>1, <1>2, <1>3, Numbers DEF Greatest, Terminals
  <1>5. dist' \in [Nodes -> 0 .. 2 * n] /\ dist'[call.src] = n
    BY <1>1, <1>4, Numbers
  <1>6. /\ count' \in [0 .. 2 * n - 1 -> Int]
        /\ \A k \in 1 .. n - 1 : count'[k] = count[k] /\ count[k] \in Int
    <2>1. count \in [0 .. 2 * n - 1 -> Int]
      BY DEF IInv, Types
    <2>2. n \in 0 .. 2 * n - 1 /\ 0 \in 0 .. 2 * n - 1 /\ n # 0
          /\ \A k \in 1 .. n - 1 : k \in 0 .. 2 * n - 1 /\ k # n /\ k # 0
      BY Numbers
    <2>3. count' = [count EXCEPT ![n] = @ - m, ![0] = @ + m] /\ m \in Int
      BY <1>1, <1>2
    <2> DEFINE D == 0 .. 2 * n - 1
    <2> HIDE DEF n, m, D
    <2>4. count \in [D -> Int] /\ n \in D /\ 0 \in D /\ n # 0
      BY <2>1, <2>2 DEF D
    <2>5. count[n] - m \in Int /\ count[0] + m \in Int
      BY <2>3, <2>4
    <2>6. count' = [k \in D |-> IF k = n THEN count[n] - m
                                ELSE IF k = 0 THEN count[0] + m ELSE count[k]]
      BY <2>3, <2>4
    <2>7. count' \in [D -> Int]
      BY <2>4, <2>5, <2>6
    <2>8. \A k \in D \ {0, n} : count'[k] = count[k] /\ count[k] \in Int
      BY <2>4, <2>6
    <2> QED
      BY <2>2, <2>7, <2>8 DEF D
  <1>7. ASSUME NEW k \in 1 .. n - 1
        PROVE  HowMany(dist', k) <= count'[k]
    <2>1. \A v \in DOMAIN dist' : dist'[v] # k
      BY <1>4, <1>5, Numbers
    <2>2. HowMany(dist', k) = 0
      BY <2>1, HowManyZero
    <2>3. HowMany(dist, k) <= count[k]
      BY DEF IInv, Levels
    <2>4. HowMany(dist, k) \in Nat
      BY <1>2, Numbers, HowManyNat
    <2> QED
      BY <1>6, <2>2, <2>3, <2>4
  <1>8. Levels'
    <2>1. \A v \in Nodes \ call.sinks : dist'[v] >= 1
      BY <1>4, Numbers
    <2> QED
      BY <1>1, <1>4, <1>5, <1>7, <2>1, Numbers DEF Levels, Nodes
  <1>9. Types'
    <2>1. search' \in [touched : SUBSET Nodes, open : SUBSET Nodes, level : Nat, far : Nat]
      BY <1>1, Numbers DEF Terminals
    <2> QED
      BY <1>1, <1>5, <1>6, <2>1 DEF IInv, Types, Nodes, Terminals
  <1>10. Preflow'
    <2>1. Capacities'
      BY <1>1 DEF IInv, Preflow, Capacities, Nodes
    <2>2. NoneStranded'
      BY <1>1 DEF IInv, Preflow, NoneStranded, Nodes, Terminals
    <2> QED
      BY <2>1, <2>2 DEF Preflow
  <1>11. Searching'
    <2>1. /\ search'.touched = Terminals /\ search'.open = call.sinks
          /\ search'.level = 0 /\ search'.far = n
          /\ search'.touched \ {call.src} = call.sinks
      BY <1>1, <1>2 DEF Terminals
    <2>2. \A v \in Nodes \ Terminals : dist'[v] >= n /\ dist'[v] <= Greatest(dist[v], n + 1)
      BY <1>4, Numbers DEF Terminals, Greatest
    <2>3. dist \in [Nodes -> Nat]
      BY Numbers
    <2>4. \E d \in [Nodes -> Nat] : Floor(d)'
      <3>1. \A u, v \in Nodes : Residual(flow', u, v) > 0 => dist[u] <= dist[v] + 1
        BY <1>1 DEF IInv, Valid
      <3>2. \A v \in Nodes : dist[v] <= dist'[v]
        BY <1>4, Numbers
      <3> QED
        BY <1>1, <1>3, <2>1, <2>2, <2>3, <3>1, <3>2 DEF Floor, Valid, Residual, Nodes
    <2> QED
      BY <1>1, <1>3, <1>4, <2>1, <2>2, <2>4, Numbers DEF Searching, Nodes, Terminals
  <1> QED
    BY <1>1, <1>8, <1>9, <1>10, <1>11 DEF IInv, Reads

\* The next level of the search: what it finds were the last vertices with an edge
\* into the level before, and no label falls below its floor.
LEMMA SearchKeepsIInv ==
    ASSUME IInv, Search
    PROVE  IInv'
  <1> DEFINE n == call.n
             old == search.touched
             level == search.level
             found == {t \in Nodes \ old : \E u \in search.open : Residual(flow, t, u) > 0}
             inside == old \ {call.src}
  <1>1. /\ pc = "search" /\ pc' = "search" /\ level < search.far
        /\ dist' = [v \in Nodes |-> IF v \in found THEN level + 1 ELSE dist[v]]
        /\ count' = Counted(count, dist, dist')
        /\ search' = [search EXCEPT !.touched = @ \cup found, !.open = found, !.level = @ + 1]
        /\ UNCHANGED <<call, flow, excess, queue, at>>
    BY DEF Search
  <1>2. /\ Terminals \subseteq old /\ old \subseteq Nodes /\ search.open \subseteq inside
        /\ level \in Nat /\ search.far \in Nat /\ search.far <= n
        /\ \A u \in inside : dist[u] <= level
        /\ \A u \in search.open : dist[u] = level
        /\ \A u \in inside \ search.open, t \in Nodes \ old : Residual(flow, t, u) <= 0
        /\ \A u, v \in inside : Residual(flow, u, v) > 0 => dist[u] <= dist[v] + 1
        /\ \A v \in Nodes \ old : dist[v] >= search.far
    BY <1>1 DEF IInv, Types, Searching
  <1>3. /\ search'.touched = old \cup found /\ search'.open = found
        /\ search'.level = level + 1 /\ search'.far = search.far
        /\ search' \in [touched : SUBSET Nodes, open : SUBSET Nodes, level : Nat, far : Nat]
    <2>1. search \in [touched : SUBSET Nodes, open : SUBSET Nodes, level : Nat, far : Nat]
      BY DEF IInv, Types
    <2>2. found \subseteq Nodes
      OBVIOUS
    <2>3. search' = [search EXCEPT !.touched = @ \cup found, !.open = found, !.level = @ + 1]
      BY <1>1
    <2>4. search.level + 1 \in Nat
      BY <2>1
    <2> HIDE DEF found
    <2>5. /\ search'.touched = old \cup found /\ search'.open = found
          /\ search'.level = level + 1 /\ search'.far = search.far
      BY <2>1, <2>3
    <2>6. search' \in [touched : SUBSET Nodes, open : SUBSET Nodes, level : Nat, far : Nat]
      BY <2>1, <2>2, <2>3, <2>4
    <2> QED
      BY <2>5, <2>6
  <1>4. found \subseteq Nodes /\ found \cap old = {} /\ found \cap Terminals = {} /\ call.src \in old
    BY <1>2 DEF Terminals
  <1>5. \A t \in Nodes \ old, u \in inside :
            Residual(flow, t, u) > 0 => u \in search.open /\ t \in found
    <2> SUFFICES ASSUME NEW t \in Nodes \ old, NEW u \in inside, Residual(flow, t, u) > 0
                 PROVE  u \in search.open /\ t \in found
      OBVIOUS
    <2>1. Residual(flow, t, u) \in Int
      BY <1>2, ResidualInt DEF IInv, Types
    <2>2. u \in search.open
      BY <1>2, <2>1
    <2> QED
      BY <2>2
  <1>6. PICK d \in [Nodes -> Nat] : Floor(d)
    BY <1>1 DEF IInv, Searching
  <1>7. \A t \in found : d[t] <= level + 1
    <2> SUFFICES ASSUME NEW t \in found PROVE d[t] <= level + 1
      OBVIOUS
    <2>1. PICK u \in search.open : Residual(flow, t, u) > 0
      OBVIOUS
    <2>2. t \in Nodes /\ u \in Nodes /\ dist[u] = level
      BY <1>2, <2>1
    <2>3. d[t] <= d[u] + 1 /\ d[u] <= dist[u] /\ d[t] \in Nat /\ d[u] \in Nat
      BY <1>6, <2>1, <2>2 DEF Floor, Valid
    <2> QED
      BY <1>2, <2>2, <2>3
  <1> HIDE DEF found
  <1>8. /\ \A v \in found : dist'[v] = level + 1
        /\ \A v \in Nodes \ found : dist'[v] = dist[v]
        /\ dist' \in [Nodes -> 0 .. 2 * n]
    <2>1. level + 1 \in 0 .. 2 * n
      BY <1>1, <1>2, Numbers
    <2> QED
      BY <1>1, <1>4, <2>1, Numbers
  <1>9. count' \in [0 .. 2 * n - 1 -> Int] /\ Levels'
    <2>1. \A v \in Terminals : dist'[v] = dist[v]
      BY <1>2, <1>4, <1>8
    <2>2. \A v \in Nodes \ Terminals : dist[v] >= 1
      BY DEF IInv, Levels, Terminals
    <2>3. \A v \in Nodes \ Terminals : dist'[v] >= 1
      BY <1>2, <1>8, <2>2
    <2> QED
      BY <1>1, <1>8, <2>1, <2>3, LevelsKept
  <1>10. Types'
    BY <1>1, <1>3, <1>8, <1>9 DEF IInv, Types, Nodes, Terminals
  <1>11. Preflow'
    <2>1. Capacities'
      BY <1>1 DEF IInv, Preflow, Capacities, Nodes
    <2>2. NoneStranded'
      BY <1>1 DEF IInv, Preflow, NoneStranded, Nodes, Terminals
    <2> QED
      BY <2>1, <2>2 DEF Preflow
  <1>12. Searching'
    <2> DEFINE new == (old \cup found) \ {call.src}
    <2>1. Terminals \subseteq old \cup found /\ found \subseteq new /\ level + 1 <= search.far
      BY <1>1, <1>2, <1>4
    <2>2. \A u \in new : dist'[u] <= level + 1
      <3> SUFFICES ASSUME NEW u \in new PROVE dist'[u] <= level + 1
        OBVIOUS
      <3>1. CASE u \in found
        BY <1>2, <1>8, <3>1
      <3>2. CASE u \notin found
        BY <1>2, <1>8, <3>2, Numbers
      <3> QED
        BY <3>1, <3>2
    <2>3. \A u \in new \ found, t \in Nodes \ (old \cup found) : Residual(flow, t, u) <= 0
      <3> SUFFICES ASSUME NEW u \in new \ found, NEW t \in Nodes \ (old \cup found)
                   PROVE  Residual(flow, t, u) <= 0
        OBVIOUS
      <3>1. ~(Residual(flow, t, u) > 0)
        BY <1>5
      <3>2. Residual(flow, t, u) \in Int
        BY <1>2, ResidualInt DEF IInv, Types
      <3> QED
        BY <3>1, <3>2
    <2>4. \A u, v \in new : Residual(flow, u, v) > 0 => dist'[u] <= dist'[v] + 1
      <3> SUFFICES ASSUME NEW u \in new, NEW v \in new, Residual(flow, u, v) > 0
                   PROVE  dist'[u] <= dist'[v] + 1
        OBVIOUS
      <3>1. u \in Nodes /\ v \in Nodes /\ dist'[u] <= level + 1
        BY <1>2, <1>4, <2>2
      <3>2. CASE v \in found
        BY <1>2, <1>8, <3>1, <3>2
      <3>3. CASE v \notin found /\ u \in found
        <4>1. v \in search.open
          BY <1>4, <1>5, <3>3
        <4> QED
          BY <1>2, <1>8, <3>1, <3>3, <4>1
      <3>4. CASE v \notin found /\ u \notin found
        BY <1>2, <1>8, <3>1, <3>4
      <3> QED
        BY <3>2, <3>3, <3>4
    <2>5. \A v \in Nodes \ (old \cup found) : dist'[v] >= search.far
      BY <1>2, <1>8
    <2>6. \E e \in [Nodes -> Nat] : Floor(e)'
      <3>1. \A v \in Nodes : d[v] <= dist'[v]
        <4> SUFFICES ASSUME NEW v \in Nodes PROVE d[v] <= dist'[v]
          OBVIOUS
        <4>1. d[v] <= dist[v]
          BY <1>6 DEF Floor
        <4> QED
          BY <1>7, <1>8, <4>1
      <3>2. \A v \in Nodes \ (old \cup found) : dist'[v] <= Greatest(d[v], search.far + 1)
        BY <1>6, <1>8 DEF Floor
      <3>3. \A u, v \in Nodes : Residual(flow', u, v) > 0 => d[u] <= d[v] + 1
        BY <1>1, <1>6 DEF Floor, Valid
      <3>4. d[call.src] = n
        BY <1>6 DEF Floor
      <3> QED
        BY <1>1, <1>3, <3>1, <3>2, <3>3, <3>4 DEF Floor, Valid, Residual, Nodes
    <2>7. \A u \in found : dist'[u] = level + 1
      BY <1>8
    <2>8. /\ search'.touched \ {call'.src} = new /\ search'.touched = old \cup found
          /\ search'.open = found /\ search'.level = level + 1 /\ search'.far = search.far
          /\ call' = call /\ flow' = flow
      BY <1>1, <1>3
    <2>9. search.far <= n
      BY <1>2
    <2> HIDE DEF inside, new, old, level
    <2> QED
      BY <2>1, <2>2, <2>3, <2>4, <2>5, <2>6, <2>7, <2>8, <2>9
      DEF Searching, Nodes, Terminals, Residual
  <1> QED
    BY <1>1, <1>9, <1>10, <1>11, <1>12 DEF IInv, Reads

\* Every step keeps the invariant.
LEMMA NextKeepsIInv ==
    ASSUME IInv, [Next]_vars
    PROVE  IInv'
  BY MoveKeepsIInv, TakeKeepsIInv, PushKeepsIInv, GapKeepsIInv, RelabelKeepsIInv,
     RelabelingKeepsIInv, SearchKeepsIInv DEF Next

\* The invariant holds in every state that is reached.
LEMMA Inductive == Spec => []IInv
  BY InitIInv, NextKeepsIInv, PTL DEF Spec

\* No flow exceeds a capacity, and no vertex with excess is forgotten, whatever the
\* marks of the queue, the early ends of push and the gap heuristic do.
THEOREM PreflowHolds == Spec => []Preflow
  <1>1. IInv => Preflow
    BY DEF IInv
  <1> QED
    BY <1>1, Inductive, PTL

-----------------------------------------------------------------------------
(* The minimum cut.                                                          *)

\* Excess is what flows into a vertex, and a limit was reached by a sink.
Inflows == \A v \in Nodes \ {call.src} : excess[v] = Inflow(v)
Reaching == reached => \E t \in call.sinks : excess[t] >= call.limit
Ending == (pc = "limited" => reached) /\ (pc = "returned" => DOMAIN queue = {})

FInv == IInv /\ Inflows /\ Reaching /\ Ending

-----------------------------------------------------------------------------
(* The invariant of the flow.                                                *)

In(f, v) == [u \in Nodes |-> f[u][v]]

\* The flow into a vertex as a sum over the vertices.
LEMMA InflowIsSum ==
    ASSUME NEW v
    PROVE  Inflow(v) = Sum(In(flow, v), Nodes)
  BY DEF Inflow, SumFunction, Sum, In

LEMMA InitFInv ==
    ASSUME Init
    PROVE  FInv
  <1>1. IInv
    BY InitIInv
  <1>2. call \in Problems
    BY DEF Init
  <1>3. ASSUME NEW v \in Nodes \ {call.src} PROVE excess[v] = Inflow(v)
    <2> DEFINE g == In(flow, v)
    <2>1. /\ flow = [u \in Nodes |-> [w \in Nodes |->
                        IF u = call.src THEN call.cap[u][w]
                        ELSE IF w = call.src THEN -call.cap[u][w] ELSE 0]]
          /\ excess = [w \in Nodes |-> call.cap[call.src][w]]
      BY DEF Init
    <2>2. call.src \in Nodes /\ call.cap[call.src][v] \in Int /\ IsFiniteSet(Nodes)
      BY <1>2, CallFacts
    <2>3. /\ \A u \in Nodes \ {call.src} : g[u] = 0
          /\ g[call.src] = call.cap[call.src][v]
      BY <2>1, <2>2 DEF In
    <2> HIDE DEF g
    <2>4. Sum(g, Nodes) = g[call.src]
      BY <2>2, <2>3, SumSingle
    <2>5. Inflow(v) = Sum(g, Nodes)
      BY InflowIsSum DEF g
    <2>6. excess[v] = call.cap[call.src][v]
      BY <2>1
    <2> QED
      BY <2>3, <2>4, <2>5, <2>6
  <1>4. Reaching
    <2> SUFFICES ASSUME reached PROVE \E t \in call.sinks : excess[t] >= call.limit
      BY DEF Reaching
    <2>1. PICK t \in call.sinks \cap Neighbors(call.src) : call.cap[call.src][t] >= call.limit
      BY DEF Init
    <2>2. excess[t] = call.cap[call.src][t]
      BY <1>2, CallFacts DEF Init
    <2> QED
      BY <2>1, <2>2
  <1>5. Ending
    BY DEF Init, Ending
  <1> QED
    BY <1>1, <1>3, <1>4, <1>5 DEF FInv, Inflows

\* A push takes from the one vertex's inflow what it adds to the other's.
LEMMA PushKeepsInflows ==
    ASSUME IInv, Inflows, Push
    PROVE  Inflows'
  <1> DEFINE s == at.node
  <1>1. PICK t \in at.edges, amount \in Nat : Pushed(t, amount)
    BY PushFacts
  <1>2. pc = "discharge" /\ call' = call
    BY <1>1 DEF Pushed
  <1>3. s \in Nodes /\ t \in Nodes /\ dist[s] \in Nat /\ dist[t] \in Nat
    BY <1>2, PushTypes
  <1>4. IsFiniteSet(Nodes) /\ flow \in [Nodes -> [Nodes -> Int]] /\ excess \in [Nodes -> Nat]
    BY CallFacts DEF IInv, Types
  <1>5. CASE amount = 0
    <2>1. flow' = flow /\ excess' = excess
      BY <1>1, <1>5 DEF Pushed
    <2> QED
      BY <1>2, <2>1 DEF Inflows, Inflow, Nodes
  <1>6. CASE amount > 0
    <2>1. /\ flow' \in [Nodes -> [Nodes -> Int]]
          /\ flow'[s][t] = flow[s][t] + amount /\ flow'[t][s] = flow[t][s] - amount
          /\ \A u, v \in Nodes :
                (u # s \/ v # t) /\ (u # t \/ v # s) => flow'[u][v] = flow[u][v]
          /\ excess'[s] = excess[s] - amount /\ excess'[t] = excess[t] + amount
          /\ \A v \in Nodes \ {s, t} : excess'[v] = excess[v]
          /\ dist[s] > dist[t]
      BY <1>1, <1>6 DEF Pushed
    <2>2. s # t
      BY <1>3, <2>1
    <2> SUFFICES ASSUME NEW v \in Nodes \ {call.src}
                 PROVE  excess'[v] = Sum(In(flow', v), Nodes)
      BY <1>2 DEF Inflows, Inflow, SumFunction, Sum, In, Nodes
    <2> DEFINE g == In(flow, v)
               h == In(flow', v)
    <2>3. \A u \in Nodes : g[u] = flow[u][v] /\ h[u] = flow'[u][v]
      BY DEF In
    <2>4. \A u \in Nodes : g[u] \in Int /\ h[u] \in Int
      BY <1>4, <2>1, <2>3
    <2>5. excess[v] = Sum(g, Nodes)
      BY InflowIsSum DEF Inflows
    <2> HIDE DEF g, h, s
    <2>6. CASE v # s /\ v # t
      <3>1. \A u \in Nodes : g[u] = h[u]
        BY <2>1, <2>3, <2>6
      <3>2. Sum(g, Nodes) = Sum(h, Nodes)
        BY <1>4, <3>1, SumSame
      <3> QED
        BY <2>1, <2>5, <2>6, <3>2 DEF h
    <2>7. CASE v = t
      <3>1. \A u \in Nodes \ {s} : g[u] = h[u]
        BY <2>1, <2>2, <2>3, <2>7
      <3>2. Sum(h, Nodes) = Sum(g, Nodes) + h[s] - g[s]
        BY <1>3, <1>4, <2>4, <3>1, SumChanged
      <3>3. h[s] = g[s] + amount /\ g[s] \in Int /\ h[s] \in Int
        BY <1>3, <2>1, <2>3, <2>4, <2>7
      <3>4. excess'[v] = excess[v] + amount /\ excess[v] \in Int
        BY <1>3, <1>4, <2>1, <2>7
      <3> QED
        BY <2>5, <3>2, <3>3, <3>4 DEF h
    <2>8. CASE v = s
      <3>1. \A u \in Nodes \ {t} : g[u] = h[u]
        BY <2>1, <2>2, <2>3, <2>8
      <3>2. Sum(h, Nodes) = Sum(g, Nodes) + h[t] - g[t]
        BY <1>3, <1>4, <2>4, <3>1, SumChanged
      <3>3. h[t] = g[t] - amount /\ g[t] \in Int /\ h[t] \in Int
        BY <1>3, <2>1, <2>3, <2>4, <2>8
      <3>4. excess'[v] = excess[v] - amount /\ excess[v] \in Int
        BY <1>3, <1>4, <2>1, <2>8
      <3> QED
        BY <2>5, <3>2, <3>3, <3>4 DEF h
    <2> QED
      BY <2>6, <2>7, <2>8
  <1> QED
    BY <1>5, <1>6

\* Sinks never lose what they have.
LEMMA PushKeepsReaching ==
    ASSUME IInv, Reaching, Push
    PROVE  Reaching'
  <1> DEFINE s == at.node
  <1>1. PICK t \in at.edges, amount \in Nat : Pushed(t, amount)
    BY PushFacts
  <1>2. pc = "discharge" /\ call' = call /\ at.node \notin Terminals
    BY <1>1, PushTypes DEF Pushed
  <1>3. excess \in [Nodes -> Nat] /\ call.limit \in Nat /\ call.sinks \subseteq Nodes
    <2>1. call \in Problems /\ excess \in [Nodes -> Nat]
      BY DEF IInv, Types
    <2> QED
      BY <2>1, CallFacts, ProblemsAssumption
  <1>4. reached' => reached \/ (t \in call.sinks /\ excess'[t] >= call.limit)
    BY <1>1 DEF Pushed
  <1>5. ASSUME NEW v \in call.sinks PROVE excess'[v] >= excess[v]
    <2>1. v \in Nodes /\ v # s /\ excess[v] \in Nat
      BY <1>2, <1>3 DEF Terminals
    <2>2. CASE amount = 0
      BY <1>1, <2>1, <2>2 DEF Pushed
    <2>3. CASE amount > 0
      <3>1. /\ excess'[t] = excess[t] + amount
            /\ \A w \in Nodes \ {s, t} : excess'[w] = excess[w]
        BY <1>1, <2>3 DEF Pushed
      <3> QED
        BY <2>1, <2>3, <3>1
    <2> QED
      BY <2>2, <2>3
  <1> SUFFICES ASSUME reached' PROVE \E w \in call.sinks : excess'[w] >= call.limit
    BY <1>2 DEF Reaching
  <1>6. CASE reached
    <2>1. PICK w \in call.sinks : excess[w] >= call.limit
      BY <1>6 DEF Reaching
    <2>2. excess'[w] >= excess[w] /\ excess[w] \in Nat
      BY <1>3, <1>5
    <2>3. excess'[w] \in Nat
      <3>1. IInv'
        BY PushKeepsIInv
      <3>2. excess' \in [Nodes -> Nat]
        BY <1>2, <3>1 DEF IInv, Types, Nodes
      <3> QED
        BY <1>3, <3>2
    <2> QED
      BY <1>3, <2>1, <2>2, <2>3
  <1>7. CASE ~reached
    BY <1>4, <1>7
  <1> QED
    BY <1>6, <1>7

\* Only pushes change the flow.
LEMMA NextKeepsFInv ==
    ASSUME FInv, [Next]_vars
    PROVE  FInv'
  <1>1. IInv'
    BY NextKeepsIInv DEF FInv
  <1>2. CASE Push
    <2>1. Inflows' /\ Reaching'
      BY <1>2, PushKeepsInflows, PushKeepsReaching DEF FInv
    <2>2. pc' = "discharge"
      BY <1>2 DEF Push
    <2> QED
      BY <1>1, <2>1, <2>2 DEF FInv, Ending
  <1>3. CASE ~Push
    <2>1. UNCHANGED <<call, flow, excess, reached>>
      BY <1>3 DEF Next, vars, state, Take, Drained, GapHeuristic, Relabel, NextVertex,
                  GlobalRelabeling, Search, SearchEnds, ReturnLimit, Return
    <2>2. Inflows' /\ Reaching'
      BY <2>1 DEF FInv, Inflows, Inflow, Reaching, Nodes
    <2>3. Ending'
      BY <1>3 DEF FInv, Ending, Next, vars, state, Take, Drained, GapHeuristic, Relabel,
                  NextVertex, GlobalRelabeling, Search, SearchEnds, ReturnLimit, Return
    <2> QED
      BY <1>1, <2>2, <2>3 DEF FInv
  <1> QED
    BY <1>2, <1>3

\* The invariant holds in every state that is reached.
LEMMA FlowInductive == Spec => []FInv
  BY InitFInv, NextKeepsFInv, PTL DEF Spec

-----------------------------------------------------------------------------
(* Flows over cuts.                                                          *)

Flows == [e \in Nodes \X Nodes |-> flow[e[1]][e[2]]]
Weights == [e \in Nodes \X Nodes |-> call.cap[e[1]][e[2]]]

\* What FInv says of flows and weights as functions on pairs.
LEMMA FlowFacts ==
    ASSUME FInv
    PROVE  /\ IsFiniteSet(Nodes) /\ call \in Problems /\ call.src \in Nodes
           /\ call.sinks \subseteq Nodes /\ call.src \notin call.sinks
           /\ excess \in [Nodes -> Nat]
           /\ IsFlow(Flows, Nodes)
           /\ \A u, v \in Nodes : /\ Flows[<<u, v>>] = flow[u][v] /\ flow[u][v] \in Int
                                  /\ Weights[<<u, v>>] = call.cap[u][v]
                                  /\ call.cap[u][v] \in Int /\ flow[u][v] <= call.cap[u][v]
                                  /\ Residual(flow, u, v) = call.cap[u][v] - flow[u][v]
  <1>1. /\ call \in Problems /\ excess \in [Nodes -> Nat]
        /\ flow \in [Nodes -> [Nodes -> Int]] /\ Capacities
    BY DEF FInv, IInv, Types, Preflow
  <1>2. /\ IsFiniteSet(Nodes) /\ call.src \in Nodes
        /\ call.sinks \subseteq Nodes /\ call.src \notin call.sinks
    BY <1>1, CallFacts
  <1>3. ASSUME NEW u \in Nodes, NEW v \in Nodes
        PROVE  /\ Flows[<<u, v>>] = flow[u][v] /\ Weights[<<u, v>>] = call.cap[u][v]
               /\ flow[u][v] \in Int /\ call.cap[u][v] \in Int
               /\ flow[u][v] = -flow[v][u] /\ flow[u][v] <= call.cap[u][v]
    <2>1. flow[u][v] \in Int /\ call.cap[u][v] \in Int
      BY <1>1, ResidualInt
    <2>2. flow[u][v] = -flow[v][u] /\ flow[u][v] <= call.cap[u][v]
      BY <1>1 DEF Capacities
    <2>3. Flows[<<u, v>>] = flow[u][v] /\ Weights[<<u, v>>] = call.cap[u][v]
      BY DEF Flows, Weights
    <2> QED
      BY <2>1, <2>2, <2>3
  <1>4. IsFlow(Flows, Nodes)
    <2>1. ASSUME NEW u \in Nodes, NEW v \in Nodes
          PROVE  Flows[<<u, v>>] \in Int /\ Flows[<<u, v>>] = -Flows[<<v, u>>]
      <3>1. Flows[<<u, v>>] = flow[u][v] /\ Flows[<<v, u>>] = flow[v][u]
        BY <1>3
      <3>2. flow[u][v] \in Int /\ flow[u][v] = -flow[v][u]
        BY <1>3
      <3> QED
        BY <3>1, <3>2
    <2> QED
      BY <2>1 DEF IsFlow
  <1> QED
    BY <1>1, <1>2, <1>3, <1>4 DEF Residual

\* The far side of a cut has received what flows over the cut.
LEMMA FlowOverCut ==
    ASSUME FInv, NEW A \in SUBSET (Nodes \ {call.src})
    PROVE  Sum(excess, A) = Sum(Flows, (Nodes \ A) \X A)
  <1> DEFINE in == [v \in Nodes |-> Inflow(v)]
  <1>1. \A v \in Nodes : in[v] = Across(Flows, Nodes, {v})
    <2> SUFFICES ASSUME NEW v \in Nodes PROVE Inflow(v) = Across(Flows, Nodes, {v})
      OBVIOUS
    <2> DEFINE g == In(flow, v)
    <2>1. \A u \in Nodes : g[u] = Flows[<<u, v>>]
      BY FlowFacts DEF In
    <2> HIDE DEF g
    <2>2. Nodes \in SUBSET Nodes /\ IsFiniteSet(Nodes) /\ IsFlow(Flows, Nodes)
      BY FlowFacts
    <2>3. \A X \in SUBSET Nodes :
              Across(Flows, X, {v}) = Sum(g, X) /\ Across(Flows, {v}, X) = -Sum(g, X)
      BY <2>1, <2>2, AcrossColumn
    <2>4. Across(Flows, Nodes, {v}) = Sum(g, Nodes)
      BY <2>2, <2>3
    <2>5. Inflow(v) = Sum(g, Nodes)
      BY InflowIsSum DEF g
    <2> QED
      BY <2>4, <2>5
  <1>2. \A v \in A : excess[v] = in[v]
    BY DEF FInv, Inflows
  <1> HIDE DEF in
  <1>3. Sum(in, A) = Across(Flows, Nodes \ A, A)
    <2>1. IsFiniteSet(Nodes) /\ IsFlow(Flows, Nodes)
      BY FlowFacts
    <2>2. \A X \in SUBSET Nodes : Sum(in, X) = Across(Flows, Nodes \ X, X)
      BY <1>1, <2>1, AcrossCut
    <2> QED
      BY <2>2
  <1>4. IsFiniteSet(A)
    BY FlowFacts, FS_Subset
  <1>5. Sum(excess, A) = Sum(in, A)
    BY <1>2, <1>4, SumSame
  <1> QED
    BY <1>3, <1>5 DEF Across

\* No more than the boundary of a cut flows over it, and as much only when no
\* edge over it has capacity left.
LEMMA CutBound ==
    ASSUME FInv, NEW S \in Cuts
    PROVE  /\ Boundary(S) \in Int /\ Sum(excess, Nodes \ S) \in Int
           /\ Sum(excess, Nodes \ S) <= Boundary(S)
           /\ Boundary(S) <= Sum(excess, Nodes \ S) <=>
                  \A u \in S, v \in Nodes \ S : Residual(flow, u, v) = 0
  <1> DEFINE A == Nodes \ S
             E == S \X A
  <1>1. S \in SUBSET Nodes /\ A \in SUBSET Nodes /\ A \in SUBSET (Nodes \ {call.src}) /\ Nodes \ A = S
    BY DEF Cuts
  <1>2. IsFiniteSet(E) /\ IsFiniteSet(A)
    BY <1>1, FlowFacts, FS_Subset, FS_Product
  <1>3. Boundary(S) = Sum(Weights, E)
    <2> DEFINE b == [e \in E |-> call.cap[e[1]][e[2]]]
    <2>1. Boundary(S) = Sum(b, E)
      BY DEF Boundary, SumFunction, Sum
    <2>2. \A e \in E : b[e] = Weights[e]
      BY <1>1 DEF Weights
    <2> HIDE DEF b
    <2>3. Sum(b, E) = Sum(Weights, E)
      BY <1>2, <2>2, SumSame
    <2> QED
      BY <2>1, <2>3
  <1>4. Sum(excess, A) = Sum(Flows, E)
    BY <1>1, FlowOverCut
  <1>5. \A e \in E : /\ Flows[e] \in Int /\ Weights[e] \in Int /\ Flows[e] <= Weights[e]
                     /\ Residual(flow, e[1], e[2]) = Weights[e] - Flows[e]
    <2> SUFFICES ASSUME NEW u \in S, NEW v \in A
                 PROVE  LET e == <<u, v>> IN
                        /\ Flows[e] \in Int /\ Weights[e] \in Int /\ Flows[e] <= Weights[e]
                        /\ Residual(flow, u, v) = Weights[e] - Flows[e]
      <3> SUFFICES ASSUME NEW e \in E
                   PROVE  /\ Flows[e] \in Int /\ Weights[e] \in Int /\ Flows[e] <= Weights[e]
                          /\ Residual(flow, e[1], e[2]) = Weights[e] - Flows[e]
        OBVIOUS
      <3>1. e[1] \in S /\ e[2] \in A /\ e = <<e[1], e[2]>>
        OBVIOUS
      <3> QED
        BY <3>1
    <2>1. u \in Nodes /\ v \in Nodes
      BY <1>1
    <2> QED
      BY <2>1, FlowFacts
  <1> HIDE DEF A
  <1>6. Sum(Flows, E) \in Int /\ Sum(Weights, E) \in Int
    BY <1>2, <1>5, SumInt
  <1>7. Sum(Flows, E) <= Sum(Weights, E)
    BY <1>2, <1>5, SumMonotone
  <1>8. ASSUME Sum(Weights, E) <= Sum(Flows, E), NEW u \in S, NEW v \in A
        PROVE  Residual(flow, u, v) = 0
    <2>1. \A e \in E : Flows[e] = Weights[e]
      BY <1>2, <1>5, <1>8, SumTight
    <2>2. <<u, v>> \in E
      OBVIOUS
    <2>3. /\ Residual(flow, u, v) = Weights[<<u, v>>] - Flows[<<u, v>>]
          /\ Flows[<<u, v>>] = Weights[<<u, v>>] /\ Weights[<<u, v>>] \in Int
      BY <1>5, <2>1, <2>2
    <2> QED
      BY <2>3
  <1>9. ASSUME \A u \in S, v \in A : Residual(flow, u, v) = 0
        PROVE  Sum(Weights, E) = Sum(Flows, E)
    <2>1. \A e \in E : Flows[e] = Weights[e]
      <3> SUFFICES ASSUME NEW e \in E PROVE Flows[e] = Weights[e]
        OBVIOUS
      <3>1. Residual(flow, e[1], e[2]) = 0
        BY <1>9
      <3> QED
        BY <1>5, <3>1
    <2> QED
      BY <1>2, <2>1, SumSame
  <1>10. Sum(Weights, E) <= Sum(Flows, E) <=> \A u \in S, v \in A : Residual(flow, u, v) = 0
    BY <1>6, <1>8, <1>9
  <1> HIDE DEF E
  <1> QED
    BY <1>3, <1>4, <1>6, <1>7, <1>10 DEF A

\* A limit that a sink has reached is no larger than any cut.
LEMMA LimitBelowCuts ==
    ASSUME FInv, reached, NEW S \in Cuts
    PROVE  Boundary(S) >= call.limit
  <1>1. PICK t \in call.sinks : excess[t] >= call.limit
    BY DEF FInv, Reaching
  <1>2. t \in Nodes \ S /\ IsFiniteSet(Nodes \ S) /\ \A v \in Nodes \ S : excess[v] \in Nat
    BY FlowFacts, FS_Difference DEF Cuts
  <1>3. excess[t] <= Sum(excess, Nodes \ S)
    BY <1>2, SumBounds
  <1>4. call.limit \in Nat
    BY FlowFacts, ProblemsAssumption
  <1> QED
    BY <1>1, <1>2, <1>3, <1>4, CutBound

\* When the queue is empty all has arrived at the sinks, on whichever cut.
LEMMA AllArrived ==
    ASSUME FInv, pc = "returned"
    PROVE  /\ \A v \in Nodes \ Terminals : excess[v] = 0
           /\ \A S \in Cuts : Sum(excess, Nodes \ S) = TotalFlow
  <1>1. ASSUME NEW v \in Nodes \ Terminals PROVE excess[v] = 0
    <2>1. excess[v] \in Nat
      BY FlowFacts
    <2>2. ~(excess[v] > 0)
      BY DEF FInv, IInv, Preflow, NoneStranded, Ending
    <2> QED
      BY <2>1, <2>2
  <1>2. ASSUME NEW S \in Cuts PROVE Sum(excess, Nodes \ S) = TotalFlow
    <2> DEFINE R == (Nodes \ S) \ call.sinks
    <2>1. /\ Nodes \ S = R \cup call.sinks /\ R \cap call.sinks = {}
          /\ R \subseteq Nodes \ Terminals
      BY FlowFacts DEF Cuts, Terminals
    <2>2. IsFiniteSet(R) /\ IsFiniteSet(call.sinks)
      BY FlowFacts, FS_Subset
    <2>3. \A v \in R \cup call.sinks : excess[v] \in Int
      BY FlowFacts
    <2>4. \A v \in R : excess[v] = 0
      BY <1>1, <2>1
    <2> HIDE DEF R
    <2>5. Sum(excess, R \cup call.sinks) = Sum(excess, R) + Sum(excess, call.sinks)
      BY <2>1, <2>2, <2>3, SumUnion
    <2>6. Sum(excess, R) = 0
      BY <2>2, <2>4, SumZero
    <2>7. Sum(excess, call.sinks) \in Int
      BY <2>2, <2>3, SumInt
    <2>8. Sum(excess, R \cup call.sinks) = TotalFlow
      BY <2>5, <2>6, <2>7 DEF TotalFlow, Sum
    <2> QED
      BY <2>1, <2>8
  <1> QED
    BY <1>1, <1>2

-----------------------------------------------------------------------------
(* The bound of the labels.                                                  *)

Empty(d, S, a, m) == \E k \in 1 .. m : \A v \in S : d[v] # a + k

\* Among as many levels as a set has elements and one more, one is empty.
LEMMA EmptyLevel ==
    ASSUME NEW d, NEW S, IsFiniteSet(S), NEW m \in Nat, Cardinality(S) < m, NEW a \in Nat
    PROVE  Empty(d, S, a, m)
  <1> DEFINE D == 1 .. m
             some == [k \in D |-> CHOOSE v \in S : d[v] = a + k]
  <1>1. SUFFICES ASSUME \A k \in D : \E v \in S : d[v] = a + k
                 PROVE  FALSE
    BY DEF Empty
  <1>2. \A k \in D : some[k] \in S /\ d[some[k]] = a + k
    BY <1>1
  <1>3. some \in [D -> S]
    BY <1>2
  <1>4. IsFiniteSet(D) /\ Cardinality(D) = m
    <2>1. m \in Int /\ 1 \in Int
      OBVIOUS
    <2>2. IsFiniteSet(1 .. m) /\ Cardinality(1 .. m) = IF 1 > m THEN 0 ELSE m - 1 + 1
      BY <2>1, FS_Interval
    <2> QED
      BY <2>2
  <1> HIDE DEF some
  <1>5. \E j, k \in D : j # k /\ some[j] = some[k]
    <2> HIDE DEF D
    <2> QED
      BY <1>3, <1>4, FS_PigeonHole
  <1> QED
    BY <1>2, <1>5

\* What has excess reaches the source over edges with capacity left, and so has no
\* label beyond the source's by more than the number of the other vertices: above an
\* empty level there would be a set into which no flow comes.
LEMMA ActiveBelow ==
    ASSUME FInv, NEW d, \A v \in Nodes : d[v] \in Nat, d[call.src] = call.n,
           \A u, v \in Nodes : Residual(flow, u, v) > 0 => d[u] <= d[v] + 1,
           NEW s \in Nodes \ {call.src}, excess[s] > 0
    PROVE  d[s] < 2 * call.n
  <1> DEFINE n == call.n
             rest == (Nodes \ {call.src}) \ {s}
  <1>1. /\ n \in Nat /\ n >= 1 /\ IsFiniteSet(Nodes) /\ Cardinality(Nodes) = n
        /\ call.src \in Nodes
    BY FlowFacts, CallFacts
  <1>2. SUFFICES ASSUME d[s] >= 2 * n PROVE FALSE
    BY <1>1
  <1>3. IsFiniteSet(rest) /\ Cardinality(rest) < n - 1 /\ n - 1 \in Nat
    <2>1. IsFiniteSet(Nodes \ {call.src}) /\ Cardinality(Nodes \ {call.src}) = n - 1
      BY <1>1, FS_RemoveElement
    <2>2. IsFiniteSet(rest) /\ Cardinality(rest) = n - 2
      <3>1. IsFiniteSet(rest) /\ Cardinality(rest) = Cardinality(Nodes \ {call.src}) - 1
        BY <2>1, FS_RemoveElement
      <3> QED
        BY <1>1, <2>1, <3>1
    <2>3. Cardinality(rest) \in Nat
      BY <2>2, FS_CardinalityType
    <2> QED
      BY <1>1, <2>2, <2>3
  <1>4. PICK k \in 1 .. n - 1 : \A v \in rest : d[v] # n + k
    <2> DEFINE m == n - 1
    <2>1. m \in Nat /\ Cardinality(rest) < m /\ IsFiniteSet(rest) /\ n \in Nat
      BY <1>1, <1>3
    <2> HIDE DEF m, n, rest
    <2>2. Empty(d, rest, n, m)
      BY <2>1, EmptyLevel
    <2> QED
      BY <2>2 DEF Empty, m
  <1> DEFINE X == {v \in Nodes : d[v] > n + k}
  <1>5. k \in Nat /\ k >= 1 /\ n + k < 2 * n
    BY <1>1
  <1>6. \A v \in Nodes : d[v] # n + k
    BY <1>1, <1>2, <1>4, <1>5
  <1>7. s \in X /\ X \in SUBSET (Nodes \ {call.src}) /\ IsFiniteSet(X)
    <2>1. s \in X /\ X \in SUBSET (Nodes \ {call.src})
      BY <1>1, <1>2, <1>5
    <2> HIDE DEF X
    <2> QED
      BY <1>1, <2>1, FS_Subset
  <1>8. ASSUME NEW w \in Nodes \ X, NEW u \in X PROVE Flows[<<w, u>>] <= 0
    <2>1. u \in Nodes /\ w \in Nodes /\ d[u] > n + k /\ ~(d[w] > n + k) /\ d[w] # n + k
      BY <1>6
    <2>2. ~(d[u] <= d[w] + 1)
      BY <1>1, <1>5, <2>1
    <2>3. ~(Residual(flow, u, w) > 0)
      BY <2>1, <2>2
    <2>4. /\ Residual(flow, u, w) = call.cap[u][w] - flow[u][w]
          /\ flow[u][w] \in Int /\ call.cap[u][w] \in Int
          /\ Flows[<<w, u>>] = -Flows[<<u, w>>] /\ Flows[<<u, w>>] = flow[u][w]
      BY <2>1, FlowFacts DEF IsFlow
    <2>5. call.cap[u][w] >= 0
      BY <2>1, FlowFacts, CallFacts
    <2> QED
      BY <2>3, <2>4, <2>5
  <1> HIDE DEF X
  <1>9. Sum(excess, X) = Sum(Flows, (Nodes \ X) \X X)
    BY <1>7, FlowOverCut
  <1>10. Sum(Flows, (Nodes \ X) \X X) <= 0 /\ Sum(Flows, (Nodes \ X) \X X) \in Int
    <2> DEFINE E == (Nodes \ X) \X X
               z == [e \in E |-> 0]
    <2>1. \A e \in E : z[e] = 0
      OBVIOUS
    <2>2. IsFiniteSet(E) /\ \A e \in E : Flows[e] \in Int
      <3>1. X \in SUBSET Nodes /\ Nodes \ X \in SUBSET Nodes
        BY <1>7
      <3> QED
        BY <3>1, FlowFacts, AcrossInt
    <2>3. \A e \in E : Flows[e] <= 0
      <3> SUFFICES ASSUME NEW e \in E PROVE Flows[e] <= 0
        OBVIOUS
      <3>1. e[1] \in Nodes \ X /\ e[2] \in X /\ e = <<e[1], e[2]>>
        OBVIOUS
      <3> QED
        BY <1>8, <3>1
    <2> HIDE DEF z, E
    <2>4. \A e \in E : Flows[e] \in Int /\ z[e] \in Int /\ Flows[e] <= z[e]
      BY <2>1, <2>2, <2>3
    <2>5. Sum(Flows, E) <= Sum(z, E)
      BY <2>2, <2>4, SumMonotone
    <2>6. Sum(z, E) = 0
      BY <2>1, <2>2, SumZero
    <2>7. Sum(Flows, E) \in Int
      BY <2>2, SumInt
    <2> QED
      BY <2>5, <2>6, <2>7 DEF E
  <1>11. excess[s] <= Sum(excess, X)
    <2>1. \A v \in X : excess[v] \in Nat
      BY <1>7, FlowFacts
    <2> QED
      BY <1>7, <2>1, SumBounds
  <1>12. excess[s] \in Nat
    BY FlowFacts
  <1> QED
    BY <1>9, <1>10, <1>11, <1>12

Below == \A v \in Nodes : dist[v] < 2 * call.n

\* A relabelled vertex has excess, so that some residual edge leads out of it to a
\* vertex from which the source is reached; all other steps raise labels to n at most.
LEMMA NextKeepsBelow ==
    ASSUME FInv, Below, [Next]_vars
    PROVE  Below'
  <1> DEFINE n == call.n
  <1>1. /\ n \in Nat /\ n >= 1 /\ call' = call /\ Nodes' = Nodes
        /\ \A v \in Nodes : dist[v] \in Nat /\ dist[v] < 2 * n
    BY Numbers DEF FInv, Below, Nodes, Next, vars, state, Take, Push, Drained, GapHeuristic,
                   Relabel, NextVertex, GlobalRelabeling, Search, SearchEnds, ReturnLimit, Return
  <1>2. CASE GapHeuristic
    <2>1. \A v \in Nodes : dist'[v] = dist[v] \/ dist'[v] = Greatest(dist[v], n)
      BY <1>2 DEF GapHeuristic
    <2> QED
      BY <1>1, <2>1 DEF Below, Greatest
  <1>3. CASE GlobalRelabeling
    <2>1. \A v \in Nodes : dist'[v] = n \/ dist'[v] = 0 \/ dist'[v] = Greatest(dist[v], n)
      BY <1>3 DEF GlobalRelabeling
    <2> QED
      BY <1>1, <2>1 DEF Below, Greatest
  <1>4. CASE Search
    <2>1. \A v \in Nodes : dist'[v] = dist[v] \/ dist'[v] = search.level + 1
      BY <1>4 DEF Search
    <2>2. search.level + 1 <= n /\ search.level \in Nat
      <3>1. /\ search.level < search.far /\ search.far <= n
            /\ search.level \in Nat /\ search.far \in Nat
        BY <1>4 DEF FInv, IInv, Types, Searching, Search
      <3> QED
        BY <1>1, <3>1
    <2> QED
      BY <1>1, <2>1, <2>2 DEF Below
  <1>5. CASE Relabel
    <2> DEFINE s == at.node
    <2>1. /\ pc = "discharge" /\ excess[s] > 0 /\ flow' = flow /\ pc' = "discharged"
          /\ \A v \in Nodes \ {s} : dist'[v] = dist[v]
      BY <1>5 DEF Relabel, FInv, IInv, Types
    <2>2. s \in Nodes /\ s \notin Terminals
      BY <2>1 DEF FInv, IInv, Types
    <2>3. IInv'
      BY <1>5, NextKeepsIInv DEF FInv, Next
    <2>4. /\ \A v \in Nodes : dist'[v] \in Nat
          /\ dist'[call.src] = n
          /\ \A u, v \in Nodes : Residual(flow, u, v) > 0 => dist'[u] <= dist'[v] + 1
      <3>1. Valid(dist)' /\ Levels' /\ Types'
        BY <2>1, <2>3 DEF IInv
      <3> QED
        BY <1>1, <2>1, <3>1 DEF Valid, Levels, Types, Residual
    <2>5. dist'[s] < 2 * n
      <3>1. s \in Nodes \ {call.src}
        BY <2>2 DEF Terminals
      <3> QED
        BY <2>1, <2>4, <3>1, ActiveBelow
    <2> QED
      BY <1>1, <2>1, <2>5 DEF Below
  <1>6. CASE ~(GapHeuristic \/ GlobalRelabeling \/ Search \/ Relabel)
    <2>1. dist' = dist
      BY <1>6 DEF Next, vars, state, Take, Push, Drained, NextVertex, SearchEnds, ReturnLimit, Return
    <2> QED
      BY <1>1, <2>1 DEF Below
  <1> QED
    BY <1>2, <1>3, <1>4, <1>5, <1>6

\* Labels are lower bounds of residual distances at every time but during a search,
\* the counters never show a gap above a vertex that still reaches a sink, and no
\* label is without a counter.
THEOREM LabelsHold == Spec => []Labelled
  <1>1. Init => Below
    <2> SUFFICES ASSUME Init PROVE Below
      OBVIOUS
    <2>1. call.n \in Nat /\ call.n >= 1 /\ call.depth \in Nat /\ call.depth < call.n
      BY CallFacts DEF Init
    <2>2. \A v \in Nodes : dist[v] = call.n \/ dist[v] = 0 \/ dist[v] = call.depth + 1
      BY DEF Init, StartLabel
    <2> QED
      BY <2>1, <2>2 DEF Below
  <1>2. FInv /\ Below => Labelled
    BY DEF FInv, IInv, Levels, Valid, Labelled, Below
  <1>3. FInv /\ Below /\ [Next]_vars => Below'
    BY NextKeepsBelow
  <1> QED
    BY <1>1, <1>2, <1>3, FlowInductive, PTL DEF Spec

-----------------------------------------------------------------------------
(* The search of computeSourceSet.                                           *)

\* What a search reaches is the least set that has the start and is closed.
LEMMA ReachableFacts ==
    ASSUME NEW S \in SUBSET Nodes, NEW next
    PROVE  /\ Reachable(S, next) \in SUBSET Nodes
           /\ S \subseteq Reachable(S, next)
           /\ \A u \in Reachable(S, next) : next[u] \cap Nodes \subseteq Reachable(S, next)
           /\ \A R \in SUBSET Nodes :
                 S \subseteq R /\ (\A u \in R : next[u] \subseteq R) => Reachable(S, next) \subseteq R
  <1> DEFINE Q == Reachable(S, next)
  <1>1. Q \in SUBSET Nodes /\ S \subseteq Q
    BY DEF Reachable
  <1>2. ASSUME NEW R \in SUBSET Nodes, S \subseteq R, \A u \in R : next[u] \subseteq R
        PROVE  Q \subseteq R
    BY <1>2 DEF Reachable
  <1>3. ASSUME NEW u \in Q, NEW v \in next[u], v \in Nodes
        PROVE  v \in Q
    <2> SUFFICES ASSUME NEW R \in SUBSET Nodes, S \subseteq R, \A w \in R : next[w] \subseteq R
                 PROVE  v \in R
      BY <1>3 DEF Reachable
    <2>1. u \in R
      BY <1>2
    <2> QED
      BY <2>1
  <1> QED
    BY <1>1, <1>2, <1>3

Backwards == [u \in Nodes |-> {t \in Nodes : Residual(flow, t, u) > 0}]
Behind == Reachable(call.sinks, Backwards)

\* There are fewer vertices than levels between the source and the sinks.
LEMMA SomeGap ==
    ASSUME FInv, call.sinks # {}
    PROVE  \E k \in 1 .. call.n - 1 : \A v \in Nodes : dist[v] # k
  <1> DEFINE n == call.n
             rest == (Nodes \ {call.src}) \ call.sinks
  <1>1. /\ n \in Nat /\ n >= 1 /\ IsFiniteSet(Nodes) /\ Cardinality(Nodes) = n
        /\ call.src \in Nodes /\ call.sinks \subseteq Nodes /\ call.src \notin call.sinks
    BY FlowFacts, CallFacts
  <1>2. dist[call.src] = n /\ \A s \in call.sinks : dist[s] = 0
    BY DEF FInv, IInv, Levels
  <1>3. IsFiniteSet(rest) /\ Cardinality(rest) < n - 1 /\ n - 1 \in Nat
    <2>1. IsFiniteSet(Nodes \ {call.src}) /\ Cardinality(Nodes \ {call.src}) = n - 1
      BY <1>1, FS_RemoveElement
    <2>2. call.sinks \subseteq Nodes \ {call.src}
      BY <1>1
    <2>3. IsFiniteSet(call.sinks) /\ Cardinality(call.sinks) \in Nat
      BY <1>1, FS_Subset, FS_CardinalityType
    <2>4. Cardinality(call.sinks) # 0
      BY <2>3, FS_EmptySet
    <2>5. Cardinality(rest) = n - 1 - Cardinality(call.sinks)
      BY <2>1, <2>2, CardinalityWithout
    <2>6. IsFiniteSet(rest)
      BY <2>1, FS_Subset
    <2> QED
      BY <1>1, <2>3, <2>4, <2>5, <2>6
  <1>4. PICK k \in 1 .. n - 1 : \A v \in rest : dist[v] # 0 + k
    <2> DEFINE m == n - 1
               z == 0
    <2>1. m \in Nat /\ Cardinality(rest) < m /\ IsFiniteSet(rest) /\ z \in Nat
      BY <1>3
    <2> HIDE DEF m, n, z, rest
    <2>2. Empty(dist, rest, z, m)
      BY <2>1, EmptyLevel
    <2> QED
      BY <2>2 DEF Empty, m, z
  <1>5. \A v \in Nodes : dist[v] # k
    BY <1>1, <1>2, <1>4
  <1> QED
    BY <1>5

\* Against a level without vertices no search comes up to the source.
LEMMA SourceNotBehind ==
    ASSUME FInv, pc = "returned"
    PROVE  call.src \notin Behind
  <1>1. /\ call.sinks \in SUBSET Nodes /\ call.src \in Nodes /\ call.src \notin call.sinks
        /\ call.n \in Nat
    BY FlowFacts, CallFacts
  <1>2. \A R \in SUBSET Nodes :
            call.sinks \subseteq R /\ (\A u \in R : Backwards[u] \subseteq R) => Behind \subseteq R
    BY <1>1, ReachableFacts DEF Behind
  <1>3. CASE call.sinks = {}
    <2>1. Behind \subseteq {}
      BY <1>2, <1>3
    <2> QED
      BY <2>1
  <1>4. CASE call.sinks # {}
    <2>1. PICK k \in 1 .. call.n - 1 : \A v \in Nodes : dist[v] # k
      BY <1>4, SomeGap
    <2> DEFINE R == {v \in Nodes : dist[v] < k}
    <2>2. \A v \in Nodes : dist[v] \in Nat
      BY <1>1 DEF FInv, IInv, Types
    <2>3. dist[call.src] = call.n /\ \A s \in call.sinks : dist[s] = 0
      BY DEF FInv, IInv, Levels
    <2>4. call.sinks \subseteq R /\ call.src \notin R /\ R \in SUBSET Nodes
      BY <1>1, <2>3
    <2>5. ASSUME NEW u \in R, NEW t \in Backwards[u]
          PROVE  t \in R
      <3>1. u \in Nodes /\ t \in Nodes /\ Residual(flow, t, u) > 0
        BY DEF Backwards
      <3>2. dist[t] <= dist[u] + 1
        BY <3>1 DEF FInv, IInv, Valid
      <3>3. dist[u] < k /\ dist[t] # k
        BY <2>1, <3>1
      <3>4. dist[t] \in Nat /\ dist[u] \in Nat /\ k \in Nat
        BY <2>2, <3>1
      <3>5. dist[t] < k
        BY <3>2, <3>3, <3>4
      <3> QED
        BY <3>1, <3>5
    <2> HIDE DEF R
    <2>6. Behind \subseteq R
      BY <1>2, <2>4, <2>5
    <2> QED
      BY <2>4, <2>6
  <1> QED
    BY <1>3, <1>4

\* The source set is a cut whose edges are full.
LEMMA SourceSetIsFull ==
    ASSUME FInv, pc = "returned"
    PROVE  /\ SourceSet \in Cuts
           /\ \A u \in SourceSet, v \in Nodes \ SourceSet : Residual(flow, u, v) = 0
           /\ \A R \in SUBSET Nodes :
                 call.src \in R /\ (\A u \in R : Neighbors(u) \ Behind \subseteq R)
                     => SourceSet \subseteq R
           /\ \A u \in SourceSet : Neighbors(u) \ Behind \subseteq SourceSet
  <1> DEFINE next == [u \in Nodes |-> Neighbors(u) \ Behind]
  <1>1. /\ call.sinks \in SUBSET Nodes /\ call.src \in Nodes /\ {call.src} \in SUBSET Nodes
        /\ call \in Problems /\ flow \in [Nodes -> [Nodes -> Int]] /\ Capacities
    BY FlowFacts DEF FInv, IInv, Types, Preflow
  <1>2. SourceSet = Reachable({call.src}, next)
    BY DEF SourceSet, Behind, Backwards
  <1>3. /\ call.sinks \subseteq Behind
        /\ \A u \in Behind : Backwards[u] \cap Nodes \subseteq Behind
    BY <1>1, ReachableFacts DEF Behind
  <1>4. /\ SourceSet \in SUBSET Nodes /\ {call.src} \subseteq SourceSet
        /\ \A u \in SourceSet : next[u] \cap Nodes \subseteq SourceSet
        /\ \A R \in SUBSET Nodes :
              {call.src} \subseteq R /\ (\A u \in R : next[u] \subseteq R) => SourceSet \subseteq R
    <2> HIDE DEF next
    <2> DEFINE start == {call.src}
               Q == Reachable(start, next)
    <2>1. start \in SUBSET Nodes
      BY <1>1
    <2>2. SourceSet = Q
      BY <1>2
    <2> HIDE DEF start
    <2>3. /\ Q \in SUBSET Nodes /\ start \subseteq Q
          /\ \A u \in Q : next[u] \cap Nodes \subseteq Q
          /\ \A R \in SUBSET Nodes :
                start \subseteq R /\ (\A u \in R : next[u] \subseteq R) => Q \subseteq R
      BY <2>1, ReachableFacts
    <2> HIDE DEF Q
    <2> QED
      BY <2>2, <2>3 DEF start
  <1>5. \A u \in Nodes : next[u] = Neighbors(u) \ Behind /\ next[u] \subseteq Nodes
    BY DEF Neighbors
  <1> HIDE DEF next
  <1>6. SourceSet \cap Behind = {}
    <2>1. call.src \in Nodes \ Behind /\ \A u \in Nodes \ Behind : next[u] \subseteq Nodes \ Behind
      BY <1>1, <1>5, SourceNotBehind
    <2>2. SourceSet \subseteq Nodes \ Behind
      BY <1>4, <2>1
    <2> QED
      BY <2>2
  <1>7. ASSUME NEW u \in SourceSet, NEW v \in Nodes \ SourceSet
        PROVE  Residual(flow, u, v) = 0
    <2>1. u \in Nodes /\ v \in Nodes
      BY <1>4
    <2>2. Residual(flow, u, v) \in Int /\ ~(Residual(flow, u, v) < 0)
      <3>1. flow[u][v] \in Int /\ call.cap[u][v] \in Int /\ flow[u][v] <= call.cap[u][v]
        BY <2>1, FlowFacts
      <3> QED
        BY <3>1 DEF Residual
    <2>3. ~(Residual(flow, u, v) > 0)
      <3> SUFFICES ASSUME Residual(flow, u, v) > 0 PROVE FALSE
        OBVIOUS
      <3>1. v \in Neighbors(u)
        BY <1>1, <2>1, OnlyEdges
      <3>2. v \in Behind
        BY <1>4, <1>5, <2>1, <3>1
      <3>3. u \in Backwards[v]
        BY <2>1 DEF Backwards
      <3>4. u \in Behind
        BY <1>3, <2>1, <3>2, <3>3
      <3> QED
        BY <1>6, <3>4
    <2> QED
      BY <2>2, <2>3
  <1>8. SourceSet \in Cuts
    BY <1>3, <1>4, <1>6 DEF Cuts
  <1>9. \A u \in SourceSet : Neighbors(u) \ Behind \subseteq SourceSet
    BY <1>4, <1>5
  <1>10. \A R \in SUBSET Nodes :
            call.src \in R /\ (\A u \in R : Neighbors(u) \ Behind \subseteq R) => SourceSet \subseteq R
    BY <1>4, <1>5
  <1> QED
    BY <1>7, <1>8, <1>9, <1>10

\* A minimum cut is full, so that the sinks' side reaches no further.
LEMMA SourceSetIsLargest ==
    ASSUME FInv, pc = "returned", NEW S \in Cuts, Boundary(S) <= TotalFlow
    PROVE  Reachable({call.src}, [u \in Nodes |-> Neighbors(u) \cap S]) \subseteq SourceSet
  <1> DEFINE next == [u \in Nodes |-> Neighbors(u) \cap S]
  <1>1. \A u \in S, v \in Nodes \ S : Residual(flow, u, v) = 0
    BY AllArrived, CutBound
  <1>2. S \in SUBSET Nodes /\ Nodes \ S \in SUBSET Nodes /\ call.sinks \subseteq Nodes \ S
        /\ call.sinks \in SUBSET Nodes /\ {call.src} \in SUBSET Nodes
    BY FlowFacts DEF Cuts
  <1>3. Behind \subseteq Nodes \ S
    <2>1. \A R \in SUBSET Nodes :
              call.sinks \subseteq R /\ (\A u \in R : Backwards[u] \subseteq R) => Behind \subseteq R
      BY <1>2, ReachableFacts DEF Behind
    <2>2. \A u \in Nodes \ S : Backwards[u] \subseteq Nodes \ S
      <3> SUFFICES ASSUME NEW u \in Nodes \ S, NEW t \in Backwards[u]
                   PROVE  t \in Nodes \ S
        OBVIOUS
      <3>1. t \in Nodes /\ Residual(flow, t, u) > 0
        BY DEF Backwards
      <3>2. t \notin S
        BY <1>1, <3>1
      <3> QED
        BY <3>1, <3>2
    <2> QED
      BY <1>2, <2>1, <2>2
  <1>4. SourceSet \in SUBSET Nodes /\ call.src \in SourceSet
        /\ \A u \in SourceSet : Neighbors(u) \ Behind \subseteq SourceSet
    BY SourceSetIsFull DEF Cuts
  <1>5. \A u \in SourceSet : next[u] \subseteq SourceSet
    BY <1>3, <1>4
  <1> HIDE DEF next
  <1>6. \A R \in SUBSET Nodes :
            {call.src} \subseteq R /\ (\A u \in R : next[u] \subseteq R)
                => Reachable({call.src}, next) \subseteq R
    BY <1>2, ReachableFacts
  <1>7. Reachable({call.src}, next) \subseteq SourceSet
    BY <1>4, <1>5, <1>6
  <1> QED
    BY <1>7 DEF next

\* What is returned is a maximum flow, as large as a minimum cut, and the largest such
\* cut that is connected; a limit is returned only below all cuts.
THEOREM ReturnsMinimumCut == Spec => []ReturnsMinCut
  <1>1. ASSUME FInv, pc = "returned"
        PROVE  /\ \A v \in Nodes \ {call.src} :
                     excess[v] = Inflow(v) /\ (v \notin call.sinks => excess[v] = 0)
               /\ SourceSet \in MinimumCuts
               /\ TotalFlow = Boundary(SourceSet)
               /\ \A S \in MinimumCuts :
                     Reachable({call.src}, [u \in Nodes |-> Neighbors(u) \cap S])
                         \subseteq SourceSet
    <2>1. \A v \in Nodes \ {call.src} :
              excess[v] = Inflow(v) /\ (v \notin call.sinks => excess[v] = 0)
      BY <1>1, AllArrived DEF FInv, Inflows, Terminals
    <2>2. SourceSet \in Cuts
      BY <1>1, SourceSetIsFull
    <2>3. \A S \in Cuts : TotalFlow <= Boundary(S) /\ Boundary(S) \in Int /\ TotalFlow \in Int
      <3> SUFFICES ASSUME NEW S \in Cuts
                   PROVE  TotalFlow <= Boundary(S) /\ Boundary(S) \in Int /\ TotalFlow \in Int
        OBVIOUS
      <3>1. Sum(excess, Nodes \ S) = TotalFlow
        BY <1>1, AllArrived
      <3> QED
        BY <1>1, <3>1, CutBound
    <2>4. Boundary(SourceSet) <= TotalFlow
      <3>1. Sum(excess, Nodes \ SourceSet) = TotalFlow
        BY <1>1, <2>2, AllArrived
      <3>2. \A u \in SourceSet, v \in Nodes \ SourceSet : Residual(flow, u, v) = 0
        BY <1>1, SourceSetIsFull
      <3> QED
        BY <1>1, <2>2, <3>1, <3>2, CutBound
    <2>5. TotalFlow = Boundary(SourceSet)
      BY <2>2, <2>3, <2>4
    <2>6. SourceSet \in MinimumCuts
      BY <2>2, <2>3, <2>5 DEF MinimumCuts
    <2>7. ASSUME NEW S \in MinimumCuts
          PROVE  Reachable({call.src}, [u \in Nodes |-> Neighbors(u) \cap S]) \subseteq SourceSet
      <3>1. S \in Cuts /\ Boundary(S) <= TotalFlow
        BY <2>2, <2>5 DEF MinimumCuts
      <3> QED
        BY <1>1, <3>1, SourceSetIsLargest
    <2> QED
      BY <2>1, <2>5, <2>6, <2>7
  <1>2. ASSUME FInv, pc = "limited", NEW S \in Cuts PROVE Boundary(S) >= call.limit
    <2>1. reached
      BY <1>2 DEF FInv, Ending
    <2> QED
      BY <1>2, <2>1, LimitBelowCuts
  <1>3. FInv => ReturnsMinCut
    BY <1>1, <1>2 DEF ReturnsMinCut
  <1> QED
    BY <1>3, FlowInductive, PTL

===============================================================================

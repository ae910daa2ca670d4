---------------------------- MODULE DynamicMincut ----------------------------
(***************************************************************************)
(* A minimum cut under insertions and deletions of edges                   *)
(* (algorithms/global_mincut/dynamic/dynamic_mincut.h).  The cactus of     *)
(* minimum cuts is kept: an inserted edge contracts the vertices of the    *)
(* cactus between its ends (dynamic/cactus_path.h), until one is left and  *)
(* the cactus is built again; a deleted edge whose ends had a minimum cut  *)
(* between them, or get a lighter one, makes the minimum cuts between its  *)
(* ends the new cactus, and the old one is cached with the edges inserted  *)
(* since, for the time when the cut is as heavy again.  mincut and cactus  *)
(* are current_cut and out_cactus, the graph is the first of levels.       *)
(***************************************************************************)
EXTENDS CactusMincut

CONSTANTS
    Streams(_),    \* for a graph, sequences of sets from which each update is taken: an
                   \* edge <<s, t, w>>, to be deleted with w = 0
    MaxCacheSize,  \* max_cache_size
    HighDegree,    \* the degrees of a vertex from which contractVertexSet contracts
    MiddleDegree   \* the others into it (100), and from which not more than one may be (10)

ASSUME CacheAssumption == MaxCacheSize \in Nat

VARIABLES
    stream,  \* the updates to come
    num,     \* numCachedMincuts
    lowest,  \* lowestCachedMincut
    cached,  \* cachedCactus, cachedInserts and currentlyCaching, by cut, from 0
    strayed  \* history: whether an insertion has contracted another path of a cached
             \* cactus than the one that cuts of its weight call for
dynamicVars == <<stream, num, lowest, cached, strayed>>

Undefined == -1

-----------------------------------------------------------------------------
\* The path between two vertices of a cactus

\* Breadth first from s and t at once: every vertex found has a parent, the root
\* it is reached from, and tree says whether the edge to it is a tree edge.
RECURSIVE Meet(_, _, _)
Meet(C, bfs, value) ==
    LET n == Head(bfs.q)
        meets(e) == e.to \in DOMAIN bfs.root /\ bfs.root[e.to] # bfs.root[n]
        i == SelectInSeq(C.vs[n], meets)
        find(st, e) ==
            IF e.to \in DOMAIN st.root THEN st
            ELSE [q |-> Append(st.q, e.to), parent |-> (e.to :> n) @@ st.parent,
                  root |-> (e.to :> st.root[n]) @@ st.root,
                  tree |-> (e.to :> (e.w = value)) @@ st.tree]
    IN  IF i # 0 THEN [n |-> n, tgt |-> C.vs[n][i].to, bfs |-> bfs]
        ELSE Meet(C, FoldLeft(find, [bfs EXCEPT !.q = Tail(@)], C.vs[n]), value)

\* Mutant: of a tree edge only the vertex above is added.
RECURSIVE Climb_BelowTree(_, _, _)
Climb_BelowTree(bfs, v, onTree) ==
    LET up == bfs.parent[v]
    IN  IF v = bfs.root[v] THEN {}
        ELSE (IF onTree THEN {up} ELSE {}) \cup Climb_BelowTree(bfs, up, bfs.tree[up])

\* From v up to its root: the vertices above and below a tree edge.
RECURSIVE Climb(_, _, _)
Climb(bfs, v, onTree) ==
    LET up == bfs.parent[v]
    IN  IF v = bfs.root[v] THEN {}
        ELSE (IF onTree \/ bfs.tree[up] THEN {up} ELSE {}) \cup Climb(bfs, up, bfs.tree[up])

\* The vertices at the meeting edge, and both ways back.
PathThrough(met, s) ==
    LET fromS == met.bfs.root[met.n] = s
    IN  {met.n, met.tgt}
            \cup Climb(met.bfs, IF fromS THEN met.n ELSE met.tgt, met.bfs.tree[met.n])
            \cup Climb(met.bfs, IF fromS THEN met.tgt ELSE met.n, met.bfs.tree[met.tgt])

FindPath(C, s, t, value) ==
    PathThrough(Meet(C, [q |-> <<s, t>>, parent |-> [x \in {s, t} |-> x],
                         root |-> [x \in {s, t} |-> x], tree |-> [x \in {s, t} |-> TRUE]],
                     value),
                s)

\* The others one by one into a vertex of high degree, or the set at once.
MergeInto(C, s, t, i) ==
    IF i = 0 THEN ContractSparseTargetNoEdge(C, s, t) ELSE ContractEdgeSparseTarget(C, s, i)

IntoHighDegree(C, S, high) ==
    FoldLeft(LAMBDA H, x : MergeInto(H, H.pos[FirstName(C, high)], H.pos[x],
                                     EdgeTo(H, H.pos[FirstName(C, high)], H.pos[x])),
             C, Ascending({FirstName(C, v) : v \in S \ {high}}))

ContractPath(C, S) ==
    LET above(degree) == {v \in S : Len(C.vs[v]) > degree}
    IN  IF /\ Cardinality(above(HighDegree)) = 1 /\ Cardinality(above(MiddleDegree)) = 1
           /\ \A v \in S : ~IsEmpty(C, v)
        THEN IntoHighDegree(C, S, CHOOSE v \in S : Len(C.vs[v]) > HighDegree)
        ELSE ContractSet(C, S)

-----------------------------------------------------------------------------
\* Answers

\* The members of the algorithm that builds a cactus do not outlive a call.
Forget == /\ size' = 0 /\ before' = 0 /\ hung' = <<>> /\ stack' = <<>> /\ cut' = {}
          /\ UNCHANGED opts

\* findAllMincuts of the graph, whose minimum cut is known or computed first.
Recompute(G) ==
    /\ levels' = <<Level(G)>>
    /\ phase' = "start"
    /\ UNCHANGED <<mincut, cactus>>
    /\ Forget

Answer(G, C, value) ==
    /\ levels' = <<Level(G)>>
    /\ cactus' = C /\ mincut' = value
    /\ phase' = IF C.exited THEN "failed" ELSE "updated"
    /\ Forget

Same(G) == Answer(G, cactus, mincut)

-----------------------------------------------------------------------------
\* The cache: a record of what num, lowest, cached and strayed are

Cache == [num |-> num, lowest |-> lowest, cached |-> cached, strayed |-> strayed]
SetCache(c) ==
    num' = c.num /\ lowest' = c.lowest /\ cached' = c.cached /\ strayed' = c.strayed

Resized(entries, n) ==
    [k \in 0 .. n - 1 |-> IF k \in DOMAIN entries THEN entries[k]
                          ELSE [cactus |-> Empty(0), inserts |-> <<>>, caching |-> FALSE]]

PutIntoCache(c, C, value) ==
    LET larger == IF value + 1 > Cardinality(DOMAIN c.cached) THEN Resized(c.cached, value + 1)
                  ELSE c.cached
    IN  [c EXCEPT
            !.num = @ + 1,
            !.lowest = IF @ = Undefined \/ value < @ THEN value ELSE @,
            !.cached = [larger EXCEPT ![value] = [cactus |-> C, inserts |-> <<>>, caching |-> TRUE]]]

\* The edge is noted for the lowest cut; when that has too many the cache is given up.
CacheEdge(c, e) ==
    IF c.num = 0 THEN [c EXCEPT !.lowest = Undefined]
    ELSE IF Len(c.cached[c.lowest].inserts) <= MaxCacheSize
    THEN [c EXCEPT !.cached[c.lowest].inserts = Append(@, e)]
    ELSE LET off == [c.cached EXCEPT ![c.lowest].caching = FALSE]
         IN  [c EXCEPT !.num = 0, !.lowest = Undefined,
                       !.cached = IF c.num > 1 THEN Resized(off, c.lowest + 1) ELSE off]

\* The cached cut is no longer the lowest one: the next larger cached cut gets its
\* insertions, unless they are too many.
Inherit(c, value, next) ==
    IF Len(c.cached[value].inserts) + Len(c.cached[next].inserts) > MaxCacheSize
    THEN [c EXCEPT !.num = 0, !.lowest = Undefined, !.cached = Resized(@, value + 1)]
    ELSE [c EXCEPT !.lowest = next, !.cached[next].inserts = @ \o c.cached[value].inserts]

NextCached(c, value) ==
    LET larger == {k \in DOMAIN c.cached : k > value /\ c.cached[k].caching}
    IN  IF c.num = 0 THEN [c EXCEPT !.lowest = Undefined]
        ELSE Inherit(c, value, IF larger = {} THEN c.lowest ELSE Min(larger))

\* The insertions contract the cached cactus, until it would be a single vertex.
Contracted(st, path) ==
    IF Cardinality(path) = Len(st.C.vs) THEN [st EXCEPT !.single = TRUE]
    ELSE [st EXCEPT !.C = ContractPath(@, path)]

\* The edges of the path are taken for tree edges if they weigh current_cut, which is
\* not yet the cut that is cached.
ReplayInsert(st, value, e) ==
    LET s == st.C.pos[e[1]]
        t == st.C.pos[e[2]]
        path == FindPath(st.C, s, t, mincut)
    IN  IF st.single \/ s = t THEN st
        ELSE Contracted([st EXCEPT !.strayed = @ \/ path # FindPath(st.C, s, t, value)], path)

Replay(c, value) ==
    FoldLeft(LAMBDA st, e : ReplayInsert(st, value, e),
             [C |-> c.cached[value].cactus, single |-> FALSE, strayed |-> c.strayed],
             c.cached[value].inserts)

\* An entry that is its own successor is appended to itself while it is read.
Replayed(G, c, value, st) ==
    /\ SetCache([c EXCEPT !.cached[value].cactus = st.C, !.strayed = st.strayed])
    /\ IF c.lowest = value /\ c.cached[value].inserts # <<>>
       THEN Answer(G, Checked(st.C, FALSE), value)
       ELSE IF st.single THEN Recompute(G) ELSE Answer(G, st.C, value)

BuildCactusFromCache(G, c, value) ==
    Replayed(G, NextCached([c EXCEPT !.num = @ - 1, !.cached[value].caching = FALSE], value),
             value, Replay(c, value))

\* noi computes the minimum cut of the graph.
CheckCacheAndRecompute(G, c) ==
    IF /\ c.lowest # Undefined /\ c.lowest = MinimumCut(G)
       /\ 2 * Cardinality(DOMAIN c.cached) < Len(c.cached[c.lowest].cactus.vs)
    THEN BuildCactusFromCache(G, c, c.lowest)
    ELSE Recompute(G) /\ SetCache(c)

-----------------------------------------------------------------------------
\* Updates

InsertBetween(G, c, path) ==
    IF Cardinality(path) = Len(cactus.vs) THEN CheckCacheAndRecompute(G, c)
    ELSE /\ Answer(G, IF mincut = 0 THEN ContractSet(cactus, path)
                      ELSE ContractPath(cactus, path), mincut)
         /\ SetCache(c)

InsertEdge(G, c, u, v) ==
    IF u = v THEN Same(G) /\ SetCache(c)
    ELSE InsertBetween(G, c, IF mincut = 0 THEN {u, v} ELSE FindPath(cactus, u, v, mincut))

AddEdge(e) ==
    InsertEdge(NewEdgeOrder(Original, e[1], e[2], e[3]), CacheEdge(Cache, e),
               cactus.pos[e[1]], cactus.pos[e[2]])

\* The limited flow is given up at the limit (and what is left then is no flow,
\* which only a cactus with a cut that is not minimum can bring about).
LimitedFlow(flow) == [flow EXCEPT !.flow = Min({@, mincut})]

\* The flow between the ends shows all minimum cuts that are between them.
DeletedBetween(G, s, t, flow) ==
    IF cactus.pos[s] = cactus.pos[t] /\ flow.flow >= mincut
    THEN Same(G) /\ SetCache(Cache)
    ELSE /\ SetCache(PutIntoCache(Cache, cactus, mincut))
         /\ Answer(G, DecrementalRebuild(G, s, flow), flow.flow)

Deleted(G, s, t, w) ==
    IF w = 0 \/ mincut = 0 THEN Same(G) /\ SetCache(Cache)
    ELSE DeletedBetween(G, s, t, LimitedFlow(MaxFlow(G, s, t)))

RemoveEdge(s, t, i) ==
    IF i = 0 THEN Same(Original) /\ SetCache(Cache)
    ELSE Deleted(DeleteEdge(Original, s, i), s, t, Original.vs[s][i].w)

DynamicInit ==
    /\ Init
    /\ stream \in Streams(Original)
    /\ num = 0 /\ lowest = Undefined /\ cached = <<>> /\ strayed = FALSE

Ready == phase \in {"located", "updated"} /\ stream # <<>>

\* No edge is inserted that is there: contractions would make loops of parallel edges.
Insertion ==
    /\ Ready
    /\ \E e \in Head(stream) :
          /\ e[3] > 0 /\ EdgeTo(Original, e[1], e[2]) = 0
          /\ AddEdge(e)
    /\ stream' = Tail(stream)

Deletion ==
    /\ Ready
    /\ \E e \in Head(stream) : e[3] = 0 /\ RemoveEdge(e[1], e[2], EdgeTo(Original, e[1], e[2]))
    /\ stream' = Tail(stream)

DynamicNext ==
    \/ Insertion
    \/ Deletion
    \/ Estimate /\ UNCHANGED dynamicVars
    \/ Round /\ UNCHANGED dynamicVars
    \/ HeavyEdges /\ UNCHANGED dynamicVars
    \/ HeavyTriangles /\ UNCHANGED dynamicVars
    \/ ExactCut /\ UNCHANGED dynamicVars
    \/ EnterCall /\ UNCHANGED dynamicVars
    \/ ReduceGraph /\ UNCHANGED dynamicVars
    \/ FlowStep /\ UNCHANGED dynamicVars
    \/ EnterComponent /\ UNCHANGED dynamicVars
    \/ ReturnCactus /\ UNCHANGED dynamicVars
    \/ FlowMincut /\ UNCHANGED dynamicVars
    \/ Locate /\ UNCHANGED dynamicVars
    \/ FindCut /\ UNCHANGED dynamicVars

DynamicSpec == DynamicInit /\ [][DynamicNext]_<<vars, dynamicVars>>

-----------------------------------------------------------------------------
\* Properties

\* The answer to every update is the weight of a minimum cut, and every cut that the
\* cactus stands for is still a minimum cut, until an insertion is replayed on a cached
\* cactus along a wrong path: buildCactusFromCache looks for tree edges of the weight
\* current_cut, which is still that of the lighter cut (dynamic_mincut.h:166).
UpdatesAreExact ==
    ~strayed /\ phase \in {"located", "updated"} =>
        /\ mincut = MinimumCut(Original)
        /\ Represented \subseteq AllMinimumCuts(Original)
=============================================================================

----------------------------- MODULE MutableGraph -----------------------------
(***************************************************************************)
(* The calls on one object of the graph that every algorithm contracts     *)
(* (lib/data_structure/mutable_graph.h), in any order, with the stack of   *)
(* deleted blocks that the cactus algorithm keeps beside it.               *)
(***************************************************************************)
EXTENDS AdjacencyArrays

CONSTANTS
    Starts,    \* initial graphs: [n, edges, calls], edges a sequence of <<source, target,
               \* weight>>, calls a bound: the number of calls that are made on it
    Weights    \* the weights that callers give

ASSUME WeightsAssumption == Weights \subseteq Nat
\* An edge is given from its smaller end, and once.
ASSUME StartsAssumption ==
    \A s \in Starts :
        /\ s.n \in Nat /\ s.calls \in Nat
        /\ s.edges \in Seq((1 .. s.n) \X (1 .. s.n) \X Nat)
        /\ \A i \in DOMAIN s.edges : s.edges[i][1] < s.edges[i][2]
        /\ \A i, j \in DOMAIN s.edges :
              s.edges[i][1] = s.edges[j][1] /\ s.edges[i][2] = s.edges[j][2] => i = j

VARIABLES
    g,         \* the object: vs (vertices), deg (weighted_degree), m (num_edges), last
               \* (last_node), cont (contained_in_this), pos (current_position)
    removed,   \* the caller's stack of deleted blocks, each with a vertex next to it
    left       \* the number of calls to come

vars == <<g, removed, left>>

Vertices == DOMAIN g.vs
Neighbors(v) == {g.vs[v][i].to : i \in DOMAIN g.vs[v]}

-----------------------------------------------------------------------------
Init ==
    /\ \E s \in Starts :
          /\ g = FoldLeft(LAMBDA G, e : NewEdge(G, e[1], e[2], e[3]), Empty(s.n), s.edges)
          /\ left = s.calls
    /\ removed = <<>>

Call(G) ==
    /\ left > 0
    /\ left' = left - 1
    /\ g' = G

CallNewEdge ==
    /\ \E s, t \in Vertices, w \in Weights :
          s < t /\ t \notin Neighbors(s) /\ Call(NewEdge(g, s, t, w))
    /\ UNCHANGED removed

CallSetEdgeWeight ==
    /\ \E v \in Vertices, w \in Weights :
          \E i \in DOMAIN g.vs[v] : Call(SetEdgeWeight(g, v, i, w))
    /\ UNCHANGED removed

CallDeleteEdge ==
    /\ \E v \in Vertices : \E i \in DOMAIN g.vs[v] : Call(DeleteEdge(g, v, i))
    /\ UNCHANGED removed

CallDeleteVertex ==
    \E v \in Vertices : \E t \in Neighbors(v) : \E near \in g.cont[t] :
        /\ Call(DeleteVertex(g, v))
        /\ removed' = Append(removed, [near |-> near, cont |-> g.cont[v]])

CallReInsert ==
    /\ removed # <<>>
    /\ \E w \in Weights : Call(ReInsert(g, Last(removed).near, Last(removed).cont, w))
    /\ removed' = Front(removed)

CallContractVertexSet ==
    /\ \E S \in SUBSET Vertices :
          /\ Cardinality(S) > 1
          /\ \E order \in SetToSeqs(S \ {Min(S)}) : Call(ContractVertexSet(g, S, Min(S), order))
    /\ UNCHANGED removed

CallContractEdge ==
    /\ \E v \in Vertices : \E i \in DOMAIN g.vs[v] : Call(ContractEdge(g, v, i))
    /\ UNCHANGED removed

CallContractSparse ==
    /\ \E v, t \in Vertices :
          \/ \E i \in DOMAIN g.vs[v] : g.vs[v][i].to = t /\ Call(ContractEdgeSparseTarget(g, v, i))
          \/ v # t /\ t \notin Neighbors(v) /\ Call(ContractSparseTargetNoEdge(g, v, t))
    /\ UNCHANGED removed

\* Only subproblems of the multicut solver are renumbered and sent, and they
\* never lose a vertex.  A number below num_edges is read as a target, any other
\* as the start of the next vertex, so that a graph with fewer edges than
\* vertices may not be read back; the call is restricted to those that are.
CallCopy ==
    /\ removed = <<>>
    /\ \/ Call(Simplify(g))
       \/ (\A v \in Vertices : \A t \in Neighbors(v) : t - 1 < g.m) /\ Call(Transmit(g))
    /\ UNCHANGED removed

Next ==
    \/ CallNewEdge \/ CallSetEdgeWeight \/ CallDeleteEdge
    \/ CallDeleteVertex \/ CallReInsert
    \/ CallContractVertexSet \/ CallContractEdge \/ CallContractSparse
    \/ CallCopy

Spec == Init /\ [][Next]_vars

-----------------------------------------------------------------------------
\* Properties

\* The two copies of an edge hold each other's index and the same weight, and no
\* two edges or loops arise: every index that a removal makes stale is corrected.
Linked ==
    \A v \in Vertices : \A i \in DOMAIN g.vs[v] :
        LET e == g.vs[v][i]
        IN  /\ e.rev \in DOMAIN g.vs[e.to]
            /\ g.vs[e.to][e.rev] = RevEdge(v, e.w, i)
            /\ e.to # v
            /\ \A j \in DOMAIN g.vs[v] : g.vs[v][j].to = e.to => j = i

\* weighted_degree and num_edges, kept up to date edge by edge, say what the
\* adjacency arrays say.
DegreesAgree ==
    /\ \A v \in Vertices : g.deg[v] = SumFunction([i \in DOMAIN g.vs[v] |-> g.vs[v][i].w])
    /\ g.m = SumFunction([v \in Vertices |-> Len(g.vs[v])])

\* getCurrentPosition and containedVertices are inverse to each other, and what
\* was in a deleted vertex points behind the last vertex, where
\* contractVertexSet skips it, until it is inserted again.
Placed ==
    /\ \A x \in DOMAIN g.pos : \A v \in Vertices : x \in g.cont[v] <=> g.pos[x] = v
    /\ \A k \in DOMAIN removed : \A x \in removed[k].cont : g.pos[x] > Len(g.vs)

\* The refinement mapping: a vertex stands for what it contains, an edge for the
\* pair of its ends.
BlocksOf(G) == {G.cont[v] : v \in DOMAIN G.vs}
EdgesOf(G) == UNION {{<<v, i>> : i \in DOMAIN G.vs[v]} : v \in DOMAIN G.vs}
EndsOf(G, e) == {G.cont[e[1]], G.cont[G.vs[e[1]][e[2]].to]}
WeightsOf(G) ==
    [p \in {EndsOf(G, e) : e \in EdgesOf(G)} |->
        LET e == CHOOSE f \in EdgesOf(G) : EndsOf(G, f) = p IN G.vs[e[1]][e[2]].w]

StartGraph(s) ==
    [blocks |-> {{v} : v \in 1 .. s.n},
     weight |-> [p \in {{{s.edges[i][1]}, {s.edges[i][2]}} : i \in DOMAIN s.edges} |->
        s.edges[CHOOSE i \in DOMAIN s.edges : {{s.edges[i][1]}, {s.edges[i][2]}} = p][3]]]

Contracted == INSTANCE ContractedGraph WITH
    Graphs <- {StartGraph(s) : s \in Starts}, Weights <- Weights,
    blocks <- BlocksOf(g), weight <- WeightsOf(g),
    away <- {removed[k].cont : k \in DOMAIN removed}

\* Whatever contractions, deletions and copies do to the arrays, the graph
\* between the blocks is the one that merging blocks and adding up weights gives.
IsContracted == Contracted!Spec
=============================================================================

---------------------------- MODULE ContractedGraph ----------------------------
(***************************************************************************)
(* What a mutable_graph promises its callers: an undirected weighted graph *)
(* whose vertices are blocks of original vertices.  Nothing is said of     *)
(* adjacency arrays, of reverse edges or of the index of a vertex, which   *)
(* are the business of MutableGraph.                                       *)
(***************************************************************************)
EXTENDS Naturals, FiniteSets, Functions

CONSTANTS
    Graphs,   \* the records [blocks, weight] that it may start with
    Weights   \* the weights that callers give

VARIABLES
    blocks,   \* the vertices, each the set of original vertices merged into it
    weight,   \* the edges, {A, B} for blocks A and B, with their weights
    away      \* the blocks that were deleted and may be inserted again

vars == <<blocks, weight, away>>

Pairs(S) == {p \in SUBSET S : Cardinality(p) = 2}
Incident(B) == {p \in DOMAIN weight : B \in p}

Init ==
    /\ [blocks |-> blocks, weight |-> weight] \in Graphs
    /\ away = {}

Connect(p, w) ==
    /\ p \in Pairs(blocks) \ DOMAIN weight
    /\ weight' = [q \in DOMAIN weight \cup {p} |-> IF q = p THEN w ELSE weight[q]]
    /\ UNCHANGED <<blocks, away>>

Reweigh(p, w) ==
    /\ weight' = [weight EXCEPT ![p] = w]
    /\ UNCHANGED <<blocks, away>>

Cut(p) ==
    /\ weight' = Restrict(weight, DOMAIN weight \ {p})
    /\ UNCHANGED <<blocks, away>>

\* The blocks of S become one; parallel edges become one, of their sum.
Merge(S) ==
    LET one == UNION S
        to(p) == IF p \cap S = {} THEN p ELSE (p \ S) \cup {one}
        kept == {to(p) : p \in {q \in DOMAIN weight : ~ q \subseteq S}}
    IN  /\ blocks' = (blocks \ S) \cup {one}
        /\ weight' = [q \in kept |->
              SumFunctionOnSet(weight, {p \in DOMAIN weight : to(p) = q})]
        /\ UNCHANGED away

Delete(B) ==
    /\ blocks' = blocks \ {B}
    /\ weight' = Restrict(weight, DOMAIN weight \ Incident(B))
    /\ away' = away \cup {B}

Insert(B, near, w) ==
    /\ blocks' = blocks \cup {B}
    /\ weight' = [q \in DOMAIN weight \cup {{B, near}} |->
          IF q = {B, near} THEN w ELSE weight[q]]
    /\ away' = away \ {B}

\* Every block becomes an original vertex of its own.
Rename ==
    \E name \in Bijection(blocks, 1 .. Cardinality(blocks)) :
        LET to(p) == {{name[B]} : B \in p}
        IN  /\ blocks' = to(blocks)
            /\ weight' = [q \in {to(p) : p \in DOMAIN weight} |->
                  weight[CHOOSE p \in DOMAIN weight : to(p) = q]]
            /\ UNCHANGED away

Next ==
    \/ \E p \in Pairs(blocks), w \in Weights : Connect(p, w)
    \/ \E p \in DOMAIN weight, w \in Weights : Reweigh(p, w)
    \/ \E p \in DOMAIN weight : Cut(p)
    \/ \E S \in SUBSET blocks : Cardinality(S) > 1 /\ Merge(S)
    \/ \E B \in blocks : Delete(B)
    \/ \E B \in away, near \in blocks, w \in Weights : Insert(B, near, w)
    \/ Rename

Spec == Init /\ [][Next]_vars
=============================================================================

----------------------------- MODULE MCPushRelabel -----------------------------
(***************************************************************************)
(* Instances of PushRelabel for TLC.                                       *)
(***************************************************************************)
EXTENDS PushRelabel

Weight(W, u, v) == IF {u, v} \in DOMAIN W THEN W[{u, v}] ELSE 0

Problem(n, W, sinks, limited, limit) ==
    [n |-> n, cap |-> [u \in 1 .. n |-> [v \in 1 .. n |-> Weight(W, u, v)]], src |-> 1,
     sinks |-> sinks, limited |-> limited, limit |-> limit, depth |-> 1]

Pairs(n) == {{u, v} : u, v \in 1 .. n} \ {{u} : u \in 1 .. n}

\* Every graph of four vertices with weights 0 (no edge) to 2.
Small ==
    {Problem(4, W, {2}, FALSE, 0) : W \in [Pairs(4) -> 0 .. 2]}

\* With two sinks, and limited.
Variants ==
    LET Graphs == {W \in [Pairs(4) -> 0 .. 2] : W[{1, 2}] = 0 /\ W[{1, 3}] = 2}
    IN  {Problem(4, W, {2, 4}, FALSE, 0) : W \in Graphs}
            \cup {Problem(4, W, {2}, TRUE, 2) : W \in Graphs}
            \cup {Problem(4, W, {2}, TRUE, 3) : W \in Graphs}

\* Five vertices, where levels between two others can become empty.
Long ==
    {Problem(5, W, {5}, FALSE, 0) :
        W \in {V \in [Pairs(5) -> 0 .. 2] :
                  /\ V[{1, 2}] = 2 /\ V[{2, 3}] = 2 /\ V[{3, 4}] = 1 /\ V[{1, 5}] = 0
                  /\ V[{1, 4}] = 0 /\ V[{2, 4}] = 0}}

Calls == Small \cup Variants \cup Long
=============================================================================

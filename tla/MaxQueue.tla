-------------------------------- MODULE MaxQueue --------------------------------
(***************************************************************************)
(* What every priority queue of the library promises: nodes with keys, of  *)
(* which deleteMax takes one whose key is the largest.                     *)
(***************************************************************************)
EXTENDS Integers, FiniteSets, Functions

CONSTANTS Nodes, Gains, Starts

VARIABLES
    key,     \* the key of each node in the queue
    taken    \* what the last deleteMax took: a node and its key

Init ==
    /\ \E s \in Starts : key = [n \in DOMAIN s |-> s[n]]
    /\ taken = <<>>

Insert(n, k) ==
    /\ n \notin DOMAIN key
    /\ key' = [x \in DOMAIN key \cup {n} |-> IF x = n THEN k ELSE key[x]]
    /\ UNCHANGED taken

ChangeKey(n, k) ==
    /\ n \in DOMAIN key
    /\ key' = [key EXCEPT ![n] = k]
    /\ UNCHANGED taken

DeleteNode(n) ==
    /\ key' = Restrict(key, DOMAIN key \ {n})
    /\ UNCHANGED taken

DeleteMax ==
    \E n \in DOMAIN key :
        /\ \A x \in DOMAIN key : key[x] <= key[n]
        /\ key' = Restrict(key, DOMAIN key \ {n})
        /\ taken' = <<n, key[n]>>

Next ==
    \/ \E n \in Nodes, k \in Gains : Insert(n, k) \/ ChangeKey(n, k)
    \/ \E n \in DOMAIN key : DeleteNode(n)
    \/ DeleteMax

Spec == Init /\ [][Next]_<<key, taken>>
=============================================================================

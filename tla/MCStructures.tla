----------------------------- MODULE MCStructures -----------------------------
(***************************************************************************)
(* The data structures that the algorithms are built on, under all short   *)
(* sequences of calls: one object, a graph or a priority queue, is called  *)
(* and the other one is idle.                                              *)
(***************************************************************************)
EXTENDS MutableGraph

CONSTANTS Nodes, Span, QueueStarts, QueueCalls

ASSUME SpanAssumption == Span \in Nat /\ QueueCalls \in Nat
ASSUME QueueStartsAssumption ==
    \A s \in QueueStarts : DOMAIN s \subseteq Nodes /\ \A i \in DOMAIN s : s[i] \in -Span .. Span

VARIABLES kind, q, taken, queueLeft

Queue == INSTANCE PriorityQueues WITH
    Starts <- QueueStarts, Calls <- QueueCalls, left <- queueLeft
queueVars == <<kind, q, taken, queueLeft>>

CallsInit ==
    \/ Init /\ kind = "heap" /\ q = Queue!EmptyHeap /\ taken = <<>> /\ queueLeft = 0
    \/ Queue!Init /\ g = Empty(1) /\ removed = <<>> /\ left = 0
CallsNext == (Next /\ UNCHANGED queueVars) \/ (Queue!Next /\ UNCHANGED vars)
Calls == CallsInit /\ [][CallsNext]_<<vars, queueVars>>

\* The index of a priority queue finds every element where it is
\* (lib/data_structure/priority_queues).
IndexAgrees == Queue!IndexAgrees

\* Each class is a priority queue, whatever calls came before
\* (lib/data_structure/priority_queues).
IsMaxQueue == Queue!IsMaxQueue

\* All six edges of four vertices, a cycle of five with a chord, and the idle graph.
Clique ==
    [n |-> 4, calls |-> 4, edges |-> << <<3, 4, 1>>, <<1, 2, 1>>, <<2, 4, 2>>,
                                        <<1, 4, 1>>, <<2, 3, 1>>, <<1, 3, 2>> >>]
Chorded ==
    [n |-> 5, calls |-> 3, edges |-> << <<1, 2, 1>>, <<2, 3, 1>>, <<3, 4, 2>>,
                                        <<4, 5, 1>>, <<1, 5, 1>>, <<2, 5, 1>> >>]
Graphs == {Clique, Chorded, [n |-> 1, calls |-> 0, edges |-> <<>>]}

\* Empty, or six nodes with two keys: six are the least with which what fills a
\* hole of the heap may have to rise, and two of the three largest then lie
\* below the hole.
Filled == {<<>>, <<1, -1, 1, -1, -1, 1>>, <<-1, -1, 1, -1, 1, -1>>}
=============================================================================

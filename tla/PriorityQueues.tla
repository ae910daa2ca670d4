----------------------------- MODULE PriorityQueues -----------------------------
(***************************************************************************)
(* The priority queues of lib/data_structure/priority_queues: a binary     *)
(* heap (maxNodeHeap), buckets that are stacks (bucket_pq) and buckets     *)
(* that are queues (fifo_node_bucket_pq).  Each keeps, beside the elements,*)
(* an index that says where a node is, and every move of an element has an *)
(* entry of the index to correct.  The operators take a queue object and   *)
(* return what the method makes of it; positions are one more than the     *)
(* code's.  vecMaxNodeHeap and node_bucket_pq are the first two with the   *)
(* index in a vector instead of a hash table.                              *)
(***************************************************************************)
EXTENDS Integers, FiniteSets, SequencesExt, Functions, TLC

CONSTANTS
    Nodes,     \* the nodes that callers insert
    Span,      \* gain_span: keys are -Span .. Span
    Starts,    \* sequences of keys: nodes 1, 2, ... are inserted with them first
    Calls      \* a bound: the number of calls after these

Gains == -Span .. Span
Addresses == 0 .. 2 * Span

VARIABLES
    kind,      \* the class of the queue
    q,         \* the object
    taken,     \* what the last deleteMax took: the node and the maxValue before
    left       \* the number of calls to come

vars == <<kind, q, taken, left>>

-----------------------------------------------------------------------------
\* maxNodeHeap: heap (m_heap) holds keys and places in elements (m_elements),
\* whose entries hold the node and the place in heap; index is m_element_index.

EmptyHeap == [heap |-> <<>>, elements |-> <<>>, index |-> <<>>]

Key(h, i) == h.heap[i].key

\* std::swap of two entries of m_heap, and the elements learn it.
SwapEntries(h, i, j) ==
    LET swapped == [h.heap EXCEPT ![i] = h.heap[j], ![j] = h.heap[i]]
    IN  [h EXCEPT !.heap = swapped, !.elements[swapped[i].el].at = i,
                  !.elements[swapped[j].el].at = j]

RECURSIVE SiftUp(_, _)
SiftUp(h, i) ==
    IF i > 1 /\ Key(h, i \div 2) < Key(h, i)
    THEN SiftUp(SwapEntries(h, i, i \div 2), i \div 2) ELSE h

\* With two children the entry stays only when both are smaller, so that it
\* may change places with an equal one.
RECURSIVE SiftDown(_, _)
SiftDown(h, i) ==
    LET child == IF 2 * i + 1 <= Len(h.heap) /\ Key(h, 2 * i) <= Key(h, 2 * i + 1)
                 THEN 2 * i + 1 ELSE 2 * i
        sinks == IF 2 * i + 1 <= Len(h.heap) THEN Key(h, child) >= Key(h, i)
                 ELSE 2 * i <= Len(h.heap) /\ Key(h, child) > Key(h, i)
    IN  IF sinks THEN SiftDown(SwapEntries(h, i, child), child) ELSE h

HeapInsert(h, n, k) ==
    LET size == Len(h.heap) + 1
        el == Len(h.elements) + 1
    IN  IF n \in DOMAIN h.index THEN h
        ELSE SiftUp([heap |-> Append(h.heap, [key |-> k, el |-> el]),
                     elements |-> Append(h.elements, [node |-> n, at |-> size]),
                     index |-> (n :> el) @@ h.index], size)

\* The last element takes the place of a deleted one; its entry in the heap and
\* its index are told.
FillElement(h, el) ==
    LET moved == Last(h.elements)
    IN  IF el = Len(h.elements) THEN [h EXCEPT !.elements = Front(@)]
        ELSE [h EXCEPT !.elements = Front([@ EXCEPT ![el] = moved]),
                       !.heap[moved.at].el = el, !.index[moved.node] = el]

Without(index, n) == Restrict(index, DOMAIN index \ {n})

\* Mutant: what fills the hole only sinks.
HeapDeleteNode_NoSiftUp(h, n) ==
    LET el == h.index[n]
        i == h.elements[el].at
        last == Last(h.heap)
        moved == [h EXCEPT !.heap = [@ EXCEPT ![i] = last, ![Len(h.heap)] = h.heap[i]],
                           !.elements[last.el].at = i, !.index = Without(@, n)]
        cut == [FillElement(moved, el) EXCEPT !.heap = Front(@)]
    IN  IF i <= Len(cut.heap) THEN SiftDown(cut, i) ELSE cut

HeapDeleteNode(h, n) ==
    LET el == h.index[n]
        i == h.elements[el].at
        last == Last(h.heap)
        moved == [h EXCEPT !.heap = [@ EXCEPT ![i] = last, ![Len(h.heap)] = h.heap[i]],
                           !.elements[last.el].at = i, !.index = Without(@, n)]
        cut == [FillElement(moved, el) EXCEPT !.heap = Front(@)]
    IN  IF i <= Len(cut.heap) THEN SiftUp(SiftDown(cut, i), i) ELSE cut

\* Here the last entry is copied over the first.
HeapDeleteMax(h) ==
    LET el == h.heap[1].el
        moved == [h EXCEPT !.heap[1] = Last(h.heap), !.elements[Last(h.heap).el].at = 1,
                           !.index = Without(@, h.elements[el].node)]
        cut == [FillElement(moved, el) EXCEPT !.heap = Front(@)]
    IN  IF Len(cut.heap) > 1 THEN SiftDown(cut, 1) ELSE cut

HeapChangeKey(h, n, k) ==
    LET i == h.elements[h.index[n]].at
        set == [h EXCEPT !.heap[i].key = k]
    IN  IF k < Key(h, i) THEN SiftDown(set, i)
        ELSE IF k > Key(h, i) THEN SiftUp(set, i) ELSE h

-----------------------------------------------------------------------------
\* Buckets: buckets (m_buckets) by address, max (m_max_idx), index
\* (m_queue_index) with a node's place and key, and in the fifo queue offset
\* (m_bucket_offset), the number of nodes ever removed from each bucket, by
\* which the places there are counted.  count is m_elements.

EmptyBuckets ==
    [buckets |-> [a \in Addresses |-> <<>>], offset |-> [a \in Addresses |-> 0],
     max |-> 0, index |-> <<>>, count |-> 0]

\* When bucket a has become empty and was the largest, the next that is not
\* empty is looked for, down to bucket 0.
LowerMax(b, a) ==
    IF b.buckets[a] = <<>> /\ a = b.max
    THEN [b EXCEPT !.max =
            LET lower == {c \in 0 .. a - 1 : b.buckets[c] # <<>>}
            IN  IF lower = {} THEN 0 ELSE Max(lower)]
    ELSE b

Entered(b, n, k, at) ==
    [b EXCEPT !.buckets[k + Span] = Append(@, n), !.index = (n :> [at |-> at, key |-> k]) @@ @,
              !.max = IF k + Span > @ THEN k + Span ELSE @, !.count = @ + 1]

Left(b, n, a) ==
    LowerMax([b EXCEPT !.index = Without(@, n), !.count = @ - 1], a)

BucketInsert(b, n, k) == Entered(b, n, k, Len(b.buckets[k + Span]) + 1)

BucketMax(b) == Last(b.buckets[b.max])

BucketDeleteMax(b) == Left([b EXCEPT !.buckets[b.max] = Front(@)], BucketMax(b), b.max)

\* The last node of the bucket fills the hole.
BucketDeleteNode(b, n) ==
    LET a == b.index[n].key + Span
        last == Last(b.buckets[a])
    IN  Left([b EXCEPT !.index[last].at = b.index[n].at,
                       !.buckets[a] = Front([@ EXCEPT ![b.index[n].at] = last])], n, a)

FifoInsert(b, n, k) == Entered(b, n, k, Len(b.buckets[k + Span]) + 1 + b.offset[k + Span])

FifoMax(b) == Head(b.buckets[b.max])

FifoDeleteMax(b) ==
    Left([b EXCEPT !.offset[b.max] = @ + 1, !.buckets[b.max] = Tail(@)], FifoMax(b), b.max)

\* Mutant: the offset is not counted when a node is deleted.
FifoDeleteNode_NoOffset(b, n) ==
    LET a == b.index[n].key + Span
        front == Head(b.buckets[a])
    IN  Left([b EXCEPT !.index[front].at = b.index[n].at,
                       !.buckets[a] = Tail([@ EXCEPT ![b.index[n].at - b.offset[a]] = front])],
             n, a)

\* The first node of the bucket fills the hole, so that it loses its turn.
FifoDeleteNode(b, n) ==
    LET a == b.index[n].key + Span
        front == Head(b.buckets[a])
    IN  Left([b EXCEPT !.offset[a] = @ + 1, !.index[front].at = b.index[n].at,
                       !.buckets[a] = Tail([@ EXCEPT ![b.index[n].at - b.offset[a]] = front])],
             n, a)

-----------------------------------------------------------------------------
\* The interface of the classes

Empty == IF kind = "heap" THEN EmptyHeap ELSE EmptyBuckets

DoInsert(o, n, k) ==
    CASE kind = "heap" -> HeapInsert(o, n, k)
      [] kind = "bucket" -> BucketInsert(o, n, k)
      [] kind = "fifo" -> FifoInsert(o, n, k)

DoDeleteNode(o, n) ==
    CASE kind = "heap" -> HeapDeleteNode(o, n)
      [] kind = "bucket" -> BucketDeleteNode(o, n)
      [] kind = "fifo" -> FifoDeleteNode(o, n)

DoDeleteMax(o) ==
    CASE kind = "heap" -> HeapDeleteMax(o)
      [] kind = "bucket" -> BucketDeleteMax(o)
      [] kind = "fifo" -> FifoDeleteMax(o)

\* The buckets delete and insert again.
DoChangeKey(o, n, k) ==
    IF kind = "heap" THEN HeapChangeKey(o, n, k) ELSE DoInsert(DoDeleteNode(o, n), n, k)

MaxValue(o) == IF kind = "heap" THEN o.heap[1].key ELSE o.max - Span

MaxElement(o) ==
    CASE kind = "heap" -> o.elements[o.heap[1].el].node
      [] kind = "bucket" -> BucketMax(o)
      [] kind = "fifo" -> FifoMax(o)

InQueue(n) == n \in DOMAIN q.index

IsEmpty == IF kind = "heap" THEN q.heap = <<>> ELSE q.count = 0

GetKey(n) == IF kind = "heap" THEN q.heap[q.elements[q.index[n]].at].key ELSE q.index[n].key

Init ==
    /\ kind \in {"heap", "bucket", "fifo"}
    /\ \E s \in Starts :
          q = FoldLeftDomain(LAMBDA o, i : DoInsert(o, i, s[i]), Empty, s)
    /\ taken = <<>>
    /\ left = Calls

Call(o) ==
    /\ left > 0
    /\ left' = left - 1
    /\ q' = o
    /\ UNCHANGED kind

\* Callers that use buckets ask contains first.
Insert(n, k) ==
    /\ kind = "heap" \/ ~InQueue(n)
    /\ Call(DoInsert(q, n, k))
    /\ UNCHANGED taken

ChangeKey(n, k) ==
    /\ InQueue(n)
    /\ Call(DoChangeKey(q, n, k))
    /\ UNCHANGED taken

DeleteNode(n) ==
    /\ InQueue(n)
    /\ Call(DoDeleteNode(q, n))
    /\ UNCHANGED taken

DeleteMax ==
    /\ ~IsEmpty
    /\ Call(DoDeleteMax(q))
    /\ taken' = <<MaxElement(q), MaxValue(q)>>

Next ==
    \/ \E n \in Nodes :
          (\E k \in Gains : Insert(n, k) \/ ChangeKey(n, k)) \/ DeleteNode(n)
    \/ DeleteMax

Spec == Init /\ [][Next]_vars

-----------------------------------------------------------------------------
\* Properties

\* The index finds every element where it is, after any mix of swaps, holes
\* that are filled and buckets that are counted from an offset: in the heap the
\* three arrays are inverse to each other, in a bucket the place less the offset
\* is the position, and there is no other element.
IndexAgrees ==
    IF kind = "heap"
    THEN /\ Len(q.heap) = Len(q.elements)
         /\ Cardinality(DOMAIN q.index) = Len(q.heap)
         /\ \A i \in DOMAIN q.heap :
               /\ q.elements[q.heap[i].el].at = i
               /\ q.index[q.elements[q.heap[i].el].node] = q.heap[i].el
    ELSE /\ q.count = Cardinality(DOMAIN q.index)
         /\ q.count = SumFunction([a \in Addresses |-> Len(q.buckets[a])])
         /\ \A n \in DOMAIN q.index :
               LET a == q.index[n].key + Span
               IN  /\ q.index[n].at - q.offset[a] \in DOMAIN q.buckets[a]
                   /\ q.buckets[a][q.index[n].at - q.offset[a]] = n

Abstract == INSTANCE MaxQueue WITH key <- [n \in DOMAIN q.index |-> GetKey(n)]

\* Every class is a priority queue: whatever calls came before, deleteMax takes
\* a node whose key is the largest, maxValue tells this key, and no other node
\* comes, goes or changes its key.
IsMaxQueue == Abstract!Spec
=============================================================================

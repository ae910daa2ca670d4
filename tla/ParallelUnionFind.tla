--------------------------- MODULE ParallelUnionFind ---------------------------
(***************************************************************************)
(* The shared union-find of the parallel build                             *)
(* (lib/parallel/data_structure/union_find.h).  OpenMP threads contract     *)
(* edges of a graph by calling Union, or SameSet and then Union, on one     *)
(* instance; there is no lock, only loads and compare-and-swaps of single   *)
(* words, and every one of them is a step of its own here.                 *)
(***************************************************************************)
EXTENDS Integers, FiniteSets

CONSTANTS
    N,        \* number of elements; an element is an index of m_parent
    Threads,  \* the OpenMP threads
    Ops,      \* the pairs that the parallel loop unites, each of them once
    Block     \* a labelling of the elements that every pair of Ops respects

Elem == 0 .. N - 1

ASSUME NAssumption == N \in Nat \ {0}
ASSUME OpsAssumption == Ops \subseteq Elem \X Elem
ASSUME BlockAssumption ==
    /\ Block \in [Elem -> Elem]
    /\ \A op \in Ops : Block[op[1]] = Block[op[2]]

VARIABLES
    parent, rank,        \* m_parent, m_rank: the shared arrays
    pending,             \* pairs no thread has taken yet
    pair,                \* the pair that each thread unites
    pc,                  \* where each thread is
    lhs, rhs, rl, rr,    \* Union's lhs, rhs, r_lhs, r_rhs
    elem, next, seen,    \* Find's element and next, and the word last loaded
    call                 \* what runs: Union or SameSet, and its first or second Find

shared == <<parent, rank>>
operands == <<pair, lhs, rhs, rl, rr>>
findVars == <<elem, next, seen>>
vars == <<parent, rank, pending, pair, pc, lhs, rhs, rl, rr, elem, next, seen, call>>

FindPC   == {"load", "next", "grand", "halve", "advance"}
SamePC   == {"sameRoot"}
UpdatePC == {"checkParent", "checkRank", "casParent", "loadRank", "casRank", "undo"}
PCs      == {"idle", "rankL", "rankR"} \cup FindPC \cup SamePC \cup UpdatePC

\* Which function is running in the thread and which of its steps called the
\* helper: Find(lhs) or Find(rhs) of Union or SameSet, UpdateRoot to link or to raise.
Calls == {"unionL", "unionR", "sameL", "sameR", "link", "raise"}

\* Mutant: the constructor counts from one.
Init_FromOne ==
    /\ parent = [x \in Elem |-> x + 1]
    /\ rank = [x \in Elem |-> 0]
    /\ pending = Ops
    /\ pair = [t \in Threads |-> <<0, 0>>]
    /\ pc = [t \in Threads |-> "idle"]
    /\ lhs = [t \in Threads |-> 0] /\ rhs = [t \in Threads |-> 0]
    /\ rl = [t \in Threads |-> 0] /\ rr = [t \in Threads |-> 0]
    /\ elem = [t \in Threads |-> 0] /\ next = [t \in Threads |-> 0]
    /\ seen = [t \in Threads |-> 0]
    /\ call = [t \in Threads |-> "unionL"]

Init ==
    /\ parent = [x \in Elem |-> x]
    /\ rank = [x \in Elem |-> 0]
    /\ pending = Ops
    /\ pair = [t \in Threads |-> <<0, 0>>]
    /\ pc = [t \in Threads |-> "idle"]
    /\ lhs = [t \in Threads |-> 0] /\ rhs = [t \in Threads |-> 0]
    /\ rl = [t \in Threads |-> 0] /\ rr = [t \in Threads |-> 0]
    /\ elem = [t \in Threads |-> 0] /\ next = [t \in Threads |-> 0]
    /\ seen = [t \in Threads |-> 0]
    /\ call = [t \in Threads |-> "unionL"]

Goto(t, to) == pc' = [pc EXCEPT ![t] = to]
At(t, here) == pc[t] = here

\* Thread t calls Find(x); the caller is "unionL", "sameR" and so on.
CallFind(t, x, caller) ==
    /\ elem' = [elem EXCEPT ![t] = x]
    /\ call' = [call EXCEPT ![t] = caller]
    /\ Goto(t, "load")
    /\ UNCHANGED <<next, seen>>

-----------------------------------------------------------------------------
(* The loop body: the next pair goes to an idle thread.                      *)

Start(t, op, caller) ==
    /\ At(t, "idle")
    /\ op \in pending
    /\ pending' = pending \ {op}
    /\ pair' = [pair EXCEPT ![t] = op]
    /\ lhs' = [lhs EXCEPT ![t] = op[1]]
    /\ rhs' = [rhs EXCEPT ![t] = op[2]]
    /\ CallFind(t, op[1], caller)
    /\ UNCHANGED <<shared, rl, rr>>

\* uf.Union(a, b), as in the capforest and the Padberg-Rinaldi tests.
StartUnion(t) == \E op \in pending : Start(t, op, "unionL")

\* if (!uf->SameSet(a, b)) uf->Union(a, b), as in the sparsifier.
StartSameSet(t) == \E op \in pending : Start(t, op, "sameL")

-----------------------------------------------------------------------------
(* Find: walk to the root, halving the path by compare-and-swap.             *)

\* while (m_parent[element] != element)
FindLoad(t) ==
    /\ At(t, "load")
    /\ parent[elem[t]] # elem[t]
    /\ Goto(t, "next")
    /\ UNCHANGED <<shared, pending, operands, findVars, call>>

\* next = m_parent[element]: a second load of the same word.
FindNext(t) ==
    /\ At(t, "next")
    /\ next' = [next EXCEPT ![t] = parent[elem[t]]]
    /\ Goto(t, "grand")
    /\ UNCHANGED <<shared, pending, operands, elem, seen, call>>

FindGrand(t) ==
    /\ At(t, "grand")
    /\ seen' = [seen EXCEPT ![t] = parent[next[t]]]
    /\ Goto(t, "halve")
    /\ UNCHANGED <<shared, pending, operands, elem, next, call>>

\* CAS path halving; whether it succeeded is not looked at.
FindHalve(t) ==
    /\ At(t, "halve")
    /\ parent' = IF parent[elem[t]] = next[t]
                 THEN [parent EXCEPT ![elem[t]] = seen[t]] ELSE parent
    /\ Goto(t, "advance")
    /\ UNCHANGED <<rank, pending, operands, findVars, call>>

\* Mutant: the walk does not move on.
FindAdvance_Stays(t) ==
    /\ At(t, "advance")
    /\ Goto(t, "load")
    /\ UNCHANGED <<shared, pending, operands, findVars, call>>

\* element = m_parent[next]: loaded again, not the value swapped in.
FindAdvance(t) ==
    /\ At(t, "advance")
    /\ elem' = [elem EXCEPT ![t] = parent[next[t]]]
    /\ Goto(t, "load")
    /\ UNCHANGED <<shared, pending, operands, next, seen, call>>

FoundRoot(t) == At(t, "load") /\ parent[elem[t]] = elem[t]

\* lhs = Find(lhs), and then Find(rhs) is called.
FirstFindReturns(t) ==
    /\ FoundRoot(t)
    /\ call[t] \in {"unionL", "sameL"}
    /\ lhs' = [lhs EXCEPT ![t] = elem[t]]
    /\ CallFind(t, rhs[t], IF call[t] = "unionL" THEN "unionR" ELSE "sameR")
    /\ UNCHANGED <<shared, pending, pair, rhs, rl, rr>>

\* rhs = Find(rhs); equal roots end Union with false and SameSet with true,
\* which also skips the guarded Union.
SecondFindReturns(t) ==
    /\ FoundRoot(t)
    /\ call[t] \in {"unionR", "sameR"}
    /\ rhs' = [rhs EXCEPT ![t] = elem[t]]
    /\ Goto(t, IF lhs[t] = elem[t] THEN "idle"
               ELSE IF call[t] = "unionR" THEN "rankL" ELSE "sameRoot")
    /\ UNCHANGED <<shared, pending, pair, lhs, rl, rr, findVars, call>>

-----------------------------------------------------------------------------
(* SameSet: different representatives are an answer only if x is still a root. *)

SameSetRetry(t) ==
    /\ At(t, "sameRoot")
    /\ parent[lhs[t]] # lhs[t]
    /\ CallFind(t, lhs[t], "sameL")
    /\ UNCHANGED <<shared, pending, operands>>

\* SameSet returns false: the guarded Union follows, from the elements of the pair
\* and not from the roots that SameSet has found.
SameSetFalse(t) ==
    /\ At(t, "sameRoot")
    /\ parent[lhs[t]] = lhs[t]
    /\ lhs' = [lhs EXCEPT ![t] = pair[t][1]]
    /\ rhs' = [rhs EXCEPT ![t] = pair[t][2]]
    /\ CallFind(t, pair[t][1], "unionL")
    /\ UNCHANGED <<shared, pending, pair, rl, rr>>

-----------------------------------------------------------------------------
(* Union: read both ranks, order the roots, link the smaller under the larger. *)

ReadRankL(t) ==
    /\ At(t, "rankL")
    /\ rl' = [rl EXCEPT ![t] = rank[lhs[t]]]
    /\ Goto(t, "rankR")
    /\ UNCHANGED <<shared, pending, pair, lhs, rhs, rr, findVars, call>>

\* The second load, the swap, and the call of UpdateRoot(lhs, r_lhs, rhs, r_rhs).
ReadRankR(t) ==
    LET l == lhs[t]
        r == rhs[t]
        a == rl[t]
        b == rank[r]
        swap == a > b \/ (a = b /\ l > r)
    IN  /\ At(t, "rankR")
        /\ lhs' = [lhs EXCEPT ![t] = IF swap THEN r ELSE l]
        /\ rhs' = [rhs EXCEPT ![t] = IF swap THEN l ELSE r]
        /\ rl' = [rl EXCEPT ![t] = IF swap THEN b ELSE a]
        /\ rr' = [rr EXCEPT ![t] = IF swap THEN a ELSE b]
        /\ call' = [call EXCEPT ![t] = "link"]
        /\ Goto(t, "checkParent")
        /\ UNCHANGED <<shared, pending, pair, findVars>>

-----------------------------------------------------------------------------
(* UpdateRoot(x, xr, y, yr): set parent and rank of a root with two separate *)
(* compare-and-swaps.  Union calls it to link lhs under rhs and, when the    *)
(* ranks were equal, to raise the rank of rhs.                               *)

UpX(t)     == IF call[t] = "link" THEN lhs[t] ELSE rhs[t]
UpXRank(t) == IF call[t] = "link" THEN rl[t] ELSE rr[t]
UpYRank(t) == IF call[t] = "link" THEN rr[t] ELSE rr[t] + 1

\* Mutant: Union gives up when the link fails.
UpdateFails_NoRetry(t) == Goto(t, "idle") /\ UNCHANGED <<findVars, call>>

\* UpdateRoot returns false: the link is tried again from Find(lhs), a failed
\* raise is ignored and Union returns true.
UpdateFails(t) ==
    IF call[t] = "link" THEN CallFind(t, lhs[t], "unionL")
    ELSE Goto(t, "idle") /\ UNCHANGED <<findVars, call>>

\* UpdateRoot returns true: after a link of equal ranks the raise follows.
UpdateSucceeds(t) ==
    IF call[t] = "link" /\ rl[t] = rr[t]
    THEN Goto(t, "checkParent") /\ call' = [call EXCEPT ![t] = "raise"]
    ELSE Goto(t, "idle") /\ UNCHANGED call

CheckParent(t) ==
    /\ At(t, "checkParent")
    /\ IF parent[UpX(t)] = UpX(t)
       THEN Goto(t, "checkRank") /\ UNCHANGED <<findVars, call>>
       ELSE UpdateFails(t)
    /\ UNCHANGED <<shared, pending, operands>>

CheckRank(t) ==
    /\ At(t, "checkRank")
    /\ IF rank[UpX(t)] = UpXRank(t)
       THEN Goto(t, "casParent") /\ UNCHANGED <<findVars, call>>
       ELSE UpdateFails(t)
    /\ UNCHANGED <<shared, pending, operands>>

\* Mutant: the rank is stored in the place of the parent (y and yr swapped).
CasParent_StoresRank(t) ==
    /\ At(t, "casParent")
    /\ IF parent[UpX(t)] = UpX(t)
       THEN /\ parent' = [parent EXCEPT ![UpX(t)] = UpYRank(t)]
            /\ Goto(t, "loadRank")
            /\ UNCHANGED <<findVars, call>>
       ELSE UpdateFails(t) /\ UNCHANGED parent
    /\ UNCHANGED <<rank, pending, operands>>

CasParent(t) ==
    /\ At(t, "casParent")
    /\ IF parent[UpX(t)] = UpX(t)
       THEN /\ parent' = [parent EXCEPT ![UpX(t)] = rhs[t]]
            /\ Goto(t, "loadRank")
            /\ UNCHANGED <<findVars, call>>
       ELSE UpdateFails(t) /\ UNCHANGED parent
    /\ UNCHANGED <<rank, pending, operands>>

\* The expected value of the rank's compare-and-swap is m_rank[old], loaded now.
LoadRank(t) ==
    /\ At(t, "loadRank")
    /\ seen' = [seen EXCEPT ![t] = rank[UpX(t)]]
    /\ Goto(t, "casRank")
    /\ UNCHANGED <<shared, pending, operands, elem, next, call>>

CasRank(t) ==
    /\ At(t, "casRank")
    /\ IF rank[UpX(t)] = seen[t]
       THEN /\ rank' = [rank EXCEPT ![UpX(t)] = UpYRank(t)]
            /\ UpdateSucceeds(t)
       ELSE Goto(t, "undo") /\ UNCHANGED <<rank, call>>
    /\ UNCHANGED <<parent, pending, operands, findVars>>

\* The rank moved in between: take the new parent back.
Undo(t) ==
    /\ At(t, "undo")
    /\ parent' = IF parent[UpX(t)] = rhs[t]
                 THEN [parent EXCEPT ![UpX(t)] = UpX(t)] ELSE parent
    /\ UpdateFails(t)
    /\ UNCHANGED <<rank, pending, operands>>

-----------------------------------------------------------------------------

Quiescent == pending = {} /\ \A t \in Threads : At(t, "idle")

\* The parallel loop is over.
Finished == Quiescent /\ UNCHANGED vars

FindStep(t) ==
    \/ FindLoad(t) \/ FindNext(t) \/ FindGrand(t) \/ FindHalve(t) \/ FindAdvance(t)
    \/ FirstFindReturns(t) \/ SecondFindReturns(t)

UpdateStep(t) ==
    \/ CheckParent(t) \/ CheckRank(t) \/ CasParent(t)
    \/ LoadRank(t) \/ CasRank(t) \/ Undo(t)

Step(t) ==
    \/ StartUnion(t) \/ StartSameSet(t)
    \/ FindStep(t)
    \/ SameSetRetry(t) \/ SameSetFalse(t)
    \/ ReadRankL(t) \/ ReadRankR(t)
    \/ UpdateStep(t)

Next == (\E t \in Threads : Step(t)) \/ Finished

Spec == Init /\ [][Next]_vars

\* OpenMP threads run until the loop is done: none of them stops for ever.
FairSpec == Spec /\ \A t \in Threads : WF_vars(Step(t))

-----------------------------------------------------------------------------

TypeOK ==
    /\ parent \in [Elem -> Elem]
    /\ rank \in [Elem -> Nat]
    /\ pending \subseteq Ops
    /\ pair \in [Threads -> Elem \X Elem]
    /\ pc \in [Threads -> PCs]
    /\ lhs \in [Threads -> Elem] /\ rhs \in [Threads -> Elem]
    /\ rl \in [Threads -> Nat] /\ rr \in [Threads -> Nat]
    /\ elem \in [Threads -> Elem] /\ next \in [Threads -> Elem]
    /\ seen \in [Threads -> Nat]
    /\ call \in [Threads -> Calls]

\* The elements met when parent pointers are followed from x.
Chain(x) ==
    LET up[i \in 0 .. N] == IF i = 0 THEN x ELSE parent[up[i - 1]]
    IN  {up[i] : i \in 0 .. N}

SameTree(x, y) == Chain(x) \cap Chain(y) # {}

\* No thread ever joins elements of different blocks: whatever the
\* interleaving of loads, halvings, links and undone links, a parent pointer
\* stays inside the block.  A contraction the callers did not ask for would
\* make the exact minimum cut algorithm return too large a cut.
NoOvermerge == \A x \in Elem : Block[parent[x]] = Block[x]

\* Once the loop is over, the elements of a block are in one tree, as
\* tests/union_find_test.cpp expects of the parallel structure
\* (uf.n() == num_blocks): no union was lost to a race.
AllJoined ==
    Quiescent => \A x, y \in Elem : Block[x] = Block[y] => SameTree(x, y)

\* Every Union and SameSet returns: the retry loops of Union, SameSet and
\* Find do not keep all threads busy for ever.
LoopEnds == <>Quiescent
=============================================================================

------------------------ MODULE ParallelUnionFindProofs ------------------------
(***************************************************************************)
(* For any number of elements, threads and unions, no interleaving of the  *)
(* lock-free union-find joins elements of different blocks.                 *)
(***************************************************************************)
EXTENDS ParallelUnionFind, TLAPS

\* What a thread holds while Find runs stays in the block of its operands.
FindInBlock(t) ==
    /\ pc[t] \in FindPC => Block[elem[t]] = Block[lhs[t]]
    /\ pc[t] \in {"grand", "halve", "advance"} => Block[next[t]] = Block[lhs[t]]
    /\ pc[t] = "halve" => seen[t] \in Elem /\ Block[seen[t]] = Block[lhs[t]]

\* The two operands of a running Union or SameSet are in one block, and so is the
\* pair that they were called for.
OperandsInBlock(t) ==
    /\ pc[t] # "idle" => Block[lhs[t]] = Block[rhs[t]]
    /\ Block[pair[t][1]] = Block[pair[t][2]]

\* The inductive strengthening of NoOvermerge.
IInv ==
    /\ TypeOK
    /\ NoOvermerge
    /\ \A t \in Threads : FindInBlock(t) /\ OperandsInBlock(t)

LEMMA ZeroIsElem == 0 \in Elem
  BY NAssumption DEF Elem

LEMMA ElemIsNat == Elem \subseteq Nat
  BY NAssumption DEF Elem

LEMMA InitIInv == Init => IInv
  <1> SUFFICES ASSUME Init PROVE IInv
    OBVIOUS
  <1>1. TypeOK
    BY ZeroIsElem DEF Init, TypeOK, PCs, Calls
  <1>2. NoOvermerge
    BY DEF Init, NoOvermerge
  <1>3. \A t \in Threads : FindInBlock(t) /\ OperandsInBlock(t)
    BY DEF Init, FindInBlock, OperandsInBlock, FindPC
  <1> QED
    BY <1>1, <1>2, <1>3 DEF IInv

\* A step that writes no shared word keeps NoOvermerge.
LEMMA ParentUnchanged ==
    ASSUME NoOvermerge, parent' = parent PROVE NoOvermerge'
  BY DEF NoOvermerge

LEMMA StartKeepsIInv ==
    ASSUME IInv, NEW t \in Threads, StartUnion(t) \/ StartSameSet(t) PROVE IInv'
  <1> USE DEF IInv
  <1>1. PICK op \in pending, c \in Calls : Start(t, op, c)
    BY DEF StartUnion, StartSameSet, Calls
  <1>2. op[1] \in Elem /\ op[2] \in Elem /\ Block[op[1]] = Block[op[2]]
    BY OpsAssumption, BlockAssumption DEF TypeOK
  <1>3. TypeOK'
    <2>1. op \in Elem \X Elem
      BY <1>1, OpsAssumption DEF TypeOK
    <2>2. pair' \in [Threads -> Elem \X Elem] /\ pending' \subseteq Ops
      BY <1>1, <2>1 DEF Start, TypeOK
    <2> QED
      BY <1>1, <1>2, <2>2 DEF Start, CallFind, Goto, TypeOK, shared, PCs, FindPC
  <1>4. NoOvermerge'
    BY <1>1, ParentUnchanged DEF Start, shared
  <1>5. ASSUME NEW u \in Threads PROVE (FindInBlock(u) /\ OperandsInBlock(u))'
    <2>1. CASE u = t
      BY <1>1, <1>2, <2>1 DEF Start, CallFind, Goto, TypeOK, FindInBlock, OperandsInBlock
    <2>2. CASE u # t
      BY <1>1, <2>2 DEF Start, CallFind, Goto, TypeOK, FindInBlock, OperandsInBlock
    <2> QED BY <2>1, <2>2
  <1> QED BY <1>3, <1>4, <1>5

LEMMA FindKeepsIInv ==
    ASSUME IInv, NEW t \in Threads, FindStep(t) PROVE IInv'
  <1> USE DEF IInv, operands, shared, findVars
  <1>1. CASE FindLoad(t)
    <2>1. TypeOK'
      BY <1>1 DEF FindLoad, Goto, TypeOK, PCs, FindPC
    <2>2. NoOvermerge'
      BY <1>1, ParentUnchanged DEF FindLoad
    <2>3. ASSUME NEW u \in Threads PROVE (FindInBlock(u) /\ OperandsInBlock(u))'
      BY <1>1 DEF FindLoad, Goto, At, TypeOK, FindInBlock, OperandsInBlock, FindPC
    <2> QED BY <2>1, <2>2, <2>3
  <1>2. CASE FindNext(t)
    <2>1. TypeOK'
      BY <1>2 DEF FindNext, Goto, TypeOK, PCs, FindPC
    <2>2. NoOvermerge'
      BY <1>2, ParentUnchanged DEF FindNext
    <2>3. ASSUME NEW u \in Threads PROVE (FindInBlock(u) /\ OperandsInBlock(u))'
      BY <1>2 DEF FindNext, Goto, At, TypeOK, FindInBlock, OperandsInBlock, FindPC,
                  NoOvermerge
    <2> QED BY <2>1, <2>2, <2>3
  <1>3. CASE FindGrand(t)
    <2>1. parent[next[t]] \in Elem
      BY DEF TypeOK
    <2>2. TypeOK'
      BY <1>3, <2>1, ElemIsNat DEF FindGrand, Goto, TypeOK, PCs, FindPC
    <2>3. NoOvermerge'
      BY <1>3, ParentUnchanged DEF FindGrand
    <2>4. ASSUME NEW u \in Threads PROVE (FindInBlock(u) /\ OperandsInBlock(u))'
      BY <1>3, <2>1 DEF FindGrand, Goto, At, TypeOK, FindInBlock, OperandsInBlock, FindPC,
                        NoOvermerge
    <2> QED BY <2>2, <2>3, <2>4
  <1>4. CASE FindHalve(t)
    <2>1. /\ seen[t] \in Elem
          /\ Block[seen[t]] = Block[elem[t]]
      BY <1>4 DEF FindHalve, At, FindInBlock, FindPC
    <2>2. TypeOK'
      BY <1>4, <2>1 DEF FindHalve, Goto, TypeOK, PCs, FindPC
    <2>3. NoOvermerge'
      BY <1>4, <2>1 DEF FindHalve, NoOvermerge, TypeOK
    <2>4. ASSUME NEW u \in Threads PROVE (FindInBlock(u) /\ OperandsInBlock(u))'
      BY <1>4 DEF FindHalve, Goto, At, TypeOK, FindInBlock, OperandsInBlock, FindPC
    <2> QED BY <2>2, <2>3, <2>4
  <1>5. CASE FindAdvance(t)
    <2>1. TypeOK'
      BY <1>5 DEF FindAdvance, Goto, TypeOK, PCs, FindPC
    <2>2. NoOvermerge'
      BY <1>5, ParentUnchanged DEF FindAdvance
    <2>3. ASSUME NEW u \in Threads PROVE (FindInBlock(u) /\ OperandsInBlock(u))'
      BY <1>5 DEF FindAdvance, Goto, At, TypeOK, FindInBlock, OperandsInBlock, FindPC,
                  NoOvermerge
    <2> QED BY <2>1, <2>2, <2>3
  <1>6. CASE FirstFindReturns(t)
    <2>1. TypeOK'
      BY <1>6 DEF FirstFindReturns, FoundRoot, CallFind, Goto, TypeOK, PCs, FindPC, Calls
    <2>2. NoOvermerge'
      BY <1>6, ParentUnchanged DEF FirstFindReturns
    <2>3. ASSUME NEW u \in Threads PROVE (FindInBlock(u) /\ OperandsInBlock(u))'
      BY <1>6 DEF FirstFindReturns, FoundRoot, CallFind, Goto, At, TypeOK, FindInBlock,
                  OperandsInBlock, FindPC
    <2> QED BY <2>1, <2>2, <2>3
  <1>7. CASE SecondFindReturns(t)
    <2>1. TypeOK'
      BY <1>7 DEF SecondFindReturns, FoundRoot, Goto, TypeOK, PCs, FindPC, SamePC
    <2>2. NoOvermerge'
      BY <1>7, ParentUnchanged DEF SecondFindReturns
    <2>3. ASSUME NEW u \in Threads PROVE (FindInBlock(u) /\ OperandsInBlock(u))'
      BY <1>7 DEF SecondFindReturns, FoundRoot, Goto, At, TypeOK, FindInBlock,
                  OperandsInBlock, FindPC
    <2> QED BY <2>1, <2>2, <2>3
  <1> QED BY <1>1, <1>2, <1>3, <1>4, <1>5, <1>6, <1>7 DEF FindStep

LEMMA SameSetKeepsIInv ==
    ASSUME IInv, NEW t \in Threads, SameSetRetry(t) \/ SameSetFalse(t) PROVE IInv'
  <1> USE DEF IInv, operands, shared, SameSetRetry, SameSetFalse, CallFind
  <1>1. TypeOK'
    <2>1. lhs[t] \in Elem /\ pair[t][1] \in Elem /\ pair[t][2] \in Elem
      BY DEF TypeOK
    <2>2. CASE SameSetRetry(t)
      BY <2>1, <2>2 DEF Goto, TypeOK, PCs, FindPC, Calls
    <2>3. CASE SameSetFalse(t)
      BY <2>1, <2>3 DEF Goto, TypeOK, PCs, FindPC, Calls
    <2> QED
      BY <2>2, <2>3
  <1>2. NoOvermerge'
    BY ParentUnchanged
  <1>3. ASSUME NEW u \in Threads PROVE (FindInBlock(u) /\ OperandsInBlock(u))'
    BY DEF Goto, At, TypeOK, FindInBlock, OperandsInBlock, FindPC
  <1> QED BY <1>1, <1>2, <1>3

LEMMA RanksKeepIInv ==
    ASSUME IInv, NEW t \in Threads, ReadRankL(t) \/ ReadRankR(t) PROVE IInv'
  <1> USE DEF IInv, operands, shared, findVars
  <1>1. CASE ReadRankL(t)
    <2>1. TypeOK'
      BY <1>1 DEF ReadRankL, Goto, TypeOK, PCs
    <2>2. NoOvermerge'
      BY <1>1, ParentUnchanged DEF ReadRankL
    <2>3. ASSUME NEW u \in Threads PROVE (FindInBlock(u) /\ OperandsInBlock(u))'
      BY <1>1 DEF ReadRankL, Goto, At, TypeOK, FindInBlock, OperandsInBlock, FindPC
    <2> QED BY <2>1, <2>2, <2>3
  <1>2. CASE ReadRankR(t)
    <2>1. TypeOK'
      BY <1>2 DEF ReadRankR, Goto, TypeOK, PCs, UpdatePC, Calls
    <2>2. NoOvermerge'
      BY <1>2, ParentUnchanged DEF ReadRankR
    <2>3. ASSUME NEW u \in Threads PROVE (FindInBlock(u) /\ OperandsInBlock(u))'
      BY <1>2 DEF ReadRankR, Goto, At, TypeOK, FindInBlock, OperandsInBlock, FindPC
    <2> QED BY <2>1, <2>2, <2>3
  <1> QED BY <1>1, <1>2

LEMMA UpdateKeepsIInv ==
    ASSUME IInv, NEW t \in Threads, UpdateStep(t) PROVE IInv'
  <1> USE DEF IInv, operands, shared, findVars
  <1>1. UpX(t) \in Elem /\ UpYRank(t) \in Nat
    BY DEF UpX, UpYRank, TypeOK
  <1>2. pc[t] \in UpdatePC => Block[UpX(t)] = Block[rhs[t]]
    BY DEF UpX, OperandsInBlock, UpdatePC
  <1> DEFINE Typed == /\ pc' \in [Threads -> PCs] /\ call' \in [Threads -> Calls]
                      /\ elem' \in [Threads -> Elem] /\ UNCHANGED <<next, seen>>
  <1>8. /\ pc \in [Threads -> PCs] /\ call \in [Threads -> Calls]
        /\ elem \in [Threads -> Elem] /\ lhs[t] \in Elem
    BY DEF TypeOK
  <1>9. ASSUME UpdateFails(t) \/ (UNCHANGED <<findVars, call>> /\ \E to \in PCs : Goto(t, to))
        PROVE  Typed
    BY <1>8, <1>9 DEF UpdateFails, CallFind, Goto, PCs, FindPC, Calls
  <1>3. CASE CheckParent(t) \/ CheckRank(t)
    <2>1. TypeOK'
      <3>1. UNCHANGED <<shared, pending, operands>>
        BY <1>3 DEF CheckParent, CheckRank
      <3>2. Typed
        BY <1>3, <1>9 DEF CheckParent, CheckRank, PCs, UpdatePC
      <3> QED
        BY <3>1, <3>2 DEF TypeOK
    <2>2. NoOvermerge'
      BY <1>3, ParentUnchanged DEF CheckParent, CheckRank
    <2>3. ASSUME NEW u \in Threads PROVE (FindInBlock(u) /\ OperandsInBlock(u))'
      BY <1>3 DEF CheckParent, CheckRank, UpdateFails, CallFind, Goto, At, TypeOK,
                  FindInBlock, OperandsInBlock, FindPC
    <2> QED BY <2>1, <2>2, <2>3
  <1>4. CASE CasParent(t)
    <2>1. TypeOK'
      <3>1. UNCHANGED <<rank, pending, operands>> /\ parent' \in [Elem -> Elem]
        BY <1>1, <1>4 DEF CasParent, TypeOK
      <3>2. Typed
        BY <1>4, <1>9 DEF CasParent, PCs, UpdatePC
      <3> QED
        BY <3>1, <3>2 DEF TypeOK
    <2>2. NoOvermerge'
      BY <1>1, <1>2, <1>4 DEF CasParent, At, UpdatePC, TypeOK, NoOvermerge
    <2>3. ASSUME NEW u \in Threads PROVE (FindInBlock(u) /\ OperandsInBlock(u))'
      BY <1>4 DEF CasParent, UpdateFails, CallFind, Goto, At, TypeOK,
                  FindInBlock, OperandsInBlock, FindPC
    <2> QED BY <2>1, <2>2, <2>3
  <1>5. CASE LoadRank(t)
    <2>1. TypeOK'
      BY <1>1, <1>5 DEF LoadRank, Goto, TypeOK, PCs, UpdatePC
    <2>2. NoOvermerge'
      BY <1>5, ParentUnchanged DEF LoadRank
    <2>3. ASSUME NEW u \in Threads PROVE (FindInBlock(u) /\ OperandsInBlock(u))'
      BY <1>5 DEF LoadRank, Goto, At, TypeOK, FindInBlock, OperandsInBlock, FindPC
    <2> QED BY <2>1, <2>2, <2>3
  <1>6. CASE CasRank(t)
    <2>1. TypeOK'
      <3>1. UNCHANGED <<parent, pending, operands, findVars>> /\ rank' \in [Elem -> Nat]
        BY <1>1, <1>6 DEF CasRank, TypeOK
      <3>2. pc' \in [Threads -> PCs] /\ call' \in [Threads -> Calls]
        BY <1>6 DEF CasRank, UpdateSucceeds, Goto, TypeOK, PCs, UpdatePC, Calls
      <3> QED
        BY <3>1, <3>2 DEF TypeOK
    <2>2. NoOvermerge'
      BY <1>6, ParentUnchanged DEF CasRank
    <2>3. ASSUME NEW u \in Threads PROVE (FindInBlock(u) /\ OperandsInBlock(u))'
      BY <1>6 DEF CasRank, UpdateSucceeds, Goto, At, TypeOK, FindInBlock,
                  OperandsInBlock, FindPC
    <2> QED BY <2>1, <2>2, <2>3
  <1>7. CASE Undo(t)
    <2>1. TypeOK'
      <3>1. UNCHANGED <<rank, pending, operands>> /\ parent' \in [Elem -> Elem]
        BY <1>1, <1>7 DEF Undo, TypeOK
      <3>2. Typed
        BY <1>7, <1>9 DEF Undo
      <3> QED
        BY <3>1, <3>2 DEF TypeOK
    <2>2. NoOvermerge'
      BY <1>1, <1>7 DEF Undo, TypeOK, NoOvermerge
    <2>3. ASSUME NEW u \in Threads PROVE (FindInBlock(u) /\ OperandsInBlock(u))'
      BY <1>7 DEF Undo, UpdateFails, CallFind, Goto, At, TypeOK,
                  FindInBlock, OperandsInBlock, FindPC
    <2> QED BY <2>1, <2>2, <2>3
  <1> QED BY <1>3, <1>4, <1>5, <1>6, <1>7 DEF UpdateStep

LEMMA NextKeepsIInv == IInv /\ [Next]_vars => IInv'
  <1> SUFFICES ASSUME IInv, [Next]_vars PROVE IInv'
    OBVIOUS
  <1>1. ASSUME NEW t \in Threads, Step(t) PROVE IInv'
    BY <1>1, StartKeepsIInv, FindKeepsIInv, SameSetKeepsIInv, RanksKeepIInv,
       UpdateKeepsIInv DEF Step
  <1>2. CASE UNCHANGED vars
    BY <1>2 DEF vars, IInv, TypeOK, NoOvermerge, FindInBlock, OperandsInBlock
  <1> QED BY <1>1, <1>2 DEF Next, Finished

LEMMA Inductive == Spec => []IInv
  BY InitIInv, NextKeepsIInv, PTL DEF Spec

\* Every reachable state is well typed: Find never leaves the array.
THEOREM TypeCorrect == Spec => []TypeOK
  <1>1. IInv => TypeOK
    BY DEF IInv
  <1> QED BY <1>1, Inductive, PTL

\* The union-find never joins elements the callers did not connect, for every
\* number of threads, elements and unions and for every interleaving.
THEOREM NeverOvermerges == Spec => []NoOvermerge
  <1>1. IInv => NoOvermerge
    BY DEF IInv
  <1> QED BY <1>1, Inductive, PTL
=============================================================================

------------------------- MODULE MulticutSearchProofs -------------------------
(***************************************************************************)
(* For any search tree with sound bounds and any number of workers, the    *)
(* races of the search never lose the optimum: it is below an open problem *)
(* or was computed (OptimumSafe), and every bound in use is the value of a *)
(* cut that was computed (BoundsAreCuts).  One worker ends the search only *)
(* when no problem is left (NoEarlyFinish).  All of this needs cuts lighter*)
(* than the bound that mpi_communication starts with (CutsFit).            *)
(***************************************************************************)
EXTENDS MulticutSearch, TLAPS

\* The types the argument needs.
Types ==
    /\ queue \in [Workers -> SUBSET Problems]
    /\ slot \in Problems \cup {NoProblem}
    /\ gub \in Nat /\ lastSent \in Nat /\ mpiBest \in Nat
    /\ before \in [Ks -> Nat] /\ after \in [Ks -> Nat]
    /\ pc \in [Actors -> PCs]
    /\ cur \in [Actors -> Problems \cup {NoProblem}]
    /\ kids \in [Actors -> SUBSET Problems]
    /\ offer \in [Actors -> Problems] /\ caller \in [Actors -> {"update", "process"}]
    /\ tmp \in [Actors -> Nat]
    /\ found \in SUBSET Nat

\* A problem is in work only where pc says so, and children wait only while
\* the loop over them is left for findBestSolution: nothing is overwritten when
\* the next problem is pulled or branched.
Placed ==
    \A t \in Actors :
        /\ pc[t] = "solve" => cur[t] \in Problems
        /\ pc[t] # "solve" => cur[t] = NoProblem
        /\ pc[t] # "child" /\ (pc[t] \in OfferPC => caller[t] = "update") => kids[t] = {}

\* The cut has been through local search.
PolishedPC == OfferPC \ {"offer", "compare", "bound1", "copy1", "polish"}

\* What the threads are about to store are values of computed cuts as well.
LocalsAreCuts ==
    /\ \A v \in found : v < MpiInf
    /\ \A t \in Actors :
          /\ pc[t] \in OfferPC => Value[offer[t]] \in found
          /\ pc[t] \in PolishedPC => Polished[offer[t]] \in found
          /\ pc[t] \in {"prune", "store"} => tmp[t] \in found

IInv == Types /\ Placed /\ BoundsAreCuts /\ LocalsAreCuts /\ OptimumSafe

USE DEF At, Goto, bounds, PolishedPC

\* The main thread is an actor beside the workers.
LEMMA Constants ==
    /\ T \in Nat \ {0}
    /\ Workers \subseteq Actors
    /\ Main \in Actors /\ Main \notin Workers
  BY TAssumption DEF Workers, Main, Actors

\* Membership in Open, without unions.
LEMMA OpenMember ==
    ASSUME NEW p, p # NoProblem
    PROVE  p \in Open <=> \/ \E t \in Workers : p \in queue[t]
                          \/ \E t \in Actors : p \in kids[t]
                          \/ p = slot
                          \/ \E t \in Actors : p = cur[t]
  BY DEF Open

\* The search starts with the root in the slot.
LEMMA InitIInv ==
    ASSUME CutsFit, Init
    PROVE  IInv
  <1> USE DEF Init, CutsFit
  <1>1. Types
    BY Constants, TreeAssumption, BoundsAssumption DEF Types, PCs, OfferPC, Ks
  <1>2. Placed
    BY Constants DEF Placed, OfferPC
  <1>3. BoundsAreCuts
    BY DEF BoundsAreCuts
  <1>4. LocalsAreCuts
    BY TreeAssumption, BoundsAssumption DEF LocalsAreCuts, OfferPC
  <1>5. OptimumSafe
    <2>1. Root \in Open
      BY TreeAssumption DEF Open
    <2> QED
      BY <2>1, TreeAssumption DEF OptimumSafe
  <1> QED
    BY <1>1, <1>2, <1>3, <1>4, <1>5 DEF IInv

-----------------------------------------------------------------------------
(* What a step has to show.                                                  *)

\* It is enough to account for the problems that are no longer open: every leaf
\* below one is below another open problem or was beaten by a computed cut.
LEMMA SafeStep ==
    ASSUME OptimumSafe, found \subseteq found',
           \A p \in Open : \A l \in Under[p] \cap Leaves :
               \/ \E q \in Open' : l \in Under[q]
               \/ \E v \in found' : v <= Value[l]
    PROVE  OptimumSafe'
  BY DEF OptimumSafe

\* Open depends on the queues, the slot and the work of the threads only.
LEMMA OpenUnchanged == UNCHANGED <<queue, slot, work>> => Open' = Open
  BY DEF Open, work

\* A step that closes no problem is safe.
LEMMA SafeIfOpenGrows ==
    ASSUME OptimumSafe, found \subseteq found', Open \subseteq Open'
    PROVE  OptimumSafe'
  BY DEF OptimumSafe

\* A step that only moves pc within the same phase, or counts idle threads.
LEMMA QuietStep ==
    ASSUME IInv, UNCHANGED <<queue, slot, work, gub, bounds, offer, found>>,
           Types', Placed',
           \A t \in Actors : /\ pc'[t] \in OfferPC => pc[t] \in OfferPC
                             /\ pc'[t] \in PolishedPC => pc[t] \in PolishedPC
                             /\ pc'[t] \in {"prune", "store"} => tmp'[t] \in found
    PROVE  IInv'
  <1>1. BoundsAreCuts' /\ LocalsAreCuts'
    BY DEF IInv, BoundsAreCuts, LocalsAreCuts
  <1>2. OptimumSafe'
    BY OpenUnchanged, SafeIfOpenGrows DEF IInv
  <1> QED
    BY <1>1, <1>2 DEF IInv

-----------------------------------------------------------------------------
(* The steps, one group of actions after the other.                          *)

\* pollWork up to the pull of a problem.
LEMMA LookIInv ==
    ASSUME IInv, NEW t \in Workers, LookStep(t)
    PROVE  IInv'
  <1> USE Constants DEF IInv, incumbent, ending, work, locals
  <1> t \in Actors
    OBVIOUS
  <1>1. CASE Poll(t) \/ Prepared(t) \/ Look(t) \/ PullNothing(t)
    <2>1. Types' /\ Placed'
      <3>1. /\ pc[t] \in {"poll", "prune", "look", "pull"}
            /\ \E to \in {"gone", "cast", "look", "idle", "refresh", "pull", "poll"} : Goto(t, to)
            /\ UNCHANGED <<queue, slot, gub, bounds, work, offer, caller, tmp, found>>
        BY <1>1 DEF Poll, Prepared, Look, PullNothing
      <3> QED
        BY <3>1 DEF Types, Placed, PCs, OfferPC
    <2>2. \A u \in Actors : /\ pc'[u] \in OfferPC => pc[u] \in OfferPC
                            /\ pc'[u] \in PolishedPC => pc[u] \in PolishedPC
                            /\ pc'[u] \in {"prune", "store"} => tmp'[u] \in found
      BY <1>1 DEF Types, LocalsAreCuts, OfferPC, Poll, Prepared, Look, PullNothing
    <2> QED
      BY <1>1, <2>1, <2>2, QuietStep DEF Poll, Prepared, Look, PullNothing
  <1>2. CASE Cast(t) \/ SendLast(t)
    <2>1. /\ lastSent' \in {lastSent, gub} /\ mpiBest' \in {mpiBest, lastSent}
          /\ lastSent \notin found => mpiBest' = mpiBest
          /\ \E to \in {"sendLast", "prepare"} : Goto(t, to)
          /\ UNCHANGED <<queue, slot, work, gub, before, after, offer, caller, tmp, found>>
      BY <1>2, BoundsAssumption
         DEF Types, BoundsAreCuts, LocalsAreCuts, Cast, SendLast, Broadcast, Least
    <2>2. pc[t] \in {"cast", "sendLast"}
      BY <1>2 DEF Cast, SendLast
    <2>3. Types' /\ Placed'
      BY <2>1, <2>2 DEF Types, Placed, PCs, OfferPC, work
    <2>4. BoundsAreCuts' /\ LocalsAreCuts'
      BY <2>1, <2>2 DEF Types, BoundsAreCuts, LocalsAreCuts, OfferPC
    <2>5. OptimumSafe'
      BY <2>1, OpenUnchanged, SafeIfOpenGrows
    <2> QED
      BY <2>3, <2>4, <2>5
  <1>3. CASE Prune(t)
    <2>1. PICK p \in queue[t] : Hopeless(p, tmp[t]) /\ queue' = [queue EXCEPT ![t] = @ \ {p}]
      BY <1>3 DEF Prune
    <2>2. Types' /\ Placed'
      BY <1>3, <2>1 DEF Types, Placed, PCs, OfferPC, Prune
    <2>3. BoundsAreCuts' /\ LocalsAreCuts'
      BY <1>3 DEF BoundsAreCuts, LocalsAreCuts, OfferPC, Prune
    <2>4. \A q \in Open : q # p => q \in Open'
      BY <1>3, <2>1 DEF Types, Open, Prune
    <2>5. \A l \in Under[p] \cap Leaves : tmp[t] <= Value[l]
      BY <2>1, BoundsAssumption DEF Types, Hopeless, Leaves
    <2>6. tmp[t] \in found
      BY <1>3 DEF LocalsAreCuts, Prune
    <2>7. OptimumSafe'
      BY <1>3, <2>4, <2>5, <2>6, SafeStep DEF Prune
    <2> QED
      BY <2>2, <2>3, <2>7
  <1>8. CASE Prepare(t)
    <2>1. Types' /\ Placed'
      BY <1>8 DEF Types, Placed, PCs, OfferPC, Prepare
    <2>2. BoundsAreCuts' /\ LocalsAreCuts'
      BY <1>8 DEF Types, BoundsAreCuts, LocalsAreCuts, OfferPC, Prepare
    <2>3. OptimumSafe'
      BY <1>8, OpenUnchanged, SafeIfOpenGrows DEF Prepare
    <2> QED
      BY <2>1, <2>2, <2>3
  <1>4. CASE Refresh(t)
    <2>1. Types' /\ Placed'
      BY <1>4 DEF Types, Placed, PCs, OfferPC, Refresh, Least
    <2>2. Least(mpiBest, gub) \in found
      BY BoundsAssumption DEF Types, BoundsAreCuts, LocalsAreCuts, Least
    <2>3. LocalsAreCuts'
      BY <1>4, <2>2 DEF Types, LocalsAreCuts, OfferPC, Refresh
    <2>4. BoundsAreCuts' /\ OptimumSafe'
      BY <1>4, OpenUnchanged, SafeIfOpenGrows DEF BoundsAreCuts, Refresh
    <2> QED
      BY <2>1, <2>3, <2>4
  <1>5. CASE Store(t)
    <2>1. Types' /\ Placed'
      BY <1>5 DEF Types, Placed, PCs, OfferPC, Store
    <2>2. BoundsAreCuts' /\ LocalsAreCuts'
      BY <1>5 DEF Types, BoundsAreCuts, LocalsAreCuts, OfferPC, Store
    <2>3. OptimumSafe'
      BY <1>5, OpenUnchanged, SafeIfOpenGrows DEF Store
    <2> QED
      BY <2>1, <2>2, <2>3
  <1>6. CASE PullOwn(t)
    <2>1. PICK p \in queue[t] : /\ queue' = [queue EXCEPT ![t] = @ \ {p}]
                                /\ cur' = [cur EXCEPT ![t] = p]
      BY <1>6 DEF PullOwn
    <2>2. p \in Problems /\ cur[t] = NoProblem
      BY <1>6 DEF Types, Placed, PullOwn
    <2>3. Types' /\ Placed'
      BY <1>6, <2>1, <2>2 DEF Types, Placed, PCs, OfferPC, PullOwn
    <2>4. BoundsAreCuts' /\ LocalsAreCuts'
      BY <1>6 DEF Types, BoundsAreCuts, LocalsAreCuts, OfferPC, PullOwn
    <2>5. Open \subseteq Open'
      BY <1>6, <2>1, <2>2, TreeAssumption DEF Types, Open, PullOwn
    <2>6. OptimumSafe'
      BY <1>6, <2>5, SafeIfOpenGrows DEF PullOwn
    <2> QED
      BY <2>3, <2>4, <2>6
  <1>7. CASE PullSlot(t)
    <2>1. cur[t] = NoProblem
      BY <1>7 DEF Placed, PullSlot
    <2>2. Types' /\ Placed'
      BY <1>7 DEF Types, Placed, PCs, OfferPC, PullSlot
    <2>3. BoundsAreCuts' /\ LocalsAreCuts'
      BY <1>7 DEF Types, BoundsAreCuts, LocalsAreCuts, OfferPC, PullSlot
    <2>4. Open \subseteq Open'
      BY <1>7, <2>1 DEF Types, Open, PullSlot
    <2>5. OptimumSafe'
      BY <1>7, <2>4, SafeIfOpenGrows DEF PullSlot
    <2> QED
      BY <2>2, <2>3, <2>5
  <1> QED
    BY <1>1, <1>2, <1>3, <1>4, <1>5, <1>6, <1>7, <1>8 DEF LookStep

\* What offering the cut of a child, or not, leaves behind.
LEMMA AfterChildFacts ==
    ASSUME CutsFit, IInv, NEW t \in Workers, NEW c \in Problems, Took(t, c), AfterChild(t, c),
           tmp' = tmp
    PROVE  /\ offer' \in [Actors -> Problems] /\ found' \in SUBSET Nat
           /\ caller' \in [Actors -> {"update", "process"}]
           /\ pc' \in [Actors -> PCs] /\ pc'[t] \in {"child", "offer"}
           /\ \A u \in Actors \ {t} : pc'[u] = pc[u] /\ caller'[u] = caller[u]
           /\ pc'[t] = "offer" => caller'[t] = "process"
           /\ found \subseteq found' /\ LocalsAreCuts'
           /\ \E v \in found' : v <= Value[c]
  <1> USE Constants DEF IInv
  <1>1. t \in Actors /\ pc[t] = "child"
    BY DEF Took
  <1>2. Value[c] \in Nat /\ Value[c] < MpiInf /\ Terms[c] \in Ks
    BY BoundsAssumption DEF Ks, CutsFit
  <1>3. CASE Promising(c)
    <2>1. /\ offer' = [offer EXCEPT ![t] = c] /\ found' = found \cup {Value[c]}
          /\ pc' = [pc EXCEPT ![t] = "offer"]
          /\ caller' = [caller EXCEPT ![t] = "process"]
      BY <1>3 DEF AfterChild
    <2>2. LocalsAreCuts'
      BY <1>1, <1>2, <2>1 DEF Types, LocalsAreCuts, OfferPC
    <2>3. /\ offer' \in [Actors -> Problems] /\ found' \in SUBSET Nat
          /\ caller' \in [Actors -> {"update", "process"}]
      BY <1>1, <1>2, <2>1 DEF Types
    <2>4. "offer" \in PCs
      BY DEF PCs, OfferPC
    <2>5. /\ pc' \in [Actors -> PCs] /\ pc'[t] = "offer"
          /\ \A u \in Actors \ {t} : pc'[u] = pc[u] /\ caller'[u] = caller[u]
          /\ caller'[t] = "process"
      BY <1>1, <2>1, <2>4 DEF Types
    <2>6. Value[c] \in found' /\ Value[c] <= Value[c]
      BY <1>2, <2>1
    <2> QED
      BY <2>1, <2>2, <2>3, <2>5, <2>6
  <1>4. CASE ~Promising(c)
    <2>1. UNCHANGED <<offer, caller, found, pc>>
      BY <1>4 DEF AfterChild
    <2>2. before[Terms[c]] \in Nat /\ before[Terms[c]] <= Value[c]
      BY <1>2, <1>4 DEF Types, Promising
    <2>3. before[Terms[c]] \in found
      BY <1>2, <2>2, BoundsAssumption DEF BoundsAreCuts
    <2>4. LocalsAreCuts'
      BY <2>1 DEF LocalsAreCuts
    <2> QED
      BY <1>1, <2>1, <2>2, <2>3, <2>4 DEF Types
  <1> QED
    BY <1>3, <1>4

\* solveProblem, branch and processNewProblem.
LEMMA SolveIInv ==
    ASSUME CutsFit, IInv, NEW t \in Workers, SolveStep(t)
    PROVE  IInv'
  <1> USE Constants DEF IInv, incumbent, ending, locals
  <1> t \in Actors
    OBVIOUS
  <1>1. CASE CutOff(t)
    <2>1. Types' /\ Placed'
      BY <1>1 DEF Types, Placed, PCs, OfferPC, CutOff
    <2>2. BoundsAreCuts' /\ LocalsAreCuts'
      BY <1>1 DEF Types, BoundsAreCuts, LocalsAreCuts, OfferPC, CutOff
    <2>3. cur[t] \in Problems
      BY <1>1 DEF Placed, CutOff
    <2>4. \A q \in Open : q # cur[t] => q \in Open'
      BY <1>1 DEF Types, Open, CutOff
    <2>5. \A l \in Under[cur[t]] \cap Leaves : gub <= Value[l]
      BY <1>1, <2>3, BoundsAssumption DEF Types, Hopeless, Leaves, CutOff
    <2>6. OptimumSafe'
      BY <1>1, <2>4, <2>5, SafeStep DEF BoundsAreCuts, CutOff
    <2> QED
      BY <2>1, <2>2, <2>6
  <1>2. CASE Solved(t)
    <2>1. cur[t] \in Problems /\ Under[cur[t]] = {cur[t]}
      BY <1>2, TreeAssumption DEF Placed, Leaves, Solved
    <2>2. Value[cur[t]] \in Nat /\ Value[cur[t]] < MpiInf
      BY <2>1, BoundsAssumption DEF CutsFit
    <2>3. Types' /\ Placed'
      BY <1>2, <2>1, <2>2 DEF Types, Placed, PCs, OfferPC, Solved
    <2>4. BoundsAreCuts' /\ LocalsAreCuts'
      BY <1>2, <2>2 DEF Types, BoundsAreCuts, LocalsAreCuts, OfferPC, Solved
    <2>5. \A q \in Open : q # cur[t] => q \in Open'
      BY <1>2 DEF Types, Open, Solved
    <2>6. OptimumSafe'
      BY SMTT(30), <1>2, <2>1, <2>2, <2>5, SafeStep DEF Solved
    <2> QED
      BY <2>3, <2>4, <2>6
  <1>3. CASE Branch(t)
    <2>1. cur[t] \in Problems \ Leaves /\ Children[cur[t]] \subseteq Problems
      BY <1>3, TreeAssumption DEF Placed, Leaves, Branch
    <2>2. Types' /\ Placed'
      BY <1>3, <2>1 DEF Types, Placed, PCs, OfferPC, Branch
    <2>3. BoundsAreCuts' /\ LocalsAreCuts'
      BY <1>3 DEF Types, BoundsAreCuts, LocalsAreCuts, OfferPC, Branch
    <2>4. \A q \in Open : q # cur[t] => q \in Open'
      BY <1>3 DEF Types, Placed, Open, OfferPC, Branch
    <2>5. Children[cur[t]] \subseteq Open'
      BY <1>3 DEF Types, Open, Branch
    <2>6. \A l \in Under[cur[t]] : \E c \in Children[cur[t]] : l \in Under[c]
      BY <2>1, TreeAssumption
    <2>7. OptimumSafe'
      BY <1>3, <2>4, <2>5, <2>6, SafeStep DEF Branch
    <2> QED
      BY <2>2, <2>3, <2>7
  <1>4. CASE ChildSolved(t)
    <2>1. PICK c \in Direct : Took(t, c) /\ AfterChild(t, c)
      BY <1>4 DEF ChildSolved
    <2>2. c \in Problems /\ Under[c] = {c} /\ pc[t] = "child"
      BY <2>1, TreeAssumption DEF Leaves, Took
    <2>3. /\ offer' \in [Actors -> Problems] /\ found' \in SUBSET Nat
          /\ caller' \in [Actors -> {"update", "process"}]
          /\ pc' \in [Actors -> PCs] /\ pc'[t] \in {"child", "offer"}
          /\ \A u \in Actors \ {t} : pc'[u] = pc[u] /\ caller'[u] = caller[u]
          /\ pc'[t] = "offer" => caller'[t] = "process"
          /\ found \subseteq found' /\ LocalsAreCuts'
          /\ \E v \in found' : v <= Value[c]
      BY <1>4, <2>1, <2>2, AfterChildFacts DEF ChildSolved
    <2>4. Types' /\ Placed'
      BY <1>4, <2>1, <2>2, <2>3 DEF Types, Placed, OfferPC, ChildSolved, Took
    <2>5. BoundsAreCuts'
      BY <1>4, <2>3 DEF BoundsAreCuts, ChildSolved
    <2>6. \A q \in Open : q # c => q \in Open'
      BY <1>4, <2>1 DEF Types, Open, ChildSolved, Took
    <2>7. OptimumSafe'
      BY <2>2, <2>3, <2>6, SafeStep
    <2> QED
      BY <2>3, <2>4, <2>5, <2>7
  <1>5. CASE ChildCutOff(t)
    <2>1. PICK c \in Problems : Took(t, c) /\ Hopeless(c, gub)
      BY <1>5 DEF ChildCutOff
    <2>2. Types' /\ Placed'
      BY <1>5, <2>1 DEF Types, Placed, PCs, OfferPC, ChildCutOff, Took
    <2>3. BoundsAreCuts' /\ LocalsAreCuts'
      BY <1>5 DEF Types, BoundsAreCuts, LocalsAreCuts, OfferPC, ChildCutOff
    <2>4. \A q \in Open : q # c => q \in Open'
      BY <1>5, <2>1 DEF Types, Open, ChildCutOff, Took
    <2>5. \A l \in Under[c] \cap Leaves : gub <= Value[l]
      BY <2>1, BoundsAssumption DEF Types, Hopeless, Leaves
    <2>6. OptimumSafe'
      BY <1>5, <2>4, <2>5, SafeStep DEF BoundsAreCuts, ChildCutOff
    <2> QED
      BY <2>2, <2>3, <2>6
  <1>6. CASE ChildQueued(t)
    <2>1. PICK c \in Problems : Took(t, c) /\ Enqueue(t, c) /\ AfterChild(t, c)
      BY <1>6 DEF ChildQueued
    <2>2. queue' \in [Workers -> SUBSET Problems] /\ slot' \in Problems \cup {NoProblem}
      BY <2>1 DEF Types, Enqueue
    <2>3. /\ offer' \in [Actors -> Problems] /\ found' \in SUBSET Nat
          /\ caller' \in [Actors -> {"update", "process"}]
          /\ pc' \in [Actors -> PCs] /\ pc'[t] \in {"child", "offer"}
          /\ \A u \in Actors \ {t} : pc'[u] = pc[u] /\ caller'[u] = caller[u]
          /\ pc'[t] = "offer" => caller'[t] = "process"
          /\ found \subseteq found' /\ LocalsAreCuts'
      BY <1>6, <2>1, AfterChildFacts DEF ChildQueued
    <2>4. Types' /\ Placed'
      BY <1>6, <2>1, <2>2, <2>3 DEF Types, Placed, OfferPC, ChildQueued, Took
    <2>5. BoundsAreCuts'
      BY <1>6, <2>3 DEF BoundsAreCuts, ChildQueued
    <2>6. Open \subseteq Open'
      BY SMTT(30), <1>6, <2>1, TreeAssumption DEF Types, Open, ChildQueued, Took, Enqueue
    <2> QED
      BY <2>3, <2>4, <2>5, <2>6, SafeIfOpenGrows
  <1>7. CASE Branched(t)
    <2>1. Types' /\ Placed'
      BY <1>7 DEF Types, Placed, PCs, OfferPC, Branched, work
    <2>2. BoundsAreCuts' /\ LocalsAreCuts'
      BY <1>7 DEF Types, BoundsAreCuts, LocalsAreCuts, OfferPC, Branched
    <2>3. OptimumSafe'
      BY <1>7, OpenUnchanged, SafeIfOpenGrows DEF Branched
    <2> QED
      BY <2>1, <2>2, <2>3
  <1> QED
    BY <1>1, <1>2, <1>3, <1>4, <1>5, <1>6, <1>7 DEF SolveStep

\* Where the steps of findBestSolution lead, and what that does to the types.
LEMMA OfferGoes ==
    ASSUME IInv, NEW t \in Actors, OfferStep(t)
    PROVE  /\ UNCHANGED <<queue, slot, work, offer, caller, tmp>>
           /\ pc[t] \in OfferPC
           /\ Placed'
           /\ pc' \in [Actors -> PCs]
           /\ \A u \in Actors \ {t} : pc'[u] = pc[u]
           /\ pc'[t] \notin {"prune", "store"}
           /\ pc'[t] \in PolishedPC => pc[t] \in PolishedPC \cup {"polish"}
  <1> USE DEF IInv
  <1>1. /\ UNCHANGED <<queue, slot, work, offer, caller, tmp>>
        /\ pc[t] \in OfferPC
    BY DEF OfferStep, Offer, Compare, Bound1, Copy1, Polish, RecordAfter, RecordBefore, Again,
       Bound2, Copy2, Share, SendCut, SetBound, CopySolution, OfferPC, locals
  <1>2. \E to \in PCs :
            /\ Goto(t, to)
            /\ to = "child" => caller[t] = "process"
            /\ to \in OfferPC \cup {"child"} \/ (caller[t] = "update" /\ to \in {"poll", "gone"})
            /\ to \in PolishedPC => pc[t] \in PolishedPC \cup {"polish"}
    <2> USE DEF Resume, PCs, OfferPC, Types
    <2>1. CASE Offer(t) \/ Compare(t) \/ Bound1(t) \/ Copy1(t)
      BY <2>1 DEF Offer, Compare, Bound1, Copy1
    <2>2. CASE Polish(t) \/ RecordAfter(t) \/ RecordBefore(t)
      BY <2>2 DEF Polish, RecordAfter, RecordBefore
    <2>3. CASE Again(t) \/ Bound2(t) \/ Copy2(t)
      BY <2>3 DEF Again, Bound2, Copy2
    <2>4. CASE Share(t) \/ SendCut(t)
      BY <2>4 DEF Share, SendCut
    <2> QED
      BY <2>1, <2>2, <2>3, <2>4 DEF OfferStep
  <1>3. PICK to \in PCs :
            /\ Goto(t, to)
            /\ to = "child" => caller[t] = "process"
            /\ to \in OfferPC \cup {"child"} \/ (caller[t] = "update" /\ to \in {"poll", "gone"})
            /\ to \in PolishedPC => pc[t] \in PolishedPC \cup {"polish"}
    BY <1>2
  <1>4. /\ pc' \in [Actors -> PCs] /\ pc'[t] = to
        /\ \A u \in Actors \ {t} : pc'[u] = pc[u]
    BY <1>3 DEF Types
  <1>5. Placed'
    BY <1>1, <1>3, <1>4 DEF Placed, OfferPC, work
  <1> QED
    BY <1>1, <1>3, <1>4, <1>5 DEF OfferPC

\* findBestSolution and updateBestSolution.
LEMMA OfferIInv ==
    ASSUME CutsFit, IInv, NEW t \in Actors, OfferStep(t)
    PROVE  IInv'
  <1> USE Constants DEF IInv, incumbent, ending, locals
  <1>1. /\ UNCHANGED <<queue, slot, work, offer, caller, tmp>>
        /\ pc[t] \in OfferPC
        /\ Placed'
        /\ pc' \in [Actors -> PCs]
        /\ \A u \in Actors \ {t} : pc'[u] = pc[u]
        /\ pc'[t] \notin {"prune", "store"}
        /\ pc'[t] \in PolishedPC => pc[t] \in PolishedPC \cup {"polish"}
    BY OfferGoes
  <1>2. /\ prevGub(t) \in found /\ prevGub(t) \in Nat
        /\ lsBound(t) \in Nat /\ lsBound(t) < MpiInf
        /\ pc[t] \in PolishedPC => lsBound(t) \in found
        /\ gub \in found /\ gub \in Nat /\ terms(t) \in Ks
    BY <1>1, BoundsAssumption
       DEF Types, BoundsAreCuts, LocalsAreCuts, prevGub, lsBound, terms, Ks, CutsFit
  <1>3. found' = IF pc[t] = "polish" THEN found \cup {lsBound(t)} ELSE found
    BY DEF OfferStep, Offer, Compare, Bound1, Copy1, Polish, RecordAfter, RecordBefore, Again,
       Bound2, Copy2, Share, SendCut, SetBound, CopySolution
  <1>4. gub' \in found /\ gub' \in Nat
    BY <1>2 DEF OfferStep, Offer, Compare, Bound1, Copy1, Polish, RecordAfter, RecordBefore, Again,
       Bound2, Copy2, Share, SendCut, SetBound, CopySolution, OfferPC
  <1>5. /\ lastSent' \in {lastSent, gub}
        /\ mpiBest' = mpiBest \/ (mpiBest' = lsBound(t) /\ lsBound(t) \in found)
    BY <1>2 DEF OfferStep, Offer, Compare, Bound1, Copy1, Polish, RecordAfter, RecordBefore, Again,
       Bound2, Copy2, Share, SendCut, SetBound, CopySolution, Broadcast, Least, OfferPC
  <1>6. /\ before' \in [Ks -> Nat] /\ after' \in [Ks -> Nat]
        /\ \A k \in Ks : before'[k] \in {before[k]} \cup found
        /\ \A k \in Ks : after'[k] \in {after[k]} \cup found
    BY <1>2 DEF OfferStep, Offer, Compare, Bound1, Copy1, Polish, RecordAfter, RecordBefore, Again,
       Bound2, Copy2, Share, SendCut, SetBound, CopySolution, OfferPC, Types
  <1>7. Types'
    BY <1>1, <1>2, <1>3, <1>4, <1>5, <1>6 DEF Types, work
  <1>8. BoundsAreCuts'
    BY <1>2, <1>3, <1>4, <1>5, <1>6 DEF BoundsAreCuts, Ks
  <1>9. LocalsAreCuts'
    BY <1>1, <1>2, <1>3 DEF Types, LocalsAreCuts, OfferPC, lsBound
  <1>10. OptimumSafe'
    BY <1>1, <1>3, OpenUnchanged, SafeIfOpenGrows
  <1> QED
    BY <1>1, <1>7, <1>8, <1>9, <1>10

\* The idle protocol.
LEMMA IdleIInv ==
    ASSUME IInv, NEW t \in Workers, IdleStep(t)
    PROVE  IInv'
  <1> USE Constants DEF IInv
  <1>1. /\ UNCHANGED <<queue, slot, work, gub, bounds, offer, caller, tmp, found>>
        /\ pc[t] \in {"idle"} \cup IdlePC
        /\ \E to \in {"poll", "gone"} \cup IdlePC : Goto(t, to)
    BY DEF IdleStep, BecomeIdle, AllIdle, SomeoneWorks, SizeIsZero, AllEmpty, NotEmpty,
       Finish, TryLockFails, Wake, LeaveIdle, IdlePC, incumbent, locals, Types
  <1>2. PICK to \in {"poll", "gone"} \cup IdlePC : Goto(t, to)
    BY <1>1
  <1>3. Types'
    BY <1>1, <1>2 DEF Types, PCs, IdlePC, work
  <1>4. Placed'
    BY <1>1, <1>2 DEF Types, Placed, OfferPC, IdlePC, work
  <1>5. \A u \in Actors : /\ pc'[u] \in OfferPC => pc[u] \in OfferPC
                          /\ pc'[u] \in PolishedPC => pc[u] \in PolishedPC
                          /\ pc'[u] \in {"prune", "store"} => tmp'[u] \in found
    BY <1>1, <1>2 DEF Types, LocalsAreCuts, OfferPC, IdlePC
  <1> QED
    BY <1>1, <1>3, <1>4, <1>5, QuietStep

-----------------------------------------------------------------------------

\* The inductive invariant holds throughout every behaviour.
THEOREM Invariance == CutsFit => (Spec => []IInv)
  <1> SUFFICES ASSUME CutsFit PROVE Spec => []IInv
    OBVIOUS
  <1>1. Init => IInv
    BY InitIInv
  <1>2. IInv /\ [Next]_vars => IInv'
    <2> SUFFICES ASSUME IInv, [Next]_vars PROVE IInv'
      OBVIOUS
    <2>1. ASSUME NEW t \in Actors, Step(t) PROVE IInv'
      BY <2>1, LookIInv, SolveIInv, OfferIInv, IdleIInv DEF Step
    <2>2. CASE UNCHANGED vars
      BY <2>2 DEF IInv, Types, Placed, BoundsAreCuts, LocalsAreCuts, OptimumSafe, Open,
         vars, incumbent, work, locals
    <2> QED
      BY <2>1, <2>2 DEF Next, Joined
  <1> QED
    BY <1>1, <1>2, PTL DEF Spec

\* Whatever the workers' races on the bound, the queues and the end of the
\* search do: a cut as light as the optimum is below a problem that is still
\* open, or it was computed.  (solveProblem, processNewProblem, prepareQueue
\* and the unsynchronised writes of findBestSolution and updateBound.)
THEOREM OptimumNeverLost == CutsFit => (Spec => []OptimumSafe)
  <1> SUFFICES ASSUME CutsFit PROVE Spec => []OptimumSafe
    OBVIOUS
  <1>1. IInv => OptimumSafe
    BY DEF IInv
  <1> QED
    BY <1>1, Invariance, PTL

\* global_upper_bound, last_sent_flow, the bound remembered for other ranks and
\* the bounds of local search are at all times weights of computed cuts.
THEOREM BoundsFromCuts == CutsFit => (Spec => []BoundsAreCuts)
  <1> SUFFICES ASSUME CutsFit PROVE Spec => []BoundsAreCuts
    OBVIOUS
  <1>1. IInv => BoundsAreCuts
    BY DEF IInv
  <1> QED
    BY <1>1, Invariance, PTL
-----------------------------------------------------------------------------
(* One worker: the end.                                                      *)

\* With one worker nobody else touches the queue and the slot, so that what its
\* tests for emptiness saw is still so when it ends the search, and it is gone
\* from then on.  (With two, a problem pulled between the tests is not seen.)
SoleWorker ==
    /\ pc[Main] \in OfferPC \cup {"gone"} /\ caller[Main] = "update"
    /\ index \in [Actors -> Nat]
    /\ pc[0] = "empty" => index[0] \in {0, T} /\ (index[0] = T => queue[0] = {})
    /\ pc[0] = "finish" \/ finished => queue[0] = {} /\ slot = NoProblem
    /\ finished => pc[0] = "gone"

\* The main thread only offers the cut of the root's flows.
LEMMA MainStepSole ==
    ASSUME T = 1, IInv, SoleWorker, OfferStep(Main)
    PROVE  SoleWorker'
  <1> USE Constants
  <1>1. 0 \in Actors \ {Main}
    BY DEF Actors, Main
  <1>2. UNCHANGED <<queue, slot, work, caller>> /\ pc'[0] = pc[0]
    BY <1>1, OfferGoes
  <1>3. UNCHANGED <<index, finished>>
    BY DEF OfferStep, Offer, Compare, Bound1, Copy1, Polish, RecordAfter, RecordBefore, Again,
       Bound2, Copy2, Share, SendCut, SetBound, CopySolution, ending, locals
  <1>4. pc'[Main] \in OfferPC \cup {"gone"}
    BY DEF IInv, Types, SoleWorker, OfferStep, Offer, Compare, Bound1, Copy1, Polish, RecordAfter,
       RecordBefore, Again, Bound2, Copy2, Share, SendCut, SetBound, CopySolution, Resume,
       OfferPC
  <1> QED
    BY <1>2, <1>3, <1>4 DEF SoleWorker

\* A step of the worker at work leaves it at work: it has not ended the search,
\* and pollWork would return only if it had.
LEMMA BusyStepSole ==
    ASSUME T = 1, IInv, SoleWorker, OfferStep(0) \/ LookStep(0) \/ SolveStep(0)
    PROVE  SoleWorker'
  <1> USE Constants
  <1>1. 0 \in Workers /\ 0 \in Actors /\ Main # 0
    BY DEF Workers, Actors, Main
  <1>2. /\ ~finished /\ UNCHANGED <<finished, index>>
        /\ pc'[0] \notin {"empty", "finish", "gone"}
        /\ pc'[Main] = pc[Main] /\ caller'[Main] = caller[Main]
    <2>1. CASE OfferStep(0)
      BY <1>1, <2>1
         DEF IInv, Types, SoleWorker, OfferStep, Offer, Compare, Bound1, Copy1, Polish, RecordAfter,
         RecordBefore, Again, Bound2, Copy2, Share, SendCut, SetBound, CopySolution, Resume,
         OfferPC, ending, locals
    <2>2. CASE LookStep(0)
      BY <1>1, <2>2
         DEF IInv, Types, SoleWorker, LookStep, Poll, Cast, SendLast, Prepare, Prune, Prepared, Look,
         Refresh, Store, PullOwn, PullSlot, PullNothing, ending, locals
    <2>3. CASE SolveStep(0)
      BY <1>1, <2>3
         DEF IInv, Types, SoleWorker, SolveStep, CutOff, Solved, Branch, ChildSolved,
         ChildCutOff, ChildQueued, Branched, Took, AfterChild, ending, locals
    <2> QED
      BY <2>1, <2>2, <2>3
  <1> QED
    BY <1>2 DEF SoleWorker

\* The idle protocol: size() of the one queue, the slot, and the end.
LEMMA IdleStepSole ==
    ASSUME T = 1, IInv, SoleWorker, IdleStep(0)
    PROVE  SoleWorker'
  <1> USE Constants
  <1>1. Workers = {0} /\ 0 \in Actors /\ Main # 0 /\ Main \in Actors
    BY DEF Workers, Actors, Main
  <1>2. UNCHANGED <<queue, slot, caller>> /\ pc'[Main] = pc[Main] /\ ~finished
    BY <1>1 DEF IInv, Types, SoleWorker, IdleStep, BecomeIdle, AllIdle, SomeoneWorks,
       SizeIsZero, AllEmpty, NotEmpty, Finish, TryLockFails, Wake, LeaveIdle, ending, locals
  <1>3. CASE AllIdle(0)
    BY <1>1, <1>2, <1>3 DEF IInv, Types, SoleWorker, AllIdle, ending, locals
  <1>4. CASE SizeIsZero(0)
    BY <1>1, <1>2, <1>4 DEF IInv, Types, SoleWorker, SizeIsZero, ending, locals
  <1>5. CASE AllEmpty(0)
    BY <1>1, <1>2, <1>5 DEF IInv, Types, SoleWorker, AllEmpty, ending, locals
  <1>6. CASE Finish(0)
    BY <1>1, <1>2, <1>6 DEF IInv, Types, SoleWorker, Finish, ending, locals
  <1>7. CASE \/ BecomeIdle(0) \/ SomeoneWorks(0) \/ NotEmpty(0) \/ TryLockFails(0)
             \/ Wake(0) \/ LeaveIdle(0)
    BY <1>1, <1>2, <1>7 DEF IInv, Types, SoleWorker, BecomeIdle, SomeoneWorks, NotEmpty,
       TryLockFails, Wake, LeaveIdle, ending, locals
  <1> QED
    BY <1>3, <1>4, <1>5, <1>6, <1>7 DEF IdleStep

\* One worker ends the search, and returns, only when no problem of the tree is
\* left: none is queued, in the slot, in work, or a child that still waits.
\* (allThreadsIdle, allEmpty and the try_lock in pollWork.)
THEOREM OneWorkerEndsLast == CutsFit /\ T = 1 => (Spec => []NoEarlyFinish)
  <1> SUFFICES ASSUME CutsFit, T = 1 PROVE Spec => []NoEarlyFinish
    OBVIOUS
  <1>1. Init => SoleWorker
    BY Constants DEF Init, SoleWorker, OfferPC, Actors, Main
  <1>2. IInv /\ SoleWorker /\ [Next]_vars => SoleWorker'
    <2> SUFFICES ASSUME IInv, SoleWorker, [Next]_vars PROVE SoleWorker'
      OBVIOUS
    <2>1. Actors = {0, Main} /\ Workers = {0} /\ Main # 0
      BY DEF Actors, Workers, Main
    <2>2. ASSUME NEW t \in Actors, Step(t) PROVE SoleWorker'
      BY <2>1, <2>2, MainStepSole, BusyStepSole, IdleStepSole DEF Step
    <2>3. CASE UNCHANGED vars
      BY <2>3 DEF SoleWorker, vars, ending, locals
    <2> QED
      BY <2>2, <2>3 DEF Next, Joined
  <1>3. IInv /\ SoleWorker => NoEarlyFinish
    <2> SUFFICES ASSUME IInv, SoleWorker, finished PROVE Open = {}
      BY DEF NoEarlyFinish
    <2>1. Actors = {0, Main} /\ Workers = {0}
      BY DEF Actors, Workers, Main
    <2>2. queue[0] = {} /\ slot = NoProblem /\ pc[0] = "gone"
      BY DEF SoleWorker
    <2>3. \A t \in Actors : cur[t] = NoProblem /\ kids[t] = {}
      BY <2>1, <2>2 DEF IInv, Placed, SoleWorker, OfferPC
    <2> QED
      BY <2>1, <2>2, <2>3 DEF Open
  <1> QED
    BY <1>1, <1>2, <1>3, Invariance, PTL DEF Spec
=============================================================================

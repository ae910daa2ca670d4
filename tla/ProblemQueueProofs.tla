------------------------- MODULE ProblemQueueProofs -------------------------
(***************************************************************************)
(* For any number of threads: each queue is changed by the thread that     *)
(* holds its mutex only, and the sizes that all_empty, size and the choice *)
(* of a queue read without a mutex are the lengths of the queues whenever  *)
(* nobody works on them (SizesAgree), the second unlock of                 *)
(* send_problem_mutex notwithstanding.                                     *)
(*                                                                         *)
(* With one worker thread the problems form a bag that nothing is lost     *)
(* from: each problem is in exactly one place until it is pulled or cut    *)
(* off.  With two threads this fails, as several of them may arm the slot. *)
(***************************************************************************)
EXTENDS ProblemQueue, TLAPS

Items == Problems \cup {NoProblem}

\* The types the argument needs.
Types ==
    /\ pq \in [Threads -> Seq(Items)]
    /\ size \in [Threads -> Int]
    /\ send \in Items
    /\ arg \in [Threads -> Items]
    /\ target \in [Threads -> Threads]
    /\ popLock \in [Threads -> Threads \cup {Free}]
    /\ pc \in [Threads -> PCs]
    /\ fresh \subseteq Problems

\* Thread t is at work on queue i.
Inside(t, i) ==
    \/ pc[t] \in AddHolds /\ target[t] = i
    \/ pc[t] \in PullHolds /\ t = i

\* It holds the mutex of the queue then, so that there is one at most.
Holds == \A t, i \in Threads : Inside(t, i) => popLock[i] = t

\* The problem is counted already but not in the queue yet.
Owing == {"compare", "swapLock", "swap", "unlockKept", "push"}
Owes(t, i) == pc[t] \in Owing /\ target[t] = i

Counted ==
    \A i \in Threads :
        /\ (\E t \in Threads : Owes(t, i)) => size[i] = Len(pq[i]) + 1
        /\ (\A t \in Threads : ~Owes(t, i)) => size[i] = Len(pq[i])

IInv == Types /\ Holds /\ Counted

USE DEF At, Goto

\* Removing one item makes a sequence shorter by one.
LEMMA RemoveAtLength ==
    ASSUME NEW S, NEW q \in Seq(S), NEW k \in DOMAIN q
    PROVE  RemoveAt(q, k) \in Seq(S) /\ Len(RemoveAt(q, k)) = Len(q) - 1
  BY DEF RemoveAt

LEMMA InitIInv == Init => IInv
  BY TAssumption DEF Init, IInv, Types, Holds, Inside, Counted, Owes, Owing, Items, Threads,
     PCs, AddHolds, PullHolds

\* The mutex of a queue is held by one thread at most.
LEMMA OneHolder ==
    ASSUME Holds, NEW t \in Threads, NEW u \in Threads, NEW i \in Threads,
           Inside(t, i),
           Inside(u, i)
    PROVE  t = u
  BY DEF Holds

\* A step that leaves the queues and their mutexes alone and keeps the thread
\* in the same phase.
LEMMA QuietStep ==
    ASSUME IInv, NEW t \in Threads, NEW to \in PCs,
           Goto(t, to), UNCHANGED <<pq, size, popLock>>, Types',
           \A u \in Threads \ {t} : target'[u] = target[u],
           to \in AddHolds => pc[t] \in AddHolds /\ target'[t] = target[t],
           to \in PullHolds => pc[t] \in PullHolds,
           to \in Owing <=> pc[t] \in Owing
    PROVE  IInv'
  <1> USE DEF IInv, Types
  <1>1. Holds'
    BY DEF Holds, Inside
  <1>2. \A u, i \in Threads : Owes(u, i)' <=> Owes(u, i)
    BY DEF Owes, Owing, AddHolds
  <1>3. Counted'
    BY <1>2 DEF Counted
  <1> QED
    BY <1>1, <1>3

\* The same, for steps that leave every local variable but pc alone.
LEMMA PcStep ==
    ASSUME IInv, NEW t \in Threads,
           UNCHANGED <<pq, size, popLock, target, fresh>>,
           send' \in Items, arg' \in [Threads -> Items],
           NEW to \in PCs, Goto(t, to),
           to \in AddHolds => pc[t] \in AddHolds,
           to \in PullHolds => pc[t] \in PullHolds,
           to \in Owing <=> pc[t] \in Owing
    PROVE  IInv'
  <1>1. Types'
    BY DEF IInv, Types
  <1> QED
    BY <1>1, QuietStep

\* Inside a queue, a thread that owes nothing finds its size right.
LEMMA NotOwed ==
    ASSUME IInv, NEW t \in Threads, NEW i \in Threads, Inside(t, i), pc[t] \notin Owing
    PROVE  size[i] = Len(pq[i])
  <1>1. ASSUME NEW u \in Threads, Owes(u, i) PROVE FALSE
    <2>1. Inside(u, i)
      BY <1>1 DEF Owes, Owing, Inside, AddHolds
    <2>2. u = t
      BY <2>1, OneHolder DEF IInv
    <2> QED
      BY <1>1, <2>2 DEF Owes
  <1> QED
    BY <1>1 DEF IInv, Counted

\* The thread inside queue i changes it, with its size, and leaves.
LEMMA LeaveStep ==
    ASSUME IInv, NEW t \in Threads, NEW i \in Threads, Inside(t, i), pc[t] \notin Owing,
           UnlockPop(i), Goto(t, "idle"), UNCHANGED <<target, send, arg, fresh>>,
           pq'[i] \in Seq(Items), size'[i] \in Int, size'[i] = Len(pq'[i]),
           pq' = [pq EXCEPT ![i] = pq'[i]], size' = [size EXCEPT ![i] = size'[i]]
    PROVE  IInv'
  <1> USE DEF IInv, Types
  <1>1. Types'
    BY DEF UnlockPop, PCs
  <1>2. pc'[t] = "idle" /\ \A u \in Threads \ {t} : pc'[u] = pc[u]
    OBVIOUS
  <1>3. \A j \in Threads \ {i} :
            popLock'[j] = popLock[j] /\ pq'[j] = pq[j] /\ size'[j] = size[j]
    BY DEF UnlockPop
  <1>4. \A u, j \in Threads : Inside(u, j)' => u # t /\ j # i /\ Inside(u, j)
    <2> SUFFICES ASSUME NEW u \in Threads, NEW j \in Threads, Inside(u, j)'
                 PROVE  u # t /\ j # i /\ Inside(u, j)
      OBVIOUS
    <2>1. u # t /\ Inside(u, j)
      BY <1>2 DEF Inside, AddHolds, PullHolds
    <2> QED
      BY <2>1, OneHolder
  <1>5. Holds'
    BY <1>3, <1>4 DEF Holds
  <1>6. \A u, j \in Threads : Owes(u, j)' <=> Owes(u, j)
    BY <1>2 DEF Owes, Owing
  <1>7. \A u \in Threads : ~Owes(u, i)'
    BY <1>4 DEF Owes, Owing, Inside, AddHolds
  <1>8. ASSUME NEW j \in Threads
        PROVE  /\ (\E u \in Threads : Owes(u, j)') => size'[j] = Len(pq'[j]) + 1
               /\ (\A u \in Threads : ~Owes(u, j)') => size'[j] = Len(pq'[j])
    <2>1. CASE j = i
      BY <1>7, <2>1
    <2>2. CASE j # i
      BY <1>3, <1>6, <2>2 DEF Counted
    <2> QED
      BY <2>1, <2>2
  <1>9. Counted'
    BY <1>8 DEF Counted
  <1> QED
    BY <1>1, <1>5, <1>9

\* The thread inside queue i leaves it as it is.
LEMMA UnlockStep ==
    ASSUME IInv, NEW t \in Threads, NEW i \in Threads, Inside(t, i), pc[t] \notin Owing,
           UnlockPop(i), Goto(t, "idle"),
           UNCHANGED <<pq, size, target, send, arg, fresh>>
    PROVE  IInv'
  <1>1. size[i] = Len(pq[i])
    BY NotOwed
  <1>2. /\ pq'[i] \in Seq(Items) /\ size'[i] \in Int /\ size'[i] = Len(pq'[i])
        /\ pq' = [pq EXCEPT ![i] = pq'[i]] /\ size' = [size EXCEPT ![i] = size'[i]]
    BY <1>1 DEF IInv, Types
  <1> QED
    BY <1>2, LeaveStep

\* A thread that is inside no queue enters queue i, whose mutex is free.
LEMMA LockStep ==
    ASSUME IInv, NEW t \in Threads, NEW i \in Threads, NEW to \in PCs,
           pc[t] \notin AddHolds \cup PullHolds, to \notin Owing,
           to \in AddHolds => i = target[t],
           to \in PullHolds => i = t,
           LockPop(t, i), Goto(t, to),
           UNCHANGED <<pq, size, target, send, arg, fresh>>
    PROVE  IInv'
  <1> USE DEF IInv, Types
  <1>1. Types'
    BY DEF LockPop
  <1>2. pc'[t] = to /\ \A u \in Threads \ {t} : pc'[u] = pc[u]
    OBVIOUS
  <1>3. popLock[i] = Free /\ popLock'[i] = t
        /\ \A j \in Threads \ {i} : popLock'[j] = popLock[j]
    BY DEF LockPop
  <1>4. \A u \in Threads : u # Free
    BY TAssumption DEF Threads, Free
  <1>5. Holds'
    BY <1>2, <1>3, <1>4 DEF Holds, Inside
  <1>6. \A u, j \in Threads : Owes(u, j)' <=> Owes(u, j)
    BY <1>2 DEF Owes, Owing, AddHolds
  <1>7. Counted'
    BY <1>6 DEF Counted
  <1> QED
    BY <1>1, <1>5, <1>7

\* A thread inside queue i changes the queue and its size.
LEMMA ChangeStep ==
    ASSUME IInv, NEW t \in Threads, NEW i \in Threads, NEW to \in PCs,
           Inside(t, i),
           to \in AddHolds <=> pc[t] \in AddHolds,
           to \in PullHolds <=> pc[t] \in PullHolds,
           Goto(t, to), UNCHANGED <<target, popLock, arg, fresh>>, send' \in Items,
           pq'[i] \in Seq(Items), size'[i] \in Int,
           pq' = [pq EXCEPT ![i] = pq'[i]], size' = [size EXCEPT ![i] = size'[i]],
           to \in Owing => size'[i] = Len(pq'[i]) + 1,
           to \notin Owing => size'[i] = Len(pq'[i])
    PROVE  IInv'
  <1> USE DEF IInv, Types
  <1>1. Types'
    OBVIOUS
  <1>2. pc'[t] = to /\ \A u \in Threads \ {t} : pc'[u] = pc[u]
    OBVIOUS
  <1>3. Holds'
    BY <1>2 DEF Holds, Inside
  <1>4. \A u \in Threads \ {t} : ~Owes(u, i)'
    <2> SUFFICES ASSUME NEW u \in Threads \ {t}, Owes(u, i)' PROVE FALSE
      OBVIOUS
    <2>1. Inside(u, i)
      BY <1>2 DEF Inside, Owes, Owing, AddHolds
    <2> QED
      BY <2>1, OneHolder
  <1>5. Owes(t, i)' <=> to \in Owing
    BY <1>2 DEF Owes, Inside, Owing, AddHolds, PullHolds
  <1>6. \A u \in Threads, j \in Threads \ {i} : Owes(u, j)' <=> Owes(u, j)
    BY <1>2 DEF Owes, Inside, Owing, AddHolds, PullHolds
  <1>7. \A j \in Threads \ {i} : pq'[j] = pq[j] /\ size'[j] = size[j]
    OBVIOUS
  <1>8. ASSUME NEW j \in Threads \ {i}
        PROVE  /\ (\E u \in Threads : Owes(u, j)') => size'[j] = Len(pq'[j]) + 1
               /\ (\A u \in Threads : ~Owes(u, j)') => size'[j] = Len(pq'[j])
    BY <1>6, <1>7 DEF Counted
  <1>9. /\ (\E u \in Threads : Owes(u, i)') => size'[i] = Len(pq'[i]) + 1
        /\ (\A u \in Threads : ~Owes(u, i)') => size'[i] = Len(pq'[i])
    BY <1>4, <1>5
  <1>10. Counted'
    BY <1>8, <1>9 DEF Counted
  <1> QED
    BY <1>1, <1>3, <1>10

-----------------------------------------------------------------------------
(* The actions, by what they do to the queues.                               *)

\* addProblem.
LEMMA AddIInv ==
    ASSUME IInv, NEW t \in Threads, AddStep(t)
    PROVE  IInv'
  <1> USE DEF queues, slot, locks, locals, fate
  <1> DEFINE i == target[t]
  <1>1. i \in Threads /\ arg[t] \in Items
    BY DEF IInv, Types
  <1>2. CASE StartAdd(t)
    <2>1. arg' \in [Threads -> Items] /\ fresh' \subseteq Problems
      BY <1>2 DEF StartAdd, IInv, Types, Items
    <2>2. Types'
      BY <1>2, <2>1 DEF StartAdd, IInv, Types, PCs
    <2> QED
      BY <1>2, <2>2, QuietStep DEF StartAdd, PCs, AddHolds, PullHolds, Owing
  <1>3. CASE ScanSizes(t) \/ SettleTarget(t)
    <2>1. PICK v \in Threads : target' \in {target, [target EXCEPT ![t] = v]}
      <3>1. CASE ScanSizes(t)
        BY <3>1 DEF ScanSizes
      <3>2. CASE SettleTarget(t)
        BY <3>2 DEF SettleTarget
      <3> QED
        BY <1>3, <3>1, <3>2
    <2>2. target' \in [Threads -> Threads] /\ \A u \in Threads \ {t} : target'[u] = target[u]
      BY <2>1 DEF IInv, Types
    <2>3. /\ UNCHANGED <<pq, size, send, arg, popLock, fresh>>
          /\ pc[t] \in {"scan", "settle"}
          /\ \E to \in {"settle", "lock"} : Goto(t, to)
      BY <1>3 DEF ScanSizes, SettleTarget
    <2>4. PICK to \in {"settle", "lock"} : Goto(t, to)
      BY <2>3
    <2>5. Types'
      BY <2>2, <2>3, <2>4 DEF IInv, Types, PCs
    <2> QED
      BY <2>2, <2>3, <2>4, <2>5, QuietStep DEF PCs, AddHolds, PullHolds, Owing
  <1>4. CASE MarkLocal(t) \/ SlotIsFree(t) \/ LockToArm(t) \/ UnlockMoved(t) \/ UnlockAgain(t)
    BY <1>4, PcStep
       DEF MarkLocal, SlotIsFree, LockToArm, UnlockMoved, UnlockAgain, IInv, Types,
           PCs, AddHolds, PullHolds, Owing
  <1>5. CASE Arm(t)
    BY <1>1, <1>5, PcStep DEF Arm, IInv, Types, PCs, AddHolds, PullHolds, Owing
  <1>6. CASE Compare(t) \/ LockToSwap(t) \/ SwapFindsNothing(t) \/ UnlockKept(t)
    BY <1>6, PcStep
       DEF Compare, LockToSwap, SwapFindsNothing, UnlockKept, IInv, Types,
           PCs, AddHolds, PullHolds, Owing
  <1>7. CASE LockTarget(t)
    BY <1>1, <1>7, LockStep DEF LockTarget, PCs, AddHolds, PullHolds, Owing
  <1>8. CASE ArmLeaves(t) \/ AddLeaves(t)
    BY <1>1, <1>8, UnlockStep DEF ArmLeaves, AddLeaves, Inside, AddHolds, PullHolds, Owing
  <1>9. CASE SlotIsTaken(t)
    <2>1. /\ pc[t] = "test" /\ pq' = pq
          /\ size' = [size EXCEPT ![i] = size[i] + 1] /\ Goto(t, "compare")
          /\ UNCHANGED <<target, popLock, arg, fresh, send>>
      BY <1>9 DEF SlotIsTaken
    <2>2. size[i] = Len(pq[i])
      BY <1>1, <2>1, NotOwed DEF Inside, AddHolds, Owing
    <2>3. /\ size'[i] = Len(pq[i]) + 1 /\ size'[i] \in Int /\ pq[i] \in Seq(Items)
          /\ pq' = [pq EXCEPT ![i] = pq'[i]] /\ size' = [size EXCEPT ![i] = size'[i]]
      BY <1>1, <2>1, <2>2 DEF IInv, Types
    <2> QED
      BY <1>1, <2>1, <2>3, ChangeStep
         DEF IInv, Types, Inside, PCs, AddHolds, PullHolds, Owing
  <1>10. CASE Swap(t) \/ Push(t)
    <2>1. PICK x \in Items : pq' = [pq EXCEPT ![i] = Append(pq[i], x)]
      BY <1>1, <1>10 DEF Swap, Push, IInv, Types
    <2>2. PICK to \in {"unlockMoved", "leave"} : Goto(t, to)
      BY <1>10 DEF Swap, Push
    <2>3. /\ pc[t] \in {"swap", "push"} /\ size' = size
          /\ UNCHANGED <<target, popLock, arg, fresh>> /\ send' \in Items
      BY <1>1, <1>10 DEF Swap, Push, IInv, Types
    <2>4. size[i] = Len(pq[i]) + 1
      BY <1>1, <2>3 DEF IInv, Counted, Owes, Owing
    <2>5. /\ pq'[i] \in Seq(Items) /\ size'[i] = Len(pq'[i]) /\ size'[i] \in Int
          /\ pq' = [pq EXCEPT ![i] = pq'[i]] /\ size' = [size EXCEPT ![i] = size'[i]]
      BY <1>1, <2>1, <2>3, <2>4 DEF IInv, Types
    <2>6. /\ to \in PCs /\ to \in AddHolds /\ to \notin PullHolds /\ to \notin Owing
          /\ pc[t] \in AddHolds /\ pc[t] \notin PullHolds
      BY <2>2, <2>3 DEF PCs, AddHolds, PullHolds, Owing
    <2>7. Inside(t, i)
      BY <2>6 DEF Inside
    <2> QED
      BY <1>1, <2>2, <2>3, <2>5, <2>6, <2>7, ChangeStep
  <1> QED
    BY <1>2, <1>3, <1>4, <1>5, <1>6, <1>7, <1>8, <1>9, <1>10 DEF AddStep

\* Taking the item at k out of the thread's own queue, whose mutex it holds.
LEMMA PopStep ==
    ASSUME IInv, NEW t \in Threads, NEW k \in DOMAIN pq[t], pc[t] \in PullHolds,
           pq' = [pq EXCEPT ![t] = RemoveAt(pq[t], k)],
           size' = [size EXCEPT ![t] = size[t] - 1]
    PROVE  /\ pq'[t] \in Seq(Items) /\ size'[t] = Len(pq'[t]) /\ size'[t] \in Int
           /\ pq' = [pq EXCEPT ![t] = pq'[t]] /\ size' = [size EXCEPT ![t] = size'[t]]
  <1> USE DEF IInv, Types
  <1>1. Inside(t, t) /\ pc[t] \notin Owing
    BY DEF Inside, Owing, PullHolds
  <1>2. size[t] = Len(pq[t])
    BY <1>1, NotOwed
  <1>3. RemoveAt(pq[t], k) \in Seq(Items) /\ Len(RemoveAt(pq[t], k)) = Len(pq[t]) - 1
    BY RemoveAtLength
  <1> QED
    BY <1>2, <1>3

\* pullProblem and prepareQueue.
LEMMA PullIInv ==
    ASSUME IInv, NEW t \in Threads, PullStep(t) \/ PrepareStep(t)
    PROVE  IInv'
  <1> USE DEF queues, slot, locks, locals, fate
  <1>1. CASE StartPull(t) \/ ChooseSlot(t) \/ LockSlot(t) \/ ClaimSlot(t) \/ StartPrepare(t)
    <2>1. UNCHANGED <<pq, size, popLock, target, fresh, send, arg>>
      BY <1>1 DEF StartPull, ChooseSlot, LockSlot, ClaimSlot, StartPrepare
    <2>2. PICK to \in {"pullLock", "slotLock", "slotTest", "slotTake", "prepLock"} :
              /\ Goto(t, to)
              /\ to \in PullHolds => pc[t] \in PullHolds
              /\ pc[t] \notin Owing
      BY <1>1 DEF StartPull, ChooseSlot, LockSlot, ClaimSlot, StartPrepare, PullHolds, Owing
    <2>3. to \in PCs /\ to \notin AddHolds /\ to \notin Owing
      BY DEF PCs, AddHolds, PullHolds, Owing
    <2>4. send' \in Items /\ arg' \in [Threads -> Items]
      BY <2>1 DEF IInv, Types
    <2> QED
      BY <2>1, <2>2, <2>3, <2>4, PcStep
  <1>2. CASE TakeSlot(t)
    <2>1. send' \in Items /\ arg' \in [Threads -> Items]
      BY <1>2 DEF TakeSlot, IInv, Types, Items
    <2> QED
      BY <1>2, <2>1, PcStep DEF TakeSlot, PCs, AddHolds, PullHolds, Owing
  <1>3. CASE LockOwn(t) \/ LockToPrepare(t)
    BY <1>3, LockStep DEF LockOwn, LockToPrepare, PCs, AddHolds, PullHolds, Owing
  <1>4. CASE SlotEmpty(t) \/ SlotLeaves(t) \/ PrepareLeaves(t)
    <2>1. /\ pc[t] \in {"slotTest", "slotLeave", "prep"}
          /\ UnlockPop(t) /\ Goto(t, "idle")
          /\ UNCHANGED <<pq, size, target, send, arg, fresh>>
      BY <1>4 DEF SlotEmpty, SlotLeaves, PrepareLeaves
    <2>2. Inside(t, t) /\ pc[t] \notin Owing
      BY <2>1 DEF Inside, PullHolds, Owing
    <2> QED
      BY <2>1, <2>2, UnlockStep
  <1>5. CASE PopHopeless(t)
    <2>1. PICK k \in DOMAIN pq[t] : pq' = [pq EXCEPT ![t] = RemoveAt(pq[t], k)]
      BY <1>5 DEF PopHopeless
    <2>2. /\ pc[t] = "prep" /\ size' = [size EXCEPT ![t] = size[t] - 1]
          /\ UNCHANGED <<pc, target, popLock, arg, fresh, send>>
      BY <1>5 DEF PopHopeless
    <2>3. /\ "prep" \in PCs /\ "prep" \in PullHolds /\ "prep" \notin AddHolds
          /\ "prep" \notin Owing /\ Goto(t, "prep") /\ Inside(t, t) /\ send' \in Items
      BY <2>2 DEF IInv, Types, PCs, AddHolds, PullHolds, Owing, Inside
    <2> QED
      BY <2>1, <2>2, <2>3, PopStep, ChangeStep
  <1>6. CASE PullOwn(t)
    <2>1. PICK k \in DOMAIN pq[t] : pq' = [pq EXCEPT ![t] = RemoveAt(pq[t], k)]
      BY <1>6 DEF PullOwn
    <2>2. /\ pc[t] = "choose" /\ size' = [size EXCEPT ![t] = size[t] - 1]
          /\ UnlockPop(t) /\ Goto(t, "idle")
          /\ UNCHANGED <<target, arg, fresh, send>>
      BY <1>6 DEF PullOwn
    <2>3. pc[t] \in PullHolds /\ pc[t] \notin Owing /\ Inside(t, t)
      BY <2>2 DEF PullHolds, Owing, Inside
    <2> QED
      BY <2>1, <2>2, <2>3, PopStep, LeaveStep
  <1> QED
    BY <1>1, <1>2, <1>3, <1>4, <1>5, <1>6 DEF PullStep, PrepareStep

-----------------------------------------------------------------------------

\* The inductive invariant holds throughout every behaviour.
THEOREM Invariance == Spec => []IInv
  <1>1. IInv /\ [Next]_vars => IInv'
    <2> SUFFICES ASSUME IInv, [Next]_vars PROVE IInv'
      OBVIOUS
    <2>1. ASSUME NEW t \in Threads, Step(t) PROVE IInv'
      BY <2>1, AddIInv, PullIInv DEF Step
    <2>2. CASE UNCHANGED vars
      BY <2>2 DEF vars, queues, slot, locks, locals, fate, IInv, Types, Holds, Inside,
         Counted, Owes
    <2> QED
      BY <2>1, <2>2 DEF Next, Rest
  <1> QED
    BY InitIInv, <1>1, PTL DEF Spec

\* sizes[i].first is the length of queue i whenever pop_mutex[i] is free, for any
\* number of threads and whatever the calls do: all_empty, size and addProblem's
\* search for the shortest queue read it without the mutex.
THEOREM SizesAlwaysAgree == Spec => []SizesAgree
  <1>1. IInv => SizesAgree
    <2> SUFFICES ASSUME IInv, NEW i \in Threads, popLock[i] = Free
                 PROVE  size[i] = Len(pq[i])
      BY DEF SizesAgree
    <2>1. \A t \in Threads : t # Free
      BY TAssumption DEF Threads, Free
    <2>2. \A t \in Threads : ~Owes(t, i)
      BY <2>1 DEF IInv, Holds, Inside, Owes, Owing, AddHolds
    <2> QED
      BY <2>2 DEF IInv, Counted
  <1> QED
    BY <1>1, Invariance, PTL

-----------------------------------------------------------------------------
(* One worker thread.                                                        *)

\* The places of a problem, beside fresh, the slot, pulled and pruned.
InQueue(p) == p \in ToSet(pq[0])
InCall(p)  == pc[0] \in AddOwns \cup {"slotLeave"} /\ arg[0] = p

\* A problem that was added is somewhere ...
Somewhere ==
    \A p \in Problems : \/ p \in fresh \/ InQueue(p) \/ send = p \/ InCall(p)
                        \/ pulled[p] = 1 \/ p \in pruned

\* ... and in one place only.
OnePlace ==
    \A p \in Problems :
        /\ p \in fresh => ~InQueue(p) /\ send # p /\ ~InCall(p) /\ pulled[p] = 0
        /\ InQueue(p)  => send # p /\ ~InCall(p) /\ pulled[p] = 0
        /\ send = p    => ~InCall(p) /\ pulled[p] = 0
        /\ InCall(p)   => pulled[p] = 0
        /\ pulled[p] \in {0, 1}

Distinct == \A j, k \in DOMAIN pq[0] : pq[0][j] = pq[0][k] => j = k

\* haveSendProblem tells whether the slot is filled, but for the moment
\* between claiming it and taking the problem out.
SlotTold ==
    /\ pc[0] = "slotTake" => ~haveSend /\ send # NoProblem
    /\ pc[0] # "slotTake" => (haveSend <=> send # NoProblem)
    /\ pc[0] \in {"armLock", "arm"} => ~haveSend
    /\ pc[0] \in {"slotLock", "slotTest"} => haveSend \/ pq[0] = << >>

BagTypes ==
    /\ pq[0] \in Seq(Problems)
    /\ pulled \in [Problems -> Nat]
    /\ pc[0] \in AddOwns \cup {"slotLeave"} => arg[0] \in Problems
    /\ crashed = FALSE

BagInv == BagTypes /\ Somewhere /\ OnePlace /\ Distinct /\ SlotTold

-----------------------------------------------------------------------------
(* Removing an item of a sequence without repetitions.                       *)

LEMMA RemoveAtItems ==
    ASSUME NEW S, NEW q \in Seq(S), NEW k \in DOMAIN q,
           NEW j \in 1 .. Len(q) - 1
    PROVE  RemoveAt(q, k)[j] = IF j < k THEN q[j] ELSE q[j + 1]
  <1> DEFINE a == SubSeq(q, 1, k - 1)
             b == SubSeq(q, k + 1, Len(q))
  <1>1. k \in 1 .. Len(q) /\ Len(q) \in Nat
    OBVIOUS
  <1>2. a \in Seq(S) /\ Len(a) = k - 1 /\ \A i \in 1 .. k - 1 : a[i] = q[i]
    BY <1>1
  <1>3. b \in Seq(S) /\ Len(b) = Len(q) - k /\ \A i \in 1 .. Len(q) - k : b[i] = q[k + i]
    BY <1>1
  <1> HIDE DEF a, b
  <1>4. \A i \in 1 .. Len(a) + Len(b) :
           (a \o b)[i] = IF i <= Len(a) THEN a[i] ELSE b[i - Len(a)]
    <2>1. a \in Seq(S) /\ b \in Seq(S)
      BY <1>2, <1>3
    <2> QED
      BY <2>1
  <1>5. RemoveAt(q, k)[j] = IF j <= k - 1 THEN a[j] ELSE b[j - (k - 1)]
    <2>1. RemoveAt(q, k) = a \o b
      BY DEF RemoveAt, a, b
    <2>2. j \in 1 .. Len(a) + Len(b)
      BY <1>1, <1>2, <1>3
    <2> QED
      BY <1>2, <1>4, <2>1, <2>2
  <1>6. CASE j < k
    BY <1>1, <1>2, <1>5, <1>6
  <1>7. CASE j >= k
    <2>1. j - (k - 1) \in 1 .. Len(q) - k /\ k + (j - (k - 1)) = j + 1
      BY <1>1, <1>7
    <2> QED
      BY <1>1, <1>3, <1>5, <1>7, <2>1
  <1> QED
    BY <1>1, <1>6, <1>7

LEMMA RemoveOne ==
    ASSUME NEW S, NEW q \in Seq(S), NEW k \in DOMAIN q,
           \A i, j \in DOMAIN q : q[i] = q[j] => i = j,
           NEW r, r = RemoveAt(q, k)
    PROVE  /\ r \in Seq(S)
           /\ ToSet(r) = ToSet(q) \ {q[k]}
           /\ \A i, j \in DOMAIN r : r[i] = r[j] => i = j
  <1>1. r \in Seq(S) /\ Len(r) = Len(q) - 1 /\ DOMAIN r = 1 .. Len(q) - 1
    BY RemoveAtLength
  <1>2. \A j \in 1 .. Len(q) - 1 : r[j] = IF j < k THEN q[j] ELSE q[j + 1]
    BY RemoveAtItems
  <1>3. DOMAIN q = 1 .. Len(q) /\ Len(q) \in Nat /\ k \in 1 .. Len(q)
    OBVIOUS
  <1>4. ASSUME NEW i \in DOMAIN r, NEW j \in DOMAIN r, r[i] = r[j] PROVE i = j
    <2> DEFINE up(n) == IF n < k THEN n ELSE n + 1
    <2>1. /\ i \in 1 .. Len(q) - 1 /\ j \in 1 .. Len(q) - 1
          /\ up(i) \in DOMAIN q /\ up(j) \in DOMAIN q
      BY <1>1, <1>3
    <2>2. q[up(i)] = q[up(j)]
      BY <1>2, <1>4, <2>1
    <2>3. up(i) = up(j)
      BY <2>1, <2>2
    <2> QED
      BY <1>3, <2>1, <2>3
  <1>5. ASSUME NEW x \in ToSet(r) PROVE x \in ToSet(q) \ {q[k]}
    <2>1. PICK j \in 1 .. Len(q) - 1 : x = r[j]
      BY <1>1, <1>5 DEF ToSet
    <2>2. \E i \in 1 .. Len(q) : i # k /\ x = q[i]
      BY <1>2, <1>3, <2>1
    <2> QED
      BY <1>3, <2>2 DEF ToSet
  <1>6. ASSUME NEW x \in ToSet(q) \ {q[k]} PROVE x \in ToSet(r)
    <2>1. PICK i \in 1 .. Len(q) : i # k /\ x = q[i]
      BY <1>3, <1>6 DEF ToSet
    <2>2. \E j \in 1 .. Len(q) - 1 : x = r[j]
      <3>1. CASE i < k
        BY <1>2, <1>3, <2>1, <3>1
      <3>2. CASE i > k
        <4>1. i - 1 \in 1 .. Len(q) - 1 /\ ~(i - 1 < k) /\ (i - 1) + 1 = i
          BY <1>3, <3>2
        <4> QED
          BY <1>2, <2>1, <4>1
      <3> QED
        BY <1>3, <2>1, <3>1, <3>2
    <2> QED
      BY <1>1, <2>2 DEF ToSet
  <1> QED
    BY <1>1, <1>4, <1>5, <1>6

-----------------------------------------------------------------------------
(* One worker.                                                               *)

\* The only thread is 0, and so is the only queue.
LEMMA OneThread ==
    ASSUME T = 1
    PROVE  Threads = {0}
  BY DEF Threads

\* The steps that move no problem.
LEMMA BagStays ==
    ASSUME BagInv, UNCHANGED <<pq, send, fresh, pulled, pruned, crashed>>,
           pc'[0] \in AddOwns \cup {"slotLeave"} <=> pc[0] \in AddOwns \cup {"slotLeave"},
           pc[0] \in AddOwns \cup {"slotLeave"} => arg'[0] = arg[0],
           SlotTold'
    PROVE  BagInv'
  BY DEF BagInv, BagTypes, Somewhere, OnePlace, Distinct, InQueue, InCall

LEMMA InitBagInv ==
    ASSUME T = 1, Init
    PROVE  BagInv
  BY OneThread, ProblemAssumption
     DEF Init, BagInv, BagTypes, Somewhere, OnePlace, Distinct, SlotTold, InQueue, InCall,
         AddOwns, ToSet

\* Putting another problem into the queue.
LEMMA PutOne ==
    ASSUME BagInv, NEW x \in Problems, x \notin ToSet(pq[0]), pq'[0] = Append(pq[0], x)
    PROVE  /\ pq'[0] \in Seq(Problems) /\ ToSet(pq'[0]) = ToSet(pq[0]) \cup {x}
           /\ Distinct'
  <1>1. pq[0] \in Seq(Problems) /\ \A i, j \in DOMAIN pq[0] : pq[0][i] = pq[0][j] => i = j
    BY DEF BagInv, BagTypes, Distinct
  <1> DEFINE q == pq[0]
             r == pq'[0]
  <1>2. /\ q \in Seq(Problems) /\ Len(q) \in Nat /\ DOMAIN q = 1 .. Len(q)
        /\ \A j \in DOMAIN q : q[j] # x
    BY <1>1 DEF ToSet
  <1>3. r \in Seq(Problems) /\ Len(r) = Len(q) + 1
    BY <1>1
  <1>4. r[Len(q) + 1] = x /\ \A j \in 1 .. Len(q) : r[j] = q[j]
    BY <1>1
  <1>5. DOMAIN r = 1 .. Len(q) + 1
    BY <1>3
  <1> HIDE DEF q, r
  <1>6. \A i, j \in DOMAIN r : r[i] = r[j] => i = j
    BY <1>1, <1>2, <1>4, <1>5 DEF q
  <1>7. ToSet(r) = ToSet(q) \cup {x}
    BY <1>2, <1>4, <1>5 DEF ToSet
  <1> QED
    BY <1>3, <1>6, <1>7 DEF Distinct, q, r

\* Taking problem k out of the queue.
LEMMA TakeOne ==
    ASSUME BagInv, NEW k \in DOMAIN pq[0], pq'[0] = RemoveAt(pq[0], k)
    PROVE  /\ pq[0][k] \in Problems /\ InQueue(pq[0][k])
           /\ pq'[0] \in Seq(Problems) /\ ToSet(pq'[0]) = ToSet(pq[0]) \ {pq[0][k]}
           /\ Distinct'
  <1>1. pq[0] \in Seq(Problems) /\ \A i, j \in DOMAIN pq[0] : pq[0][i] = pq[0][j] => i = j
    BY DEF BagInv, BagTypes, Distinct
  <1>2. pq[0][k] \in Problems /\ InQueue(pq[0][k])
    BY <1>1 DEF InQueue, ToSet
  <1> QED
    BY <1>1, <1>2, RemoveOne DEF Distinct

\* addProblem moves a problem from outside into the slot or the queue, and the one that
\* it finds in the slot into the queue.
LEMMA AddBagInv ==
    ASSUME T = 1, IInv, BagInv, AddStep(0)
    PROVE  BagInv'
  <1> USE DEF queues, slot, locks, locals, fate
  <1>0. 0 \in Threads /\ target[0] = 0 /\ pc \in [Threads -> PCs]
    BY OneThread DEF IInv, Types
  <1>a. arg \in [Threads -> Items] /\ send \in Items
    BY DEF IInv, Types
  <1>b. DOMAIN pq = Threads
    BY DEF IInv, Types
  <1>1. CASE StartAdd(0)
    <2>1. PICK p \in fresh : fresh' = fresh \ {p} /\ arg' = [arg EXCEPT ![0] = p]
      BY <1>1 DEF StartAdd
    <2>2. /\ pc[0] = "idle" /\ pc'[0] = "mark" /\ arg'[0] = p
          /\ UNCHANGED <<pq, send, haveSend, pulled, pruned, crashed>>
      BY <1>0, <1>a, <1>1, <2>1 DEF StartAdd
    <2>3. p \in Problems
      BY <2>1 DEF IInv, Types
    <2> QED
      BY <2>1, <2>2, <2>3 DEF BagInv, BagTypes, Somewhere, OnePlace, Distinct, SlotTold, InQueue,
         InCall, AddOwns
  <1>2. CASE MarkLocal(0) \/ ScanSizes(0) \/ SettleTarget(0) \/ LockTarget(0)
    <2>1. /\ pc[0] \in {"mark", "scan", "settle", "lock"}
          /\ pc'[0] \in {"scan", "settle", "lock", "test"}
          /\ UNCHANGED <<pq, send, haveSend, arg, fresh, pulled, pruned, crashed>>
      BY <1>0, <1>2 DEF MarkLocal, ScanSizes, SettleTarget, LockTarget
    <2>2. SlotTold'
      BY <2>1 DEF BagInv, SlotTold
    <2>3. pc[0] \in AddOwns /\ pc'[0] \in AddOwns
      BY <2>1 DEF AddOwns
    <2> QED
      BY <2>1, <2>2, <2>3, BagStays
  <1>3. CASE SlotIsFree(0) \/ SlotIsTaken(0) \/ LockToArm(0)
    <2>1. /\ pc[0] \in {"test", "armLock"}
          /\ pc'[0] \in {"armLock", "arm", "compare"}
          /\ UNCHANGED <<pq, send, haveSend, arg, fresh, pulled, pruned, crashed>>
          /\ pc[0] = "armLock" \/ pc'[0] = "compare" \/ ~haveSend
      BY <1>0, <1>3 DEF SlotIsFree, SlotIsTaken, LockToArm
    <2>2. SlotTold'
      BY <2>1 DEF BagInv, SlotTold
    <2>3. pc[0] \in AddOwns /\ pc'[0] \in AddOwns
      BY <2>1 DEF AddOwns
    <2> QED
      BY <2>1, <2>2, <2>3, BagStays
  <1>4. CASE Arm(0)
    <2>1. /\ pc[0] = "arm" /\ pc'[0] = "armed" /\ send' = arg[0] /\ haveSend' = TRUE
          /\ UNCHANGED <<pq, arg, fresh, pulled, pruned, crashed>>
      BY <1>0, <1>4 DEF Arm
    <2>2. send = NoProblem /\ arg[0] \in Problems
      BY <2>1 DEF BagInv, SlotTold, BagTypes, AddOwns
    <2> QED
      BY <2>1, <2>2, ProblemAssumption DEF BagInv, BagTypes, Somewhere, OnePlace, Distinct,
         SlotTold, InQueue, InCall, AddOwns
  <1>5. CASE ArmLeaves(0) \/ UnlockMoved(0) \/ UnlockAgain(0) \/ AddLeaves(0)
    <2>1. /\ pc[0] \in {"armed", "unlockMoved", "unlockAgain", "leave"}
          /\ pc'[0] \in {"idle", "unlockAgain", "leave"}
          /\ UNCHANGED <<pq, send, haveSend, arg, fresh, pulled, pruned, crashed>>
      BY <1>0, <1>5 DEF ArmLeaves, UnlockMoved, UnlockAgain, AddLeaves
    <2>2. SlotTold'
      BY <2>1 DEF BagInv, SlotTold
    <2>3. pc[0] \notin AddOwns \cup {"slotLeave"} /\ pc'[0] \notin AddOwns \cup {"slotLeave"}
      BY <2>1 DEF AddOwns
    <2> QED
      BY <2>1, <2>2, <2>3, BagStays
  <1>6. CASE Compare(0) \/ LockToSwap(0) \/ SwapFindsNothing(0) \/ UnlockKept(0)
    <2>1. /\ pc[0] \in {"compare", "swapLock", "swap", "unlockKept"}
          /\ pc'[0] \in {"swapLock", "swap", "unlockKept", "push"}
          /\ UNCHANGED <<pq, send, haveSend, arg, fresh, pulled, pruned, crashed>>
      BY <1>0, <1>6 DEF Compare, LockToSwap, SwapFindsNothing, UnlockKept
    <2>2. SlotTold'
      BY <2>1 DEF BagInv, SlotTold
    <2>3. pc[0] \in AddOwns /\ pc'[0] \in AddOwns
      BY <2>1 DEF AddOwns
    <2> QED
      BY <2>1, <2>2, <2>3, BagStays
  <1>7. CASE Swap(0)
    <2>1. /\ pc[0] = "swap" /\ pc'[0] = "unlockMoved" /\ haveSend
          /\ pq'[0] = Append(pq[0], send) /\ send' = arg[0]
          /\ UNCHANGED <<haveSend, arg, fresh, pulled, pruned, crashed>>
      BY <1>0, <1>b, <1>7 DEF Swap
    <2>2. InCall(arg[0]) /\ arg[0] \in Problems /\ send # NoProblem
      BY <2>1 DEF BagInv, BagTypes, SlotTold, InCall, AddOwns
    <2>3. send \in Problems
      BY <1>a, <2>2 DEF Items
    <2>4. send # arg[0] /\ send \notin ToSet(pq[0]) /\ arg[0] \notin ToSet(pq[0])
      BY <2>2, <2>3 DEF BagInv, OnePlace, InQueue
    <2>5. /\ pq'[0] \in Seq(Problems) /\ ToSet(pq'[0]) = ToSet(pq[0]) \cup {send}
          /\ Distinct'
      BY <2>1, <2>3, <2>4, PutOne
    <2> QED
      BY <2>1, <2>2, <2>3, <2>4, <2>5, ProblemAssumption
         DEF BagInv, BagTypes, Somewhere, OnePlace, SlotTold, InQueue, InCall, AddOwns
  <1>8. CASE Push(0)
    <2>1. /\ pc[0] = "push" /\ pc'[0] = "leave" /\ pq'[0] = Append(pq[0], arg[0])
          /\ UNCHANGED <<send, haveSend, arg, fresh, pulled, pruned, crashed>>
      BY <1>0, <1>b, <1>8 DEF Push
    <2>2. InCall(arg[0]) /\ arg[0] \in Problems
      BY <2>1 DEF BagInv, BagTypes, InCall, AddOwns
    <2>3. arg[0] \notin ToSet(pq[0])
      BY <2>2 DEF BagInv, OnePlace, InQueue
    <2>4. /\ pq'[0] \in Seq(Problems) /\ ToSet(pq'[0]) = ToSet(pq[0]) \cup {arg[0]}
          /\ Distinct'
      BY <2>1, <2>2, <2>3, PutOne
    <2> QED
      BY <2>1, <2>2, <2>3, <2>4
         DEF BagInv, BagTypes, Somewhere, OnePlace, SlotTold, InQueue, InCall, AddOwns
  <1> QED
    BY <1>1, <1>2, <1>3, <1>4, <1>5, <1>6, <1>7, <1>8 DEF AddStep

\* pullProblem and prepareQueue take problems out of the queue and the slot.
LEMMA PullBagInv ==
    ASSUME T = 1, IInv, BagInv, PullStep(0) \/ PrepareStep(0)
    PROVE  BagInv'
  <1> USE DEF queues, slot, locks, locals, fate
  <1>0. 0 \in Threads /\ pc \in [Threads -> PCs]
    BY OneThread DEF IInv, Types
  <1>a. arg \in [Threads -> Items] /\ send \in Items
    BY DEF IInv, Types
  <1>b. DOMAIN pq = Threads
    BY DEF IInv, Types
  <1>1. CASE StartPull(0) \/ LockOwn(0) \/ ChooseSlot(0) \/ LockSlot(0)
    <2>1. /\ pc[0] \in {"idle", "pullLock", "choose", "slotLock"}
          /\ pc'[0] \in {"pullLock", "choose", "slotLock", "slotTest"}
          /\ UNCHANGED <<pq, send, haveSend, arg, fresh, pulled, pruned, crashed>>
          /\ pc[0] = "choose" => haveSend \/ pq[0] = << >>
          /\ pc'[0] = "slotTest" => pc[0] = "slotLock"
          /\ pc'[0] = "slotLock" => pc[0] = "choose"
      BY <1>0, <1>1 DEF StartPull, LockOwn, ChooseSlot, FromSlot, LockSlot
    <2>2. SlotTold'
      BY <2>1 DEF BagInv, SlotTold
    <2>3. pc[0] \notin AddOwns \cup {"slotLeave"} /\ pc'[0] \notin AddOwns \cup {"slotLeave"}
      BY <2>1 DEF AddOwns
    <2> QED
      BY <2>1, <2>2, <2>3, BagStays
  <1>2. CASE SlotEmpty(0) \/ StartPrepare(0) \/ LockToPrepare(0) \/ PrepareLeaves(0)
    <2>1. /\ pc[0] \in {"slotTest", "idle", "prepLock", "prep"}
          /\ pc'[0] \in {"idle", "prepLock", "prep"}
          /\ UNCHANGED <<pq, send, haveSend, arg, fresh, pulled, pruned, crashed>>
      BY <1>0, <1>2 DEF SlotEmpty, StartPrepare, LockToPrepare, PrepareLeaves
    <2>2. SlotTold'
      BY <2>1 DEF BagInv, SlotTold
    <2>3. pc[0] \notin AddOwns \cup {"slotLeave"} /\ pc'[0] \notin AddOwns \cup {"slotLeave"}
      BY <2>1 DEF AddOwns
    <2> QED
      BY <2>1, <2>2, <2>3, BagStays
  <1>3. CASE ClaimSlot(0)
    <2>1. /\ pc[0] = "slotTest" /\ pc'[0] = "slotTake" /\ haveSend /\ haveSend' = FALSE
          /\ UNCHANGED <<pq, send, arg, fresh, pulled, pruned, crashed>>
      BY <1>0, <1>3 DEF ClaimSlot
    <2>2. SlotTold'
      BY <2>1 DEF BagInv, SlotTold
    <2> QED
      BY <2>1, <2>2, BagStays DEF AddOwns
  <1>4. CASE TakeSlot(0)
    <2>1. /\ pc[0] = "slotTake" /\ pc'[0] = "slotLeave" /\ arg'[0] = send /\ send' = NoProblem
          /\ UNCHANGED <<pq, haveSend, fresh, pulled, pruned, crashed>>
      BY <1>0, <1>a, <1>4 DEF TakeSlot
    <2>2. send \in Problems /\ ~haveSend
      BY <1>a, <2>1 DEF BagInv, SlotTold, Items
    <2> QED
      BY <2>1, <2>2, ProblemAssumption DEF BagInv, BagTypes, Somewhere, OnePlace, Distinct,
         SlotTold, InQueue, InCall, AddOwns
  <1>5. CASE SlotLeaves(0)
    <2>1. arg[0] \in Problems /\ InCall(arg[0]) /\ pulled[arg[0]] = 0
      BY <1>5 DEF SlotLeaves, BagInv, BagTypes, OnePlace, InCall
    <2>2. /\ pc[0] = "slotLeave" /\ pc'[0] = "idle"
          /\ UNCHANGED <<pq, send, haveSend, arg, fresh, pruned>>
      BY <1>0, <1>5 DEF SlotLeaves
    <2>3. arg[0] # NoProblem
      BY <2>1, ProblemAssumption
    <2>4. crashed' = FALSE
      BY <1>5, <2>3, Zenon DEF SlotLeaves
    <2>5. pulled' = [pulled EXCEPT ![arg[0]] = 1]
      BY <1>5, <2>1, <2>3 DEF SlotLeaves
    <2> QED
      BY <2>1, <2>2, <2>4, <2>5 DEF BagInv, BagTypes, Somewhere, OnePlace, Distinct,
         SlotTold, InQueue, InCall, AddOwns
  <1>6. CASE PullOwn(0)
    <2>1. PICK k \in DOMAIN pq[0] :
              /\ pq' = [pq EXCEPT ![0] = RemoveAt(pq[0], k)]
              /\ pulled' = [pulled EXCEPT ![pq[0][k]] = pulled[pq[0][k]] + 1]
      BY <1>6 DEF PullOwn
    <2>2. /\ pc[0] = "choose" /\ pc'[0] = "idle" /\ pq'[0] = RemoveAt(pq[0], k)
          /\ UNCHANGED <<send, haveSend, arg, fresh, pruned, crashed>>
      BY <1>0, <1>b, <1>6, <2>1 DEF PullOwn
    <2> DEFINE p == pq[0][k]
    <2>3. /\ p \in Problems /\ InQueue(p)
          /\ pq'[0] \in Seq(Problems) /\ ToSet(pq'[0]) = ToSet(pq[0]) \ {p}
          /\ Distinct'
      BY <2>2, TakeOne
    <2>4. pulled[p] = 0
      BY <2>3 DEF BagInv, OnePlace
    <2>5. pulled' = [pulled EXCEPT ![p] = 1]
      BY <2>1, <2>4
    <2> HIDE DEF p
    <2> QED
      BY <2>2, <2>3, <2>4, <2>5
         DEF BagInv, BagTypes, Somewhere, OnePlace, SlotTold, InQueue, InCall, AddOwns
  <1>7. CASE PopHopeless(0)
    <2>1. PICK k \in DOMAIN pq[0] : /\ pq' = [pq EXCEPT ![0] = RemoveAt(pq[0], k)]
                                    /\ pruned' = pruned \cup {pq[0][k]}
      BY <1>7 DEF PopHopeless
    <2>2. /\ pc[0] = "prep" /\ pc'[0] = "prep" /\ pq'[0] = RemoveAt(pq[0], k)
          /\ UNCHANGED <<send, haveSend, arg, fresh, pulled, crashed>>
      BY <1>0, <1>b, <1>7, <2>1 DEF PopHopeless
    <2> DEFINE p == pq[0][k]
    <2>3. /\ p \in Problems /\ InQueue(p)
          /\ pq'[0] \in Seq(Problems) /\ ToSet(pq'[0]) = ToSet(pq[0]) \ {p}
          /\ Distinct'
      BY <2>2, TakeOne
    <2>4. pruned' = pruned \cup {p}
      BY <2>1
    <2> HIDE DEF p
    <2> QED
      BY <2>2, <2>3, <2>4
         DEF BagInv, BagTypes, Somewhere, OnePlace, SlotTold, InQueue, InCall, AddOwns
  <1> QED
    BY <1>1, <1>2, <1>3, <1>4, <1>5, <1>6, <1>7 DEF PullStep, PrepareStep

-----------------------------------------------------------------------------

LEMMA BagInvariance == T = 1 => (Spec => []BagInv)
  <1> SUFFICES ASSUME T = 1 PROVE Spec => []BagInv
    OBVIOUS
  <1>1. Init => BagInv
    BY InitBagInv
  <1>2. BagInv /\ IInv /\ [Next]_vars => BagInv'
    <2> SUFFICES ASSUME BagInv, IInv, [Next]_vars PROVE BagInv'
      OBVIOUS
    <2>1. CASE \E t \in Threads : Step(t)
      BY <2>1, OneThread, AddBagInv, PullBagInv DEF Step
    <2>2. CASE UNCHANGED vars
      BY <2>2 DEF vars, queues, slot, locks, locals, fate, BagInv, BagTypes, Somewhere, OnePlace,
         Distinct, SlotTold, InQueue, InCall
    <2> QED
      BY <2>1, <2>2 DEF Next, Rest
  <1> QED
    BY <1>1, <1>2, Invariance, PTL DEF Spec

\* With one worker addProblem, pullProblem and prepareQueue lose no problem: one
\* that was added is held, pulled, or cut off by a bound that it cannot beat.
THEOREM NothingIsLost == T = 1 => (Spec => []NothingLost)
  <1> SUFFICES ASSUME T = 1 PROVE Spec => []NothingLost
    OBVIOUS
  <1>1. BagInv => NothingLost
    <2> SUFFICES ASSUME BagInv, NEW p \in Problems \ fresh
                 PROVE  p \in Held \/ pulled[p] > 0 \/ p \in pruned
      BY DEF NothingLost
    <2>1. \/ p \in ToSet(pq[0]) \/ send = p \/ InCall(p) \/ pulled[p] = 1 \/ p \in pruned
      BY DEF BagInv, Somewhere, InQueue
    <2>2. 0 \in Threads
      BY OneThread
    <2>3. CASE p \in ToSet(pq[0])
      BY <2>2, <2>3 DEF Held
    <2>4. CASE send = p
      BY <2>4 DEF Held
    <2>5. CASE InCall(p)
      BY <2>2, <2>5 DEF InCall, Held
    <2> QED
      BY <2>1, <2>3, <2>4, <2>5
  <1> QED
    BY <1>1, BagInvariance, PTL

\* With one worker no problem is handed out twice.
THEOREM NothingHandedOutTwice == T = 1 => (Spec => []NothingTwice)
  <1>1. BagInv => NothingTwice
    BY DEF BagInv, OnePlace, NothingTwice
  <1> QED
    BY <1>1, BagInvariance, PTL

\* With one worker pullProblem never meets the null problem that it exits on.
THEOREM NeverNull == T = 1 => (Spec => []NoNullProblem)
  <1>1. BagInv => NoNullProblem
    BY Zenon DEF BagInv, BagTypes, NoNullProblem
  <1> QED
    BY <1>1, BagInvariance, PTL

\* With one worker pullProblem reports that there is nothing only when neither the
\* queue nor the slot has a problem.
THEOREM EmptyHandedOnlyWhenEmpty == T = 1 => (Spec => []EmptyHanded)
  <1> SUFFICES ASSUME T = 1 PROVE Spec => []EmptyHanded
    OBVIOUS
  <1>1. BagInv => EmptyHanded
    <2> SUFFICES ASSUME BagInv, pc[0] = "slotTest", ~haveSend PROVE Held \subseteq {NoProblem}
      BY OneThread DEF EmptyHanded
    <2>1. send = NoProblem /\ pq[0] = << >>
      BY DEF BagInv, SlotTold
    <2>2. ToSet(pq[0]) = {}
      BY <2>1 DEF ToSet
    <2> QED
      BY <2>1, <2>2, OneThread DEF Held, AddOwns
  <1> QED
    BY <1>1, BagInvariance, PTL

===============================================================================

----------------------------- MODULE ProblemQueue -----------------------------
(***************************************************************************)
(* The queue of open subproblems of the branch-and-reduce solver            *)
(* (lib/algorithms/multicut/problem_queues/per_thread_problem_queue.h): a   *)
(* priority queue per worker thread, each under its pop_mutex, and one slot *)
(* for the problem that an idle worker or another rank is to take next.     *)
(* A step is what a thread does between two accesses to words that other    *)
(* threads may touch.                                                       *)
(***************************************************************************)
EXTENDS Integers, Sequences, SequencesExt

CONSTANTS
    T,         \* num_threads
    Problems,  \* the subproblems that get added, each of them once
    LB,        \* their lower_bound
    Key,       \* what the chosen comparison orders a queue by; the top has the least
    Inf,       \* UNDEFINED_FLOW
    Bounds,    \* the values global_upper_bound may have
    Calls,     \* bound: how often a thread pulls or prepares
    NoProblem  \* nullptr

Threads == 0 .. T - 1
Free == -1

ASSUME TAssumption == T \in Nat \ {0}
ASSUME ProblemAssumption ==
    /\ NoProblem \notin Problems
    /\ LB \in [Problems -> Nat]
    /\ Key \in [Problems -> Int]
    /\ Inf \in Nat /\ Bounds \subseteq Nat
    /\ \A p \in Problems : LB[p] < Inf
ASSUME CallsAssumption == Calls \in Nat

VARIABLES
    pq,                          \* the queues, in the order of insertion
    size, busy,                  \* sizes[i].first and sizes[i].second
    send, haveSend, sendWeight,  \* sendProblem, haveSendProblem, sendProblemWeight
    popLock, sendLock,           \* who holds pop_mutex[i] and send_problem_mutex
    pc, arg, prefer, target,     \* a running call: p, preferLocal or sending, min_index
    bound,                       \* prepareQueue's global_upper_bound
    calls,                       \* how often each thread has pulled or prepared
    fresh, pruned, pulled,       \* problems not added yet, cut off, how often each was pulled
    crashed                      \* pullProblem met a null problem: exit(1)

queues == <<pq, size, busy>>
slot   == <<send, haveSend, sendWeight>>
locks  == <<popLock, sendLock>>
locals == <<arg, prefer, target, bound, calls>>
fate   == <<fresh, pruned, pulled, crashed>>
vars   == <<queues, slot, locks, pc, locals, fate>>

\* Where a thread holds pop_mutex[min_index] during addProblem, and pop_mutex
\* of its own queue during pullProblem.
AddHolds  == {"test", "armLock", "arm", "armed", "compare", "swapLock", "swap",
              "unlockMoved", "unlockAgain", "unlockKept", "push", "leave"}
PullHolds == {"choose", "slotLock", "slotTest", "slotTake", "slotLeave", "prep"}
PCs == {"idle", "mark", "scan", "settle", "lock", "pullLock", "prepLock"} \cup AddHolds \cup PullHolds

Init ==
    /\ pq = [i \in Threads |-> << >>]
    /\ size = [i \in Threads |-> 0]
    /\ busy = [i \in Threads |-> FALSE]
    /\ send = NoProblem /\ haveSend = FALSE /\ sendWeight = Inf
    /\ popLock = [i \in Threads |-> Free] /\ sendLock = Free
    /\ pc = [t \in Threads |-> "idle"]
    /\ arg = [t \in Threads |-> NoProblem]
    /\ prefer = [t \in Threads |-> FALSE]
    /\ target = [t \in Threads |-> 0]
    /\ bound = [t \in Threads |-> 0]
    /\ calls = [t \in Threads |-> 0]
    /\ fresh = Problems /\ pruned = {} /\ pulled = [p \in Problems |-> 0]
    /\ crashed = FALSE

At(t, here) == ~crashed /\ pc[t] = here
Goto(t, to) == pc' = [pc EXCEPT ![t] = to]

\* mutex.lock() in thread t, and mutex.unlock(), which does not look at who calls it.
LockPop(t, i) == popLock[i] = Free /\ popLock' = [popLock EXCEPT ![i] = t]
UnlockPop(i)  == popLock' = [popLock EXCEPT ![i] = Free]
LockSend(t)   == sendLock = Free /\ sendLock' = t
UnlockSend    == sendLock' = Free

Top(q, k) == \A j \in DOMAIN q : Key[q[k]] <= Key[q[j]]

-----------------------------------------------------------------------------
(* addProblem(p, local_id, preferLocal)                                      *)

StartAdd(t) ==
    /\ At(t, "idle")
    /\ \E p \in fresh, b \in BOOLEAN :
          /\ fresh' = fresh \ {p}
          /\ arg' = [arg EXCEPT ![t] = p]
          /\ prefer' = [prefer EXCEPT ![t] = b]
    /\ Goto(t, "mark")
    /\ UNCHANGED <<queues, slot, locks, target, bound, calls, pruned, pulled, crashed>>

\* The thread's own entry counts one more while it looks for another queue.
MarkLocal(t) ==
    /\ At(t, "mark")
    /\ busy' = [busy EXCEPT ![t] = ~prefer[t]]
    /\ Goto(t, "scan")
    /\ UNCHANGED <<pq, size, slot, locks, locals, fate>>

Load(i) == size[i] + (IF busy[i] THEN 1 ELSE 0)

\* std::min_element: the first of the least loaded queues.
ScanSizes(t) ==
    /\ At(t, "scan")
    /\ \E i \in Threads :
          /\ \A j \in Threads : Load(i) <= Load(j) /\ (j < i => Load(i) < Load(j))
          /\ target' = [target EXCEPT ![t] = i]
    /\ Goto(t, "settle")
    /\ UNCHANGED <<queues, slot, locks, arg, prefer, bound, calls, fate>>

\* Take the mark back; on a tie the thread's own queue is preferred.
SettleTarget(t) ==
    /\ At(t, "settle")
    /\ busy' = IF prefer[t] THEN busy ELSE [busy EXCEPT ![t] = FALSE]
    /\ target' = IF prefer[t] /\ size[target[t]] = size[t]
                 THEN [target EXCEPT ![t] = t] ELSE target
    /\ Goto(t, "lock")
    /\ UNCHANGED <<pq, size, slot, locks, arg, prefer, bound, calls, fate>>

LockTarget(t) ==
    /\ At(t, "lock")
    /\ LockPop(t, target[t])
    /\ Goto(t, "test")
    /\ UNCHANGED <<queues, slot, sendLock, locals, fate>>

\* Mutant: the size grows before the slot is looked at.
SlotIsFree_Counts(t) ==
    /\ At(t, "test")
    /\ ~haveSend
    /\ size' = [size EXCEPT ![target[t]] = @ + 1]
    /\ Goto(t, "armLock")
    /\ UNCHANGED <<pq, busy, slot, locks, locals, fate>>

\* if (!haveSendProblem), read without send_problem_mutex.
SlotIsFree(t) ==
    /\ At(t, "test")
    /\ ~haveSend
    /\ Goto(t, "armLock")
    /\ UNCHANGED <<queues, slot, locks, locals, fate>>

SlotIsTaken(t) ==
    /\ At(t, "test")
    /\ haveSend
    /\ size' = [size EXCEPT ![target[t]] = @ + 1]
    /\ Goto(t, "compare")
    /\ UNCHANGED <<pq, busy, slot, locks, locals, fate>>

LockToArm(t) ==
    /\ At(t, "armLock")
    /\ LockSend(t)
    /\ Goto(t, "arm")
    /\ UNCHANGED <<queues, slot, popLock, locals, fate>>

Arm(t) ==
    /\ At(t, "arm")
    /\ send' = arg[t]
    /\ sendWeight' = LB[arg[t]]
    /\ haveSend' = TRUE
    /\ Goto(t, "armed")
    /\ UNCHANGED <<queues, locks, locals, fate>>

ArmLeaves(t) ==
    /\ At(t, "armed")
    /\ UnlockPop(target[t]) /\ UnlockSend
    /\ Goto(t, "idle")
    /\ UNCHANGED <<queues, slot, locals, fate>>

\* sendProblemWeight > p->lower_bound, again without the mutex.
Compare(t) ==
    /\ At(t, "compare")
    /\ Goto(t, IF sendWeight > LB[arg[t]] THEN "swapLock" ELSE "push")
    /\ UNCHANGED <<queues, slot, locks, locals, fate>>

LockToSwap(t) ==
    /\ At(t, "swapLock")
    /\ LockSend(t)
    /\ Goto(t, "swap")
    /\ UNCHANGED <<queues, slot, popLock, locals, fate>>

\* Mutant: the problem that was in the slot is not queued.
Swap_Overwrites(t) ==
    /\ At(t, "swap")
    /\ haveSend
    /\ pq' = [pq EXCEPT ![target[t]] = Append(@, arg[t])]
    /\ send' = arg[t]
    /\ sendWeight' = LB[arg[t]]
    /\ Goto(t, "unlockMoved")
    /\ UNCHANGED <<size, busy, haveSend, locks, locals, fate>>

\* Mutant: movedProblem is not set, so that p is queued as well.
Swap_NotMoved(t) ==
    /\ At(t, "swap")
    /\ haveSend
    /\ pq' = [pq EXCEPT ![target[t]] = Append(@, send)]
    /\ send' = arg[t]
    /\ sendWeight' = LB[arg[t]]
    /\ Goto(t, "unlockKept")
    /\ UNCHANGED <<size, busy, haveSend, locks, locals, fate>>

\* The better problem takes the slot, the one that was there is queued.
Swap(t) ==
    /\ At(t, "swap")
    /\ haveSend
    /\ pq' = [pq EXCEPT ![target[t]] = Append(@, send)]
    /\ send' = arg[t]
    /\ sendWeight' = LB[arg[t]]
    /\ Goto(t, "unlockMoved")
    /\ UNCHANGED <<size, busy, haveSend, locks, locals, fate>>

SwapFindsNothing(t) ==
    /\ At(t, "swap")
    /\ ~haveSend
    /\ Goto(t, "unlockKept")
    /\ UNCHANGED <<queues, slot, locks, locals, fate>>

\* After a swap the mutex is unlocked twice: inside the branch ...
UnlockMoved(t) ==
    /\ At(t, "unlockMoved")
    /\ UnlockSend
    /\ Goto(t, "unlockAgain")
    /\ UNCHANGED <<queues, slot, popLock, locals, fate>>

\* ... and behind it, whoever holds it by then.
UnlockAgain(t) ==
    /\ At(t, "unlockAgain")
    /\ UnlockSend
    /\ Goto(t, "leave")
    /\ UNCHANGED <<queues, slot, popLock, locals, fate>>

\* Mutant: the second unlock is gone, for the path that needs it too.
UnlockKept_Forgotten(t) ==
    /\ At(t, "unlockKept")
    /\ Goto(t, "push")
    /\ UNCHANGED <<queues, slot, locks, locals, fate>>

UnlockKept(t) ==
    /\ At(t, "unlockKept")
    /\ UnlockSend
    /\ Goto(t, "push")
    /\ UNCHANGED <<queues, slot, popLock, locals, fate>>

Push(t) ==
    /\ At(t, "push")
    /\ pq' = [pq EXCEPT ![target[t]] = Append(@, arg[t])]
    /\ Goto(t, "leave")
    /\ UNCHANGED <<size, busy, slot, locks, locals, fate>>

AddLeaves(t) ==
    /\ At(t, "leave")
    /\ UnlockPop(target[t])
    /\ Goto(t, "idle")
    /\ UNCHANGED <<queues, slot, sendLock, locals, fate>>

-----------------------------------------------------------------------------
(* pullProblem(local_id, sending)                                            *)

CountCall(t) ==
    /\ calls[t] < Calls
    /\ calls' = [calls EXCEPT ![t] = @ + 1]

\* Only thread 0 pulls to send; prefer holds the argument sending meanwhile.
StartPull(t) ==
    /\ At(t, "idle")
    /\ CountCall(t)
    /\ \E b \in IF t = 0 THEN BOOLEAN ELSE {FALSE} : prefer' = [prefer EXCEPT ![t] = b]
    /\ Goto(t, "pullLock")
    /\ UNCHANGED <<queues, slot, locks, arg, target, bound, fate>>

LockOwn(t) ==
    /\ At(t, "pullLock")
    /\ LockPop(t, t)
    /\ Goto(t, "choose")
    /\ UNCHANGED <<queues, slot, sendLock, locals, fate>>

\* Mutant: a caller that sends is always served from the slot.
FromSlot_Sending(t) == prefer[t] \/ pq[t] = << >>

FromSlot(t) == (prefer[t] /\ haveSend) \/ pq[t] = << >>

\* The top of the thread's own queue, and both mutexes left alone but pop_mutex.
PullOwn(t) ==
    /\ At(t, "choose")
    /\ ~FromSlot(t)
    /\ \E k \in DOMAIN pq[t] :
          /\ Top(pq[t], k)
          /\ pq' = [pq EXCEPT ![t] = RemoveAt(@, k)]
          /\ pulled' = [pulled EXCEPT ![pq[t][k]] = @ + 1]
    /\ size' = [size EXCEPT ![t] = @ - 1]
    /\ busy' = [busy EXCEPT ![t] = TRUE]
    /\ UnlockPop(t)
    /\ Goto(t, "idle")
    /\ UNCHANGED <<slot, sendLock, locals, fresh, pruned, crashed>>

ChooseSlot(t) ==
    /\ At(t, "choose")
    /\ FromSlot(t)
    /\ Goto(t, "slotLock")
    /\ UNCHANGED <<queues, slot, locks, locals, fate>>

LockSlot(t) ==
    /\ At(t, "slotLock")
    /\ LockSend(t)
    /\ Goto(t, "slotTest")
    /\ UNCHANGED <<queues, slot, popLock, locals, fate>>

SlotEmpty(t) ==
    /\ At(t, "slotTest")
    /\ ~haveSend
    /\ UnlockSend /\ UnlockPop(t)
    /\ Goto(t, "idle")
    /\ UNCHANGED <<queues, slot, locals, fate>>

\* Mutant: haveSendProblem stays set.
ClaimSlot_StaysSet(t) ==
    /\ At(t, "slotTest")
    /\ haveSend
    /\ sendWeight' = Inf
    /\ Goto(t, "slotTake")
    /\ UNCHANGED <<queues, send, haveSend, locks, locals, fate>>

ClaimSlot(t) ==
    /\ At(t, "slotTest")
    /\ haveSend
    /\ haveSend' = FALSE
    /\ sendWeight' = Inf
    /\ Goto(t, "slotTake")
    /\ UNCHANGED <<queues, send, locks, locals, fate>>

\* currentProblem = sendProblem; sendProblem = nullptr
TakeSlot(t) ==
    /\ At(t, "slotTake")
    /\ arg' = [arg EXCEPT ![t] = send]
    /\ send' = NoProblem
    /\ Goto(t, "slotLeave")
    /\ UNCHANGED <<queues, haveSend, sendWeight, locks, prefer, target, bound, calls, fate>>

\* Both mutexes are released; a null problem ends the process.
SlotLeaves(t) ==
    /\ At(t, "slotLeave")
    /\ UnlockSend /\ UnlockPop(t)
    /\ crashed' = (arg[t] = NoProblem)
    /\ pulled' = IF arg[t] = NoProblem THEN pulled ELSE [pulled EXCEPT ![arg[t]] = @ + 1]
    /\ Goto(t, "idle")
    /\ UNCHANGED <<queues, slot, locals, fresh, pruned>>

-----------------------------------------------------------------------------
(* prepareQueue(local_id, global_upper_bound): drop the problems at the top   *)
(* that cannot improve on the bound.                                          *)

StartPrepare(t) ==
    /\ At(t, "idle")
    /\ CountCall(t)
    /\ \E b \in Bounds : bound' = [bound EXCEPT ![t] = b]
    /\ Goto(t, "prepLock")
    /\ UNCHANGED <<queues, slot, locks, arg, prefer, target, fate>>

LockToPrepare(t) ==
    /\ At(t, "prepLock")
    /\ LockPop(t, t)
    /\ Goto(t, "prep")
    /\ UNCHANGED <<queues, slot, sendLock, locals, fate>>

\* Problem k is on top of the queue and can only lead to cuts of bound or more.
Hopeless(t, k) == Top(pq[t], k) /\ LB[pq[t][k]] >= bound[t]

PopHopeless(t) ==
    /\ At(t, "prep")
    /\ \E k \in DOMAIN pq[t] :
          /\ Hopeless(t, k)
          /\ pq' = [pq EXCEPT ![t] = RemoveAt(@, k)]
          /\ pruned' = pruned \cup {pq[t][k]}
    /\ size' = [size EXCEPT ![t] = @ - 1]
    /\ busy' = [busy EXCEPT ![t] = TRUE]
    /\ UNCHANGED <<slot, locks, pc, locals, fresh, pulled, crashed>>

PrepareLeaves(t) ==
    /\ At(t, "prep")
    /\ \/ pq[t] = << >>
       \/ \E k \in DOMAIN pq[t] : Top(pq[t], k) /\ ~Hopeless(t, k)
    /\ UnlockPop(t)
    /\ Goto(t, "idle")
    /\ UNCHANGED <<queues, slot, sendLock, locals, fate>>

-----------------------------------------------------------------------------

AddStep(t) ==
    \/ StartAdd(t) \/ MarkLocal(t) \/ ScanSizes(t) \/ SettleTarget(t) \/ LockTarget(t)
    \/ SlotIsFree(t) \/ SlotIsTaken(t)
    \/ LockToArm(t) \/ Arm(t) \/ ArmLeaves(t)
    \/ Compare(t) \/ LockToSwap(t) \/ Swap(t) \/ SwapFindsNothing(t)
    \/ UnlockMoved(t) \/ UnlockAgain(t) \/ UnlockKept(t)
    \/ Push(t) \/ AddLeaves(t)

PullStep(t) ==
    \/ StartPull(t) \/ LockOwn(t) \/ PullOwn(t) \/ ChooseSlot(t) \/ LockSlot(t)
    \/ SlotEmpty(t) \/ ClaimSlot(t) \/ TakeSlot(t) \/ SlotLeaves(t)

PrepareStep(t) ==
    StartPrepare(t) \/ LockToPrepare(t) \/ PopHopeless(t) \/ PrepareLeaves(t)

Step(t) == AddStep(t) \/ PullStep(t) \/ PrepareStep(t)

\* The callers are through, or the process has ended.
Over ==
    \/ crashed
    \/ /\ fresh = {}
       /\ \A t \in Threads : pc[t] = "idle" /\ calls[t] = Calls

Rest == Over /\ UNCHANGED vars

Next == (\E t \in Threads : Step(t)) \/ Rest

Spec == Init /\ [][Next]_vars

\* A worker thread keeps running; a mutex that stays free is taken in the end.
FairSpec == Spec /\ \A t \in Threads : WF_vars(Step(t))
-----------------------------------------------------------------------------

\* Where a call is the owner of the problem in arg.
AddOwns == {"mark", "scan", "settle", "lock", "test", "armLock", "arm", "compare",
            "swapLock", "swap", "unlockKept", "push"}

\* Problems that some queue, the slot or a running call still has.
Held ==
    (UNION {ToSet(pq[i]) : i \in Threads})
    \cup {send}
    \cup {arg[t] : t \in {u \in Threads : pc[u] \in AddOwns \cup {"slotLeave"}}}

\* Sizes, which all_empty and the choice of a queue read without a lock, are
\* the lengths of the queues whenever no call is at work on the queue.
SizesAgree == \A i \in Threads : popLock[i] = Free => size[i] = Len(pq[i])

\* Every problem that was added is still held, or was pulled, or was cut off
\* by a bound it cannot beat: none is lost.
NothingLost ==
    \A p \in Problems \ fresh : p \in Held \/ pulled[p] > 0 \/ p \in pruned

\* No problem is handed out twice.
NothingTwice == \A p \in Problems : pulled[p] <= 1

\* pullProblem never returns a null problem, as its own check and the one in
\* branch_multicut.h say ("This should not happen!").
NoNullProblem == ~crashed

\* pullProblem says that there is nothing only when there is nothing.
EmptyHanded ==
    \A t \in Threads : At(t, "slotTest") /\ ~haveSend => Held \subseteq {NoProblem}

\* No deadlock and no lost unlock: every call of addProblem, pullProblem and
\* prepareQueue returns, whichever of the two mutexes it stops at.
CallsReturn == <>Over
=============================================================================

---------------------------- MODULE MulticutSearch ----------------------------
(***************************************************************************)
(* The branch-and-reduce search for a minimum multiterminal cut on one      *)
(* rank: the worker loop pollWork and solveProblem (branch_multicut.h) over *)
(* the state that problem_management.h keeps for all workers.              *)
(*                                                                         *)
(* The search tree is a constant: what flows, kernelization and branching   *)
(* make of a graph is abstracted to the bounds they compute.  The queue is  *)
(* taken with whole calls as steps (ProblemQueue has their interior); the   *)
(* incumbent, the idle counter and the test for the end are read and        *)
(* written word by word, as no lock covers them.                            *)
(***************************************************************************)
EXTENDS Integers, FiniteSets

CONSTANTS
    T,         \* num_threads; worker t is thread t
    Problems,  \* the subproblems of the search tree
    Root,
    Children,  \* what branching makes of a problem; the empty set: it is solved
    Direct,    \* the leaves that processNewProblem solves without queueing them
    Under,     \* the leaves below each problem
    LB,        \* lower_bound
    Value,     \* upper_bound: the value of the cut that the flows of a problem give
    Polished,  \* the value of that cut after local search
    Terms,     \* the number of terminals of each problem
    Key,       \* what the comparison of the queue orders by
    Inf,       \* UNDEFINED_FLOW
    MpiInf,    \* UNDEFINED_NODE, the first best_solution of mpi_communication
    NoProblem

Workers == 0 .. T - 1
Main    == T                       \* the thread that started the workers
Actors  == 0 .. T
Leaves  == {p \in Problems : Children[p] = {}}

ASSUME TAssumption == T \in Nat \ {0}
ASSUME TreeAssumption ==
    /\ NoProblem \notin Problems
    /\ Root \in Problems
    /\ Children \in [Problems -> SUBSET Problems]
    /\ Direct \subseteq Leaves /\ Root \notin Direct
    /\ Under \in [Problems -> SUBSET Leaves]
    /\ \A p \in Leaves : Under[p] = {p}
    /\ \A p \in Problems \ Leaves : Under[p] = UNION {Under[c] : c \in Children[p]}
    /\ Under[Root] = Leaves

\* What flows and kernelization promise: no cut below p is lighter than LB[p].
ASSUME BoundsAssumption ==
    /\ LB \in [Problems -> Nat]
    /\ Value \in [Problems -> Nat] /\ Polished \in [Problems -> Nat]
    /\ Key \in [Problems -> Int] /\ Terms \in [Problems -> Nat]
    /\ Inf \in Nat /\ MpiInf \in 0 .. Inf
    /\ \A p \in Problems : Polished[p] <= Value[p] /\ Value[p] < Inf
    /\ \A p \in Problems : \A l \in Under[p] : LB[p] <= Value[l]

\* The weights of cuts are below 2^32 - 1, where mpi_communication starts.
CutsFit == \A p \in Problems : Value[p] < MpiInf

VARIABLES
    queue, slot,       \* the problems each worker has queued, and sendProblem
    gub,               \* global_upper_bound
    best, init,        \* the value of best_solution; bestSolutionInitialized
    before, after,     \* beforeLSGUB, terminalGUB: per number of terminals
    lastSent,          \* last_sent_flow
    mpiBest,           \* the bound that mpi_communication remembers
    idle, finished,    \* idle_threads, is_finished
    mpiLock,           \* whether mpi_mutex is held
    pc,
    cur, kids,         \* the problem in work, and its children not yet processed
    offer, caller,     \* findBestSolution's argument, and the function that calls it
    tmp, index,        \* the bound prepareQueue or updateBound works with, size()'s loop
    found              \* history: the values of all cuts computed so far

bounds    == <<before, after, lastSent, mpiBest>>
incumbent == <<gub, best, init, bounds>>
ending    == <<idle, finished, mpiLock>>
work      == <<cur, kids>>
locals    == <<offer, caller, tmp, index>>
vars == <<queue, slot, incumbent, ending, pc, work, locals, found>>

IdlePC  == {"count", "empty", "finish", "wait", "leave"}
OfferPC == {"offer", "compare", "bound1", "copy1", "polish", "recordAfter", "recordBefore",
            "again", "bound2", "copy2", "share", "sendCut"}
PCs == {"poll", "cast", "sendLast", "prepare", "prune", "look", "refresh", "store", "pull",
        "solve", "child", "idle", "gone"} \cup IdlePC \cup OfferPC

Ks == {Terms[p] : p \in Problems}

\* find_multiterminal_cut: the root is queued and its bound known before the
\* workers start; the main thread then offers the cut of the root's flows.
Init ==
    /\ queue = [t \in Workers |-> {}] /\ slot = Root
    /\ gub = Value[Root]
    /\ best = Inf /\ init = FALSE
    /\ before = [k \in Ks |-> Inf] /\ after = [k \in Ks |-> Inf]
    /\ lastSent = Inf /\ mpiBest = MpiInf
    /\ idle = 0 /\ finished = FALSE /\ mpiLock = FALSE
    /\ pc = [t \in Actors |-> IF t = Main THEN "offer" ELSE "poll"]
    /\ cur = [t \in Actors |-> NoProblem]
    /\ kids = [t \in Actors |-> {}]
    /\ offer = [t \in Actors |-> Root] /\ caller = [t \in Actors |-> "update"]
    /\ tmp = [t \in Actors |-> 0] /\ index = [t \in Actors |-> 0]
    /\ found = {Value[Root]}

At(t, here) == pc[t] = here
Goto(t, to) == pc' = [pc EXCEPT ![t] = to]
Least(a, b) == IF a <= b THEN a ELSE b

-----------------------------------------------------------------------------
(* pollWork: look for work.                                                  *)

Poll(t) ==
    /\ At(t, "poll")
    /\ Goto(t, IF finished THEN "gone" ELSE "cast")
    /\ UNCHANGED <<queue, slot, incumbent, ending, work, locals, found>>

\* An improvement is announced once; last_sent_flow is tested and set in one step
\* here, as it only decides which of two announcements is made.
Cast(t) ==
    /\ At(t, "cast")
    /\ IF lastSent > gub
       THEN lastSent' = gub /\ Goto(t, "sendLast")
       ELSE lastSent' = lastSent /\ Goto(t, "prepare")
    /\ UNCHANGED <<queue, slot, gub, best, init, before, after, mpiBest, ending, work,
                   locals, found>>

\* broadcastImprovedSolution: the compare-and-swap fails if another thread's came
\* in between, and the value is dropped then.
Broadcast(v) == mpiBest' \in {mpiBest, Least(mpiBest, v)}

SendLast(t) ==
    /\ At(t, "sendLast")
    /\ Broadcast(lastSent)
    /\ Goto(t, "prepare")
    /\ UNCHANGED <<queue, slot, gub, best, init, before, after, lastSent, ending, work,
                   locals, found>>

\* Mutant: a problem that may still be better by one is cut off.
Hopeless_OffByOne(p, b) == LB[p] + 1 >= b

Hopeless(p, b) == LB[p] >= b
IsTop(p, Q) == p \in Q /\ \A x \in Q : Key[p] <= Key[x]

\* prepareQueue takes the bound by value ...
Prepare(t) ==
    /\ At(t, "prepare")
    /\ tmp' = [tmp EXCEPT ![t] = gub]
    /\ Goto(t, "prune")
    /\ UNCHANGED <<queue, slot, incumbent, ending, work, offer, caller, index, found>>

\* ... and pops while the top of the queue cannot improve on that value.
Prune(t) ==
    /\ At(t, "prune")
    /\ \E p \in queue[t] :
          /\ IsTop(p, queue[t]) /\ Hopeless(p, tmp[t])
          /\ queue' = [queue EXCEPT ![t] = @ \ {p}]
    /\ UNCHANGED <<slot, incumbent, ending, pc, work, locals, found>>

Prepared(t) ==
    /\ At(t, "prune")
    /\ queue[t] = {} \/ \E p \in queue[t] : IsTop(p, queue[t]) /\ ~Hopeless(p, tmp[t])
    /\ Goto(t, "look")
    /\ UNCHANGED <<queue, slot, incumbent, ending, work, locals, found>>

\* !queueEmpty(thread_id) || haveASendProblem()
Look(t) ==
    /\ At(t, "look")
    /\ Goto(t, IF queue[t] = {} /\ slot = NoProblem THEN "idle"
               ELSE IF t = 0 THEN "refresh" ELSE "pull")
    /\ UNCHANGED <<queue, slot, incumbent, ending, work, locals, found>>

\* updateBound: the minimum is computed from one load of the bound ...
Refresh(t) ==
    /\ At(t, "refresh")
    /\ tmp' = [tmp EXCEPT ![t] = Least(mpiBest, gub)]
    /\ Goto(t, "store")
    /\ UNCHANGED <<queue, slot, incumbent, ending, work, offer, caller, index, found>>

\* ... and stored later.
Store(t) ==
    /\ At(t, "store")
    /\ gub' = tmp[t]
    /\ Goto(t, "pull")
    /\ UNCHANGED <<queue, slot, best, init, bounds, ending, work, locals, found>>

PullOwn(t) ==
    /\ At(t, "pull")
    /\ \E p \in queue[t] :
          /\ IsTop(p, queue[t])
          /\ queue' = [queue EXCEPT ![t] = @ \ {p}]
          /\ cur' = [cur EXCEPT ![t] = p]
    /\ Goto(t, "solve")
    /\ UNCHANGED <<slot, incumbent, ending, kids, locals, found>>

PullSlot(t) ==
    /\ At(t, "pull")
    /\ queue[t] = {} /\ slot # NoProblem
    /\ cur' = [cur EXCEPT ![t] = slot]
    /\ slot' = NoProblem
    /\ Goto(t, "solve")
    /\ UNCHANGED <<queue, incumbent, ending, kids, locals, found>>

\* Another worker was faster.
PullNothing(t) ==
    /\ At(t, "pull")
    /\ queue[t] = {} /\ slot = NoProblem
    /\ Goto(t, "poll")
    /\ UNCHANGED <<queue, slot, incumbent, ending, work, locals, found>>

-----------------------------------------------------------------------------
(* solveProblem and branch                                                   *)

\* checkProblem fails, or the weight deleted by kernelization exceeds the bound.
CutOff(t) ==
    /\ At(t, "solve")
    /\ Hopeless(cur[t], gub)
    /\ cur' = [cur EXCEPT ![t] = NoProblem]
    /\ Goto(t, "poll")
    /\ UNCHANGED <<queue, slot, incumbent, ending, kids, locals, found>>

\* No edge is left: the cut of the problem is a solution.
Solved(t) ==
    /\ At(t, "solve")
    /\ ~Hopeless(cur[t], gub) /\ Children[cur[t]] = {}
    /\ offer' = [offer EXCEPT ![t] = cur[t]] /\ caller' = [caller EXCEPT ![t] = "update"]
    /\ found' = found \cup {Value[cur[t]]}
    /\ cur' = [cur EXCEPT ![t] = NoProblem]
    /\ Goto(t, "offer")
    /\ UNCHANGED <<queue, slot, incumbent, ending, kids, tmp, index>>

Branch(t) ==
    /\ At(t, "solve")
    /\ ~Hopeless(cur[t], gub) /\ Children[cur[t]] # {}
    /\ kids' = [kids EXCEPT ![t] = Children[cur[t]]]
    /\ cur' = [cur EXCEPT ![t] = NoProblem]
    /\ Goto(t, "child")
    /\ UNCHANGED <<queue, slot, incumbent, ending, locals, found>>

\* runLocalSearch: the cut of c is looked at only if no cut of a problem with
\* as many terminals was as light before local search.
Promising(c) == Value[c] < before[Terms[c]]

\* What follows the processing of child c: its cut is offered, or not.
AfterChild(t, c) ==
    IF Promising(c)
    THEN /\ offer' = [offer EXCEPT ![t] = c] /\ caller' = [caller EXCEPT ![t] = "process"]
         /\ found' = found \cup {Value[c]}
         /\ Goto(t, "offer")
    ELSE UNCHANGED <<offer, caller, found, pc>>

\* The next child of the problem in work: multiBranch makes one for each terminal that
\* the vertex may join, singleBranch one without the edge, which it skips if that is
\* hopeless, and then one with the edge contracted. Any order.
Took(t, c) ==
    /\ At(t, "child")
    /\ c \in kids[t]
    /\ kids' = [kids EXCEPT ![t] = @ \ {c}]

\* processNewProblem, for a child with fewer than three terminals or no edges.
ChildSolved(t) ==
    /\ \E c \in Direct : Took(t, c) /\ AfterChild(t, c)
    /\ UNCHANGED <<queue, slot, incumbent, ending, cur, tmp, index>>

ChildCutOff(t) ==
    /\ \E c \in Problems \ Direct : Took(t, c) /\ Hopeless(c, gub)
    /\ UNCHANGED <<queue, slot, incumbent, ending, pc, cur, locals, found>>

\* problems.addProblem: into the slot if it is free; otherwise into a queue,
\* unless the problem in the slot is worse and goes there instead.
Enqueue(t, c) ==
    IF slot = NoProblem THEN slot' = c /\ UNCHANGED queue
    ELSE \E i \in Workers :
            IF LB[slot] > LB[c]
            THEN slot' = c /\ queue' = [queue EXCEPT ![i] = @ \cup {slot}]
            ELSE queue' = [queue EXCEPT ![i] = @ \cup {c}] /\ UNCHANGED slot

ChildQueued(t) ==
    /\ \E c \in Problems \ Direct :
          /\ Took(t, c)
          /\ ~Hopeless(c, gub)
          /\ Enqueue(t, c)
          /\ AfterChild(t, c)
    /\ UNCHANGED <<incumbent, ending, cur, tmp, index>>

Branched(t) ==
    /\ At(t, "child")
    /\ kids[t] = {}
    /\ Goto(t, "poll")
    /\ UNCHANGED <<queue, slot, incumbent, ending, work, locals, found>>

-----------------------------------------------------------------------------
(* findBestSolution and updateBestSolution                                   *)

prevGub(t) == Value[offer[t]]
lsBound(t) == Polished[offer[t]]
terms(t)   == Terms[offer[t]]

\* Mutant: a better cut ends the loop over the children.
Resume_Returns(t) == Goto(t, IF t = Main THEN "gone" ELSE "poll")

\* Return: a worker goes on with the next child (processNewProblem) or with its
\* loop (updateBestSolution); the main thread joins the workers.
Resume(t) ==
    Goto(t, IF caller[t] = "process" THEN "child" ELSE IF t = Main THEN "gone" ELSE "poll")

\* A cut worse than beforeLSGUB is dropped ...
Offer(t) ==
    /\ At(t, "offer")
    /\ IF prevGub(t) > before[terms(t)] THEN Resume(t) ELSE Goto(t, "compare")
    /\ UNCHANGED <<queue, slot, incumbent, ending, work, locals, found>>

\* ... and one that is better than the bound replaces it.
Compare(t) ==
    /\ At(t, "compare")
    /\ Goto(t, IF prevGub(t) < gub THEN "bound1" ELSE "polish")
    /\ UNCHANGED <<queue, slot, incumbent, ending, work, locals, found>>

SetBound(t, v) ==
    /\ gub' = v
    /\ UNCHANGED <<queue, slot, best, init, bounds, ending, work, locals, found>>

\* Copying the solution is one step: bestsol_mutex is held.
CopySolution(t, v) ==
    /\ best' = v /\ init' = TRUE
    /\ UNCHANGED <<queue, slot, gub, bounds, ending, work, locals, found>>

Bound1(t) == At(t, "bound1") /\ SetBound(t, prevGub(t)) /\ Goto(t, "copy1")
Copy1(t)  == At(t, "copy1") /\ CopySolution(t, prevGub(t)) /\ Goto(t, "polish")

\* Local search, and the test whether it led to the best cut of its kind.
Polish(t) ==
    /\ At(t, "polish")
    /\ found' = found \cup {lsBound(t)}
    /\ Goto(t, IF lsBound(t) <= after[terms(t)] THEN "recordAfter" ELSE "again")
    /\ UNCHANGED <<queue, slot, incumbent, ending, work, locals>>

RecordAfter(t) ==
    /\ At(t, "recordAfter")
    /\ after' = [after EXCEPT ![terms(t)] = lsBound(t)]
    /\ Goto(t, "recordBefore")
    /\ UNCHANGED <<queue, slot, gub, best, init, before, lastSent, mpiBest, ending, work,
                   locals, found>>

RecordBefore(t) ==
    /\ At(t, "recordBefore")
    /\ before' = [before EXCEPT ![terms(t)] = prevGub(t)]
    /\ Goto(t, "again")
    /\ UNCHANGED <<queue, slot, gub, best, init, after, lastSent, mpiBest, ending, work,
                   locals, found>>

\* ls_bound < global_upper_bound || !bestSolutionInitialized
Again(t) ==
    /\ At(t, "again")
    /\ IF lsBound(t) < gub \/ ~init THEN Goto(t, "bound2") ELSE Resume(t)
    /\ UNCHANGED <<queue, slot, incumbent, ending, work, locals, found>>

\* Mutant: the improvement is subtracted twice.
Bound2_Twice(t) ==
    /\ At(t, "bound2")
    /\ SetBound(t, 2 * lsBound(t) - prevGub(t))
    /\ Goto(t, "copy2")

Bound2(t) == At(t, "bound2") /\ SetBound(t, lsBound(t)) /\ Goto(t, "copy2")

Copy2(t) ==
    /\ At(t, "copy2")
    /\ CopySolution(t, lsBound(t))
    /\ IF caller[t] = "update" THEN Goto(t, "share") ELSE Resume(t)

\* updateBestSolution announces what findBestSolution returned.
Share(t) ==
    /\ At(t, "share")
    /\ IF lastSent > gub
       THEN lastSent' = gub /\ Goto(t, "sendCut")
       ELSE lastSent' = lastSent /\ Resume(t)
    /\ UNCHANGED <<queue, slot, gub, best, init, before, after, mpiBest, ending, work,
                   locals, found>>

SendCut(t) ==
    /\ At(t, "sendCut")
    /\ Broadcast(lsBound(t))
    /\ Resume(t)
    /\ UNCHANGED <<queue, slot, gub, best, init, before, after, lastSent, ending, work,
                   locals, found>>

-----------------------------------------------------------------------------
(* pollWork: nothing to do.                                                  *)

BecomeIdle(t) ==
    /\ At(t, "idle")
    /\ idle' = idle + 1
    /\ Goto(t, "count")
    /\ UNCHANGED <<queue, slot, incumbent, finished, mpiLock, work, locals, found>>

\* allThreadsIdle()
AllIdle(t) ==
    /\ At(t, "count")
    /\ idle = T
    /\ index' = [index EXCEPT ![t] = 0]
    /\ Goto(t, "empty")
    /\ UNCHANGED <<queue, slot, incumbent, ending, work, offer, caller, tmp, found>>

SomeoneWorks(t) ==
    /\ At(t, "count")
    /\ idle # T
    /\ Goto(t, "wait")
    /\ UNCHANGED <<queue, slot, incumbent, ending, work, locals, found>>

\* allEmpty() adds up the sizes one by one and then looks at the slot.
SizeIsZero(t) ==
    /\ At(t, "empty")
    /\ index[t] \in Workers /\ queue[index[t]] = {}
    /\ index' = [index EXCEPT ![t] = @ + 1]
    /\ UNCHANGED <<queue, slot, incumbent, ending, pc, work, offer, caller, tmp, found>>

AllEmpty(t) ==
    /\ At(t, "empty")
    /\ index[t] = T /\ slot = NoProblem
    /\ Goto(t, "finish")
    /\ UNCHANGED <<queue, slot, incumbent, ending, work, locals, found>>

NotEmpty(t) ==
    /\ At(t, "empty")
    /\ IF index[t] = T THEN slot # NoProblem ELSE queue[index[t]] # {}
    /\ Goto(t, "wait")
    /\ UNCHANGED <<queue, slot, incumbent, ending, work, locals, found>>

\* Mutant: the end is not announced and the worker goes on.
Finish_NotSet(t) ==
    /\ At(t, "finish")
    /\ ~mpiLock
    /\ mpiLock' = TRUE
    /\ Goto(t, "wait")
    /\ UNCHANGED <<queue, slot, incumbent, idle, finished, work, locals, found>>

\* mpi_mutex.try_lock succeeds; with one rank waitForProblem says at once that
\* all are done.  The worker returns with the mutex held and idle_threads raised.
Finish(t) ==
    /\ At(t, "finish")
    /\ ~mpiLock
    /\ mpiLock' = TRUE
    /\ finished' = TRUE
    /\ Goto(t, "gone")
    /\ UNCHANGED <<queue, slot, incumbent, idle, work, locals, found>>

TryLockFails(t) ==
    /\ At(t, "finish")
    /\ mpiLock
    /\ Goto(t, "wait")
    /\ UNCHANGED <<queue, slot, incumbent, ending, work, locals, found>>

\* waitForProblem: the wait ends by a notification or after a second.
Wake(t) ==
    /\ At(t, "wait")
    /\ Goto(t, "leave")
    /\ UNCHANGED <<queue, slot, incumbent, ending, work, locals, found>>

LeaveIdle(t) ==
    /\ At(t, "leave")
    /\ idle' = idle - 1
    /\ Goto(t, "poll")
    /\ UNCHANGED <<queue, slot, incumbent, finished, mpiLock, work, locals, found>>

-----------------------------------------------------------------------------

LookStep(t) ==
    \/ Poll(t) \/ Cast(t) \/ SendLast(t) \/ Prepare(t) \/ Prune(t) \/ Prepared(t)
    \/ Look(t) \/ Refresh(t) \/ Store(t) \/ PullOwn(t) \/ PullSlot(t) \/ PullNothing(t)

SolveStep(t) ==
    \/ CutOff(t) \/ Solved(t) \/ Branch(t)
    \/ ChildSolved(t) \/ ChildCutOff(t) \/ ChildQueued(t) \/ Branched(t)

OfferStep(t) ==
    \/ Offer(t) \/ Compare(t) \/ Bound1(t) \/ Copy1(t) \/ Polish(t)
    \/ RecordAfter(t) \/ RecordBefore(t) \/ Again(t) \/ Bound2(t) \/ Copy2(t) \/ Share(t) \/ SendCut(t)

IdleStep(t) ==
    \/ BecomeIdle(t) \/ AllIdle(t) \/ SomeoneWorks(t)
    \/ SizeIsZero(t) \/ AllEmpty(t) \/ NotEmpty(t)
    \/ Finish(t) \/ TryLockFails(t) \/ Wake(t) \/ LeaveIdle(t)

Step(t) == OfferStep(t) \/ (t \in Workers /\ (LookStep(t) \/ SolveStep(t) \/ IdleStep(t)))

AllGone == \A t \in Actors : At(t, "gone")

Joined == AllGone /\ UNCHANGED vars

Next == (\E t \in Actors : Step(t)) \/ Joined

Spec == Init /\ [][Next]_vars

\* Threads keep running.
FairSpec == Spec /\ \A t \in Actors : WF_vars(Step(t))

-----------------------------------------------------------------------------

\* The problems that still have to be solved.
Open ==
    (UNION {queue[t] : t \in Workers})
    \cup (UNION {kids[t] : t \in Actors})
    \cup (({slot} \cup {cur[t] : t \in Actors}) \ {NoProblem})

\* No cut is ever given up for a bound that nobody has reached: each leaf of
\* the tree is below an open problem, or a cut as light as it was computed.
\* Holds for any number of workers, whatever races for the bound do.
OptimumSafe ==
    \A l \in Leaves :
        \/ \E p \in Open : l \in Under[p]
        \/ \E v \in found : v <= Value[l]

\* The bound, its copies and the local-search bounds are values of computed cuts.
BoundsAreCuts ==
    /\ gub \in found
    /\ mpiBest \in found \cup {MpiInf} /\ lastSent \in found \cup {Inf}
    /\ \A k \in Ks : {before[k], after[k]} \subseteq found \cup {Inf}

\* The workers stop only when no problem is left.
NoEarlyFinish == finished => Open = {}

\* When all threads are joined the solution is as light as any cut that was
\* computed. The assertion that follows in find_multiterminal_cut and README.md:163
\* say so; the offers of the main thread and of the only worker race for it.
AnswerIsLightest == AllGone => \A v \in found : best <= v

\* The search comes to an end and all threads are joined.
SearchEnds == <>AllGone
=============================================================================

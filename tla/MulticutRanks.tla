----------------------------- MODULE MulticutRanks -----------------------------
(***************************************************************************)
(* The multiterminal cut search on several MPI ranks: how ranks steal      *)
(* subproblems, tell each other better bounds, find out that all of them   *)
(* are idle, and elect the rank whose solution is returned                 *)
(* (mpi_communication.h, and pollWork, multiBranch and                     *)
(* find_multiterminal_cut where they call it).                             *)
(*                                                                         *)
(* Each rank has one worker, thread 0, the only one that talks to other    *)
(* ranks, but for the main thread of rank 0: it offers the cut of the      *)
(* root's flows and announces it while the worker is at work.  The bound,  *)
(* the solution, the tables and the flags that the two share are read and  *)
(* written word by word, as in MulticutSearch, but for prepareQueue.  MPI  *)
(* keeps the order of the messages of one sender with one tag; a probe may *)
(* miss a message that is still on its way, a receive waits for it.        *)
(***************************************************************************)
EXTENDS Integers, FiniteSets, Sequences, FiniteSetsExt

CONSTANTS
    M,         \* mpi_size
    Problems, Root,
    Children,  \* what branching makes of a problem; the empty set: it is solved
    Direct,    \* those that need no branching once their flows are known
    Under,     \* the leaves below each problem
    LB,        \* lower_bound
    Value,     \* upper_bound: the value of the cut that the flows of a problem give
    Polished,  \* the value of that cut after local search
    Terms,     \* the number of terminals of each problem
    Inf,       \* above every value: UNDEFINED_FLOW, and the first best_solution
    NoProblem

Ranks == 0 .. M - 1
Last  == M - 1                     \* the rank that counts the finished ones
NoRank == M
Main   == M                        \* the thread of rank 0 that started its worker
Threads == 0 .. M
Host(t) == IF t = Main THEN 0 ELSE t
Leaves == {p \in Problems : Children[p] = {}}

ASSUME RanksAssumption == M \in Nat \ {0, 1}
ASSUME ProblemsAssumption ==
    /\ NoProblem \notin Problems /\ Root \in Problems /\ IsFiniteSet(Problems)
    /\ Children \in [Problems -> SUBSET Problems]
    /\ Direct \subseteq Leaves
    /\ Under \in [Problems -> SUBSET Leaves] /\ Under[Root] = Leaves
    /\ \A p \in Leaves : Under[p] = {p}
    /\ \A p \in Problems \ Leaves : Under[p] = UNION {Under[c] : c \in Children[p]}

\* What flows and kernelization promise: no cut below p is lighter than LB[p].
ASSUME BoundsAssumption ==
    /\ LB \in [Problems -> Nat] /\ Value \in [Problems -> Nat] /\ Inf \in Nat
    /\ Polished \in [Problems -> Nat] /\ Terms \in [Problems -> Nat]
    /\ \A p \in Problems : Polished[p] <= Value[p] /\ Value[p] < Inf
    /\ \A p \in Problems : \A l \in Under[p] : LB[p] <= Value[l]

VARIABLES
    open,              \* the problems each rank has queued
    kids,              \* the children it has still to process
    gub, best, init,   \* global_upper_bound; best_solution's value; bestSolutionInitialized
    before, after,     \* beforeLSGUB, terminalGUB: per number of terminals
    lastSent,          \* last_sent_flow
    mpiBest, isLocal,  \* best_solution and bestSolutionLocal of mpi_communication
    job,               \* what a thread does that offers or announces a cut: where it is,
                       \* the problem of the cut, the caller, and what was read before
    pc, peer,          \* where the worker is; src, or the receiver of a problem
    sentDone, done,    \* sent_done; mpi_done of the last rank
    status,            \* messages with tag 3000, from sender to receiver
    problem,           \* tags 1010 and 1020
    bound,             \* tag 15123
    report,            \* tag 4000, to the last rank
    found,             \* history: the values of all cuts computed so far
    raced              \* history: the worker of rank 0 began while the main thread offered

work      == <<open, kids>>
incumbent == <<gub, best, init, before, after>>
bounds    == <<lastSent, mpiBest, isLocal, bound>>
counting  == <<sentDone, done, report>>
history   == <<found, raced>>
vars == <<work, incumbent, bounds, job, pc, peer, counting, status, problem, history>>

\* What the steps of a rank leave alone that look for problems, and give them away.
search == <<incumbent, bounds, job, history>>

Silent(S) == [s \in Ranks |-> [d \in Ranks |-> S]]
Ks == {Terms[p] : p \in Problems}
NoJob == [at |-> "none", cut |-> NoProblem, by |-> "none", read |-> 0]
Unknown == [r \in Ranks |-> [k \in Ks |-> Inf]]

\* Rank 0 has queued the root and knows the weight of the cut of its flows, which the
\* main thread is to offer; the others wait.
Init ==
    /\ open = [r \in Ranks |-> IF r = 0 THEN {Root} ELSE {}]
    /\ kids = [r \in Ranks |-> {}]
    /\ gub = [r \in Ranks |-> IF r = 0 THEN Value[Root] ELSE Inf]
    /\ best = [r \in Ranks |-> Inf] /\ init = [r \in Ranks |-> FALSE]
    /\ before = Unknown /\ after = Unknown
    /\ lastSent = [r \in Ranks |-> Inf] /\ mpiBest = [r \in Ranks |-> Inf]
    /\ isLocal = [r \in Ranks |-> FALSE]
    /\ job = [t \in Threads |->
                IF t = Main THEN [NoJob EXCEPT !.at = "offer", !.cut = Root, !.by = "update"]
                ELSE NoJob]
    /\ pc = [r \in Ranks |-> "poll"] /\ peer = [r \in Ranks |-> NoRank]
    /\ sentDone = [r \in Ranks |-> FALSE] /\ done = [r \in Ranks |-> 0]
    /\ status = Silent(<<>>) /\ problem = Silent(<<>>) /\ bound = Silent(<<>>)
    /\ report = [r \in Ranks |-> <<>>]
    /\ found = {Value[Root]} /\ raced = FALSE

Doing(t, here) == job[t].at = here
At(r, here) == pc[r] = here /\ Doing(r, "none")
Goto(r, to) == pc' = [pc EXCEPT ![r] = to]
Least(a, b) == IF a <= b THEN a ELSE b

\* Mutant: a problem that can still give a cut by one lighter is dropped as well.
Hopeless_OffByOne(r, p) == LB[p] + 1 >= gub[r]

\* lower_bound >= global_upper_bound: no better cut is below the problem.
Hopeless(r, p) == LB[p] >= gub[r]

\* The channels after d took a message of s and sent the messages out to t.
Passed(ch, s, d, t, out) == [[ch EXCEPT ![s][d] = Tail(@)] EXCEPT ![d][t] = @ \o out]
Arrived(s, d) == status[s][d] # <<>>

-----------------------------------------------------------------------------
(* findBestSolution and updateBestSolution                                   *)

prevGub(t) == Value[job[t].cut]
lsBound(t) == Polished[job[t].cut]
Terminals(t) == Terms[job[t].cut]

Reach(t, here) == job' = [job EXCEPT ![t].at = here]
Return(t) == job' = [job EXCEPT ![t] = NoJob]
OnRank(t, f, v) == [f EXCEPT ![Host(t)] = v]

\* What a thread leaves alone when it offers or announces a cut.
elsewhere == <<work, pc, peer, counting, status, problem, raced>>

\* A cut worse than beforeLSGUB is dropped ...
Offer(t) ==
    /\ Doing(t, "offer")
    /\ IF prevGub(t) > before[Host(t)][Terminals(t)] THEN Return(t) ELSE Reach(t, "compare")
    /\ UNCHANGED <<elsewhere, incumbent, bounds, found>>

\* ... and one that is better than the bound replaces it.
Compare(t) ==
    /\ Doing(t, "compare")
    /\ Reach(t, IF prevGub(t) < gub[Host(t)] THEN "bound1" ELSE "polish")
    /\ UNCHANGED <<elsewhere, incumbent, bounds, found>>

SetBound(t, v) ==
    /\ gub' = OnRank(t, gub, v)
    /\ UNCHANGED <<elsewhere, best, init, before, after, bounds, found>>

\* Copying the solution is one step: bestsol_mutex is held.
CopySolution(t, v) ==
    /\ best' = OnRank(t, best, v) /\ init' = OnRank(t, init, TRUE)
    /\ UNCHANGED <<elsewhere, gub, before, after, bounds, found>>

Bound1(t) == Doing(t, "bound1") /\ SetBound(t, prevGub(t)) /\ Reach(t, "copy1")
Copy1(t)  == Doing(t, "copy1") /\ CopySolution(t, prevGub(t)) /\ Reach(t, "polish")

\* Local search, and the test whether it led to the best cut of its kind.
Polish(t) ==
    /\ Doing(t, "polish")
    /\ found' = found \cup {lsBound(t)}
    /\ Reach(t, IF lsBound(t) <= after[Host(t)][Terminals(t)] THEN "after" ELSE "again")
    /\ UNCHANGED <<elsewhere, incumbent, bounds>>

RecordAfter(t) ==
    /\ Doing(t, "after") /\ Reach(t, "before")
    /\ after' = [after EXCEPT ![Host(t)][Terminals(t)] = lsBound(t)]
    /\ UNCHANGED <<elsewhere, gub, best, init, before, bounds, found>>

RecordBefore(t) ==
    /\ Doing(t, "before") /\ Reach(t, "again")
    /\ before' = [before EXCEPT ![Host(t)][Terminals(t)] = prevGub(t)]
    /\ UNCHANGED <<elsewhere, gub, best, init, after, bounds, found>>

\* ls_bound < global_upper_bound || !bestSolutionInitialized: the first solution of a
\* rank is kept whatever bound it has heard of.
Again(t) ==
    /\ Doing(t, "again")
    /\ IF lsBound(t) < gub[Host(t)] \/ ~init[Host(t)] THEN Reach(t, "bound2") ELSE Return(t)
    /\ UNCHANGED <<elsewhere, incumbent, bounds, found>>

Bound2(t) == Doing(t, "bound2") /\ SetBound(t, lsBound(t)) /\ Reach(t, "copy2")

\* updateBestSolution announces what findBestSolution returned.
Copy2(t) ==
    /\ Doing(t, "copy2")
    /\ CopySolution(t, lsBound(t))
    /\ IF job[t].by = "update" THEN Reach(t, "share") ELSE Return(t)

Share(t) ==
    /\ Doing(t, "share")
    /\ IF lastSent[Host(t)] > gub[Host(t)]
       THEN lastSent' = OnRank(t, lastSent, gub[Host(t)]) /\ Reach(t, "send")
       ELSE lastSent' = lastSent /\ Return(t)
    /\ UNCHANGED <<elsewhere, incumbent, mpiBest, isLocal, bound, found>>

\* broadcastImprovedSolution announces a bound if it is news, ...
Announced(t) == IF job[t].by = "poll" THEN lastSent[Host(t)] ELSE lsBound(t)

Send(t) ==
    /\ Doing(t, "send")
    /\ IF Announced(t) < mpiBest[Host(t)]
       THEN job' = [job EXCEPT ![t].at = "swap", ![t].read = mpiBest[Host(t)]] ELSE Return(t)
    /\ UNCHANGED <<elsewhere, incumbent, bounds, found>>

\* ... and not if the compare-and-swap fails, as the other thread came in between.
Swap(t) ==
    /\ Doing(t, "swap") /\ Return(t)
    /\ LET h == Host(t)
       IN  IF mpiBest[h] = job[t].read
           THEN /\ mpiBest' = [mpiBest EXCEPT ![h] = Announced(t)]
                /\ isLocal' = [isLocal EXCEPT ![h] = TRUE]
                /\ bound' = [bound EXCEPT ![h] =
                      [d \in Ranks |-> IF d = h THEN @[d] ELSE Append(@[d], Announced(t))]]
           ELSE UNCHANGED <<mpiBest, isLocal, bound>>
    /\ UNCHANGED <<elsewhere, incumbent, lastSent, found>>

-----------------------------------------------------------------------------
(* pollWork: bounds                                                          *)

\* A bound that was not sent yet is announced before the worker goes on.
Cast(r) ==
    /\ At(r, "poll")
    /\ IF lastSent[r] > gub[r]
       THEN /\ lastSent' = [lastSent EXCEPT ![r] = gub[r]]
            /\ job' = [job EXCEPT ![r].at = "send", ![r].by = "poll"]
       ELSE UNCHANGED <<lastSent, job>>
    /\ raced' = (raced \/ (r = 0 /\ ~Doing(Main, "none")))
    /\ Goto(r, "prepare")
    /\ UNCHANGED <<work, incumbent, mpiBest, isLocal, bound, peer, counting, status, problem,
                   found>>

\* Mutant: a problem in the slot is not taken for work.
Prepare_ForgetsSlot(r) ==
    /\ At(r, "prepare")
    /\ \E D \in SUBSET {p \in open[r] : Hopeless(r, p)} :
          /\ open' = [open EXCEPT ![r] = @ \ D]
          /\ Goto(r, IF Cardinality(open[r] \ D) <= 1 THEN "ask" ELSE "refresh")
    /\ UNCHANGED <<kids, search, peer, counting, status, problem>>

\* prepareQueue drops problems that cannot improve on the bound, down to the first
\* one that can; the problem in the slot stays.
Prepare(r) ==
    /\ At(r, "prepare")
    /\ \E D \in SUBSET {p \in open[r] : Hopeless(r, p)} :
          /\ open' = [open EXCEPT ![r] = @ \ D]
          /\ Goto(r, IF open[r] = D THEN "ask" ELSE "refresh")
    /\ UNCHANGED <<kids, search, peer, counting, status, problem>>

\* Mutant: the rank still takes the best solution for its own.
TakeBound_KeepsClaim(r) ==
    /\ At(r, "refresh")
    /\ \E s \in Ranks :
          /\ bound[s][r] # <<>>
          /\ mpiBest' = [mpiBest EXCEPT ![r] = Least(@, Head(bound[s][r]))]
          /\ bound' = [bound EXCEPT ![s][r] = Tail(@)]
    /\ UNCHANGED <<work, incumbent, lastSent, isLocal, job, pc, peer, counting, status, problem,
                   history>>

\* getGlobalBestSolution takes one message after the other.  A non-blocking send
\* reads its variable when it likes, so that a later value may arrive.
TakeBound(r) ==
    /\ At(r, "refresh")
    /\ \E s \in Ranks :
          /\ bound[s][r] # <<>>
          /\ \E v \in {Head(bound[s][r]), mpiBest[s]} :
                IF v < mpiBest[r]
                THEN /\ mpiBest' = [mpiBest EXCEPT ![r] = v]
                     /\ isLocal' = [isLocal EXCEPT ![r] = FALSE]
                ELSE UNCHANGED <<mpiBest, isLocal>>
          /\ bound' = [bound EXCEPT ![s][r] = Tail(@)]
    /\ UNCHANGED <<work, incumbent, lastSent, job, pc, peer, counting, status, problem, history>>

\* updateBound: the minimum is computed from one load of the bound ...
Refresh(r) ==
    /\ At(r, "refresh")
    /\ job' = [job EXCEPT ![r].at = "store", ![r].read = Least(mpiBest[r], gub[r])]
    /\ UNCHANGED <<work, incumbent, bounds, pc, peer, counting, status, problem, history>>

\* ... and stored later.  A rank with more than one problem then looks for a receiver.
Store(r) ==
    /\ pc[r] = "refresh" /\ Doing(r, "store") /\ Return(r)
    /\ gub' = [gub EXCEPT ![r] = job[r].read]
    /\ Goto(r, IF Cardinality(open[r]) > 1 THEN "probe" ELSE "pull")
    /\ UNCHANGED <<work, best, init, before, after, bounds, peer, counting, status, problem,
                   history>>

-----------------------------------------------------------------------------
(* pollWork and multiBranch: work, and problems for others                   *)

\* checkForReceiver: whatever status message comes first is taken for a request.
Promise(r, s) ==
    /\ Arrived(s, r)
    /\ status' = Passed(status, s, r, s, <<"have">>)

GiveAway(r, s, p) == problem' = [problem EXCEPT ![r][s] = Append(@, p)]

ProbeFinds(r) ==
    /\ At(r, "probe")
    /\ \E s \in Ranks : Promise(r, s) /\ peer' = [peer EXCEPT ![r] = s]
    /\ Goto(r, "pull")
    /\ UNCHANGED <<work, search, counting, problem>>

ProbeMisses(r) ==
    /\ At(r, "probe")
    /\ Goto(r, "pull")
    /\ UNCHANGED <<work, search, peer, counting, status, problem>>

\* The problem is sent to the rank that asked for it, and forgotten.
PullToSend(r) ==
    /\ At(r, "pull")
    /\ peer[r] # NoRank
    /\ \E p \in open[r] :
          /\ open' = [open EXCEPT ![r] = @ \ {p}]
          /\ GiveAway(r, peer[r], p)
    /\ peer' = [peer EXCEPT ![r] = NoRank]
    /\ Goto(r, "poll")
    /\ UNCHANGED <<kids, search, counting, status>>

\* The worker goes on with findBestSolution for the cut of p, called by f.
Begin(r, p, f) ==
    /\ found' = found \cup {Value[p]}
    /\ job' = [job EXCEPT ![r].at = "offer", ![r].cut = p, ![r].by = f]

NothingToOffer == UNCHANGED <<found, job>>

\* solveProblem: the problem is cut off, solved, or branched on.
PullToSolve(r) ==
    /\ At(r, "pull")
    /\ peer[r] = NoRank
    /\ \E p \in open[r] :
          /\ open' = [open EXCEPT ![r] = @ \ {p}]
          /\ IF Hopeless(r, p) THEN NothingToOffer /\ UNCHANGED kids /\ Goto(r, "poll")
             ELSE /\ IF Children[p] = {} THEN Begin(r, p, "update") ELSE NothingToOffer
                  /\ kids' = [kids EXCEPT ![r] = Children[p]]
                  /\ Goto(r, IF Children[p] = {} THEN "poll" ELSE "child")
    /\ UNCHANGED <<incumbent, bounds, raced, peer, counting, status, problem>>

\* Every child but the last may go to a rank that asks, ...
SendChild(r) ==
    /\ At(r, "child")
    /\ Cardinality(kids[r]) > 1
    /\ \E c \in kids[r], s \in Ranks :
          /\ Promise(r, s)
          /\ GiveAway(r, s, c)
          /\ kids' = [kids EXCEPT ![r] = @ \ {c}]
    /\ UNCHANGED <<open, search, pc, peer, counting>>

\* ... otherwise processNewProblem solves it, or bounds it and queues it; its cut is
\* offered if none of a problem with as many terminals was as light before local search.
KeepChild(r) ==
    /\ At(r, "child")
    /\ \E c \in kids[r] :
          /\ kids' = [kids EXCEPT ![r] = @ \ {c}]
          /\ IF c \notin Direct /\ Hopeless(r, c) THEN NothingToOffer /\ UNCHANGED open
             ELSE /\ open' = [open EXCEPT ![r] = @ \cup ({c} \ Direct)]
                  /\ IF Value[c] < before[r][Terms[c]] THEN Begin(r, c, "process")
                     ELSE NothingToOffer
    /\ UNCHANGED <<incumbent, bounds, raced, pc, peer, counting, status, problem>>

Branched(r) ==
    /\ At(r, "child")
    /\ kids[r] = {}
    /\ Goto(r, "poll")
    /\ UNCHANGED <<work, search, peer, counting, status, problem>>

-----------------------------------------------------------------------------
(* waitForProblem of mpi_communication                                       *)

Ask(r) ==
    /\ At(r, "ask")
    /\ \E s \in Ranks \ {r} :
          /\ peer' = [peer EXCEPT ![r] = s]
          /\ status' = [status EXCEPT ![r][s] = Append(@, "need")]
    /\ Goto(r, "await")
    /\ UNCHANGED <<work, search, counting, problem>>

\* The next status message of s, while r waits for the answer of its peer.
Heard(r, s, m) ==
    /\ At(r, "await")
    /\ Arrived(s, r) /\ Head(status[s][r]) = m

\* Another rank asks: this one has nothing either.
HearNeed(r) ==
    /\ \E s \in Ranks :
          /\ Heard(r, s, "need")
          /\ status' = Passed(status, s, r, s, <<"emptyAsWell">>)
    /\ UNCHANGED <<work, search, pc, peer, counting, problem>>

\* A problem will follow, and a report that this rank is not finished any more.
\* The promise of a rank that was not asked is dropped.
HearHave(r) ==
    /\ \E s \in Ranks :
          /\ Heard(r, s, "have")
          /\ status' = Passed(status, s, r, s, <<>>)
          /\ IF s = peer[r]
             THEN /\ sentDone' = [sentDone EXCEPT ![r] = FALSE]
                  /\ report' = [report EXCEPT ![r] = IF sentDone[r] THEN Append(@, 0) ELSE @]
                  /\ Goto(r, "receive")
             ELSE UNCHANGED <<sentDone, report, pc>>
    /\ UNCHANGED <<work, search, peer, done, problem>>

\* The peer has nothing: the rank reports that it is finished, once, and goes on
\* asking; the last rank reads the reports instead.  An answer of a rank that was
\* not asked ends the program.
HearEmpty(r) ==
    /\ \E s \in Ranks :
          /\ Heard(r, s, "emptyAsWell")
          /\ status' = Passed(status, s, r, s, <<>>)
          /\ Goto(r, IF s # peer[r] THEN "wrongSender" ELSE IF r = Last THEN "count" ELSE "poll")
          /\ IF s = peer[r] /\ r # Last /\ ~sentDone[r]
             THEN /\ sentDone' = [sentDone EXCEPT ![r] = TRUE]
                  /\ report' = [report EXCEPT ![r] = Append(@, 1)]
             ELSE UNCHANGED <<sentDone, report>>
    /\ peer' = [peer EXCEPT ![r] = NoRank]
    /\ UNCHANGED <<work, search, done, problem>>

HearAllEmpty(r) ==
    /\ \E s \in Ranks :
          /\ Heard(r, s, "allEmpty")
          /\ status' = Passed(status, s, r, s, <<>>)
    /\ peer' = [peer EXCEPT ![r] = NoRank]
    /\ Goto(r, "barrier")
    /\ UNCHANGED <<work, search, counting, problem>>

\* recvProblem waits for the problem that was promised.
Receive(r) ==
    /\ At(r, "receive")
    /\ problem[peer[r]][r] # <<>>
    /\ open' = [open EXCEPT ![r] = @ \cup {Head(problem[peer[r]][r])}]
    /\ problem' = [problem EXCEPT ![peer[r]][r] = Tail(@)]
    /\ peer' = [peer EXCEPT ![r] = NoRank]
    /\ Goto(r, "poll")
    /\ UNCHANGED <<kids, search, counting, status>>

-----------------------------------------------------------------------------
(* The end                                                                   *)

Count(r) ==
    /\ At(r, "count")
    /\ \E s \in Ranks :
          /\ report[s] # <<>>
          /\ done' = [done EXCEPT ![s] = Head(report[s])]
          /\ report' = [report EXCEPT ![s] = Tail(@)]
    /\ UNCHANGED <<work, search, pc, peer, sentDone, status, problem>>

\* Mutant: the last rank waits for a report of its own as well.
AllDone_Itself == Cardinality({s \in Ranks : done[s] = 1}) = M

\* mpi_num_done, the sum of mpi_done.
AllDone == Cardinality({s \in Ranks : done[s] = 1}) = M - 1

\* The loop over the ranks that are to be told returns in its first round.
Counted(r) ==
    /\ At(r, "count")
    /\ IF AllDone
       THEN status' = [status EXCEPT ![r][0] = Append(@, "allEmpty")] /\ Goto(r, "barrier")
       ELSE UNCHANGED status /\ Goto(r, "poll")
    /\ UNCHANGED <<work, search, peer, counting, problem>>

Stopped(r) == pc[r] \in {"barrier", "out"}

\* The main thread has joined the worker and is at the barrier.
InBarrier(r) == Stopped(r) /\ (r = 0 => Doing(Main, "none"))

\* Until all ranks have come to the barrier, every status message is answered.
Answer(r) ==
    /\ At(r, "barrier") /\ InBarrier(r)
    /\ \E s \in Ranks :
          /\ Arrived(s, r)
          /\ status' = Passed(status, s, r, s, <<"allEmpty">>)
    /\ UNCHANGED <<work, search, pc, peer, counting, problem>>

Leave(r) ==
    /\ At(r, "barrier")
    /\ \A s \in Ranks : InBarrier(s)
    /\ Goto(r, "out")
    /\ UNCHANGED <<work, search, peer, counting, status, problem>>

\* The two reductions over all ranks elect the rank that broadcasts its solution.
Lightest == Min({gub[r] : r \in Ranks})
Elected == Min({r \in Ranks : isLocal[r] /\ gub[r] = Lightest} \cup {NoRank})
AllOut == \A r \in Ranks : At(r, "out")

OfferStep(t) ==
    \/ Offer(t) \/ Compare(t) \/ Bound1(t) \/ Copy1(t) \/ Polish(t)
    \/ RecordAfter(t) \/ RecordBefore(t) \/ Again(t) \/ Bound2(t) \/ Copy2(t)
    \/ Share(t) \/ Send(t) \/ Swap(t)

Step(r) ==
    \/ Cast(r) \/ Prepare(r) \/ TakeBound(r) \/ Refresh(r) \/ Store(r)
    \/ ProbeFinds(r) \/ ProbeMisses(r) \/ PullToSend(r) \/ PullToSolve(r)
    \/ SendChild(r) \/ KeepChild(r) \/ Branched(r)
    \/ Ask(r) \/ HearNeed(r) \/ HearHave(r) \/ HearEmpty(r) \/ HearAllEmpty(r) \/ Receive(r)
    \/ Count(r) \/ Counted(r) \/ Answer(r) \/ Leave(r)

Ended == AllOut /\ UNCHANGED vars
Next == (\E r \in Ranks : Step(r)) \/ (\E t \in Threads : OfferStep(t)) \/ Ended

Spec == Init /\ [][Next]_vars

\* Threads keep running; MPI delivers reports in the end, and the barrier completes
\* for a rank that keeps testing it.
FairSpec ==
    /\ Spec
    /\ \A r \in Ranks : WF_vars(Step(r)) /\ WF_vars(Leave(r)) /\ SF_vars(Count(r))
    /\ \A t \in Threads : WF_vars(OfferStep(t))

-----------------------------------------------------------------------------
Working(r) == open[r] # {} \/ kids[r] # {} \/ At(r, "receive")
Travelling == \E s, d \in Ranks : problem[s][d] # <<>>

\* A rank leaves its loop only when no rank has a problem and none is on its way.
StopsWhenEmpty ==
    (\E r \in Ranks : Stopped(r)) => ~Travelling /\ \A r \in Ranks : ~Working(r)

\* When all ranks are out some rank has computed a cut as light as any that the leaves
\* of the tree give: no optimum is lost on its way between ranks, nor for a bound that
\* nobody has reached, though the bound of a rank may rise again.
ResultFound == AllOut => \A l \in Leaves : \E v \in found : v <= Value[l]

\* And a rank is elected whose solution is the lightest cut that any rank computed, if
\* the main thread's offer was over when the worker of rank 0 began: what the ranks tell
\* each other, claim and take over agrees with what they have.  Otherwise the two threads
\* race, and best_solution may be a heavier cut, or no rank be elected at all.
LightestElected ==
    AllOut /\ ~raced => Elected # NoRank /\ \A v \in found : best[Elected] <= v

\* All ranks come to an end, however they wait for each other.
RanksEnd == <>AllOut
=============================================================================

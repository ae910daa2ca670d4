-------------------------- MODULE MulticutRanksProofs --------------------------
(***************************************************************************)
(* What the MPI ranks guarantee.  For any number of them, every bound is   *)
(* the value of a computed cut (BoundsAreCuts) and no optimum is lost      *)
(* (NoLeafLost).  For two ranks: neither stops while there is work, so     *)
(* that the optimum has been computed when they stop.                      *)
(***************************************************************************)
EXTENDS MulticutRanks, FiniteSetTheorems, SequenceTheorems, TLAPS

PCs == {"poll", "prepare", "refresh", "probe", "pull", "child", "ask", "await", "receive",
        "count", "barrier", "out", "wrongSender"}
Kinds == {"need", "have", "emptyAsWell", "allEmpty"}
Early == {"offer", "compare", "bound1", "copy1", "polish"}
Late  == {"after", "before", "again", "bound2", "copy2", "share"}
USE DEF Early, Late
Stages == {"none", "send", "swap", "store"} \cup Early \cup Late
Jobs == [at : Stages, cut : Problems \cup {NoProblem},
         by : {"none", "poll", "update", "process"}, read : Nat]

\* The types the argument needs.
WorkTypes ==
    /\ open \in [Ranks -> SUBSET Problems] /\ kids \in [Ranks -> SUBSET Problems]
    /\ problem \in [Ranks -> [Ranks -> Seq(Problems)]]
    /\ pc \in [Ranks -> PCs]
    /\ peer \in [Ranks -> Ranks \cup {NoRank}]
    /\ \A r \in Ranks : pc[r] = "receive" => peer[r] \in Ranks

-----------------------------------------------------------------------------
(* The bounds.                                                               *)

Cuts == found \cup {Inf}

\* Where a thread has a cut to offer, and where local search is behind it.
Searched(j) == j.at \in Late \/ (j.at \in {"send", "swap"} /\ j.by # "poll")
Offering(j) == j.at \in Early \/ Searched(j)

\* What a thread works with was computed.
Computed(t) ==
    /\ Offering(job[t]) => job[t].cut \in Problems /\ Value[job[t].cut] \in found
    /\ Searched(job[t]) => Polished[job[t].cut] \in found
    /\ job[t].at = "store" => job[t].read \in Cuts

\* Every bound that a rank has, has read or has sent is the value of a cut that some
\* rank computed, or the first one.
BoundInv ==
    /\ found \subseteq Nat /\ Value[Root] \in found
    /\ gub \in [Ranks -> Cuts] /\ best \in [Ranks -> Cuts]
    /\ lastSent \in [Ranks -> Cuts] /\ mpiBest \in [Ranks -> Cuts]
    /\ init \in [Ranks -> BOOLEAN] /\ isLocal \in [Ranks -> BOOLEAN]
    /\ before \in [Ranks -> [Ks -> Cuts]] /\ after \in [Ranks -> [Ks -> Nat]]
    /\ bound \in [Ranks -> [Ranks -> Seq(Nat)]]
    /\ \A s, d \in Ranks : \A k \in DOMAIN bound[s][d] : bound[s][d][k] \in Cuts
    /\ job \in [Threads -> Jobs] /\ \A t \in Threads : Computed(t)

-----------------------------------------------------------------------------
(* The work.                                                                 *)

KidsPlaced == \A r \in Ranks : pc[r] # "child" => kids[r] = {}

\* Every leaf is below a problem that some rank has or that is on its way, or a cut as
\* light as its own was computed.
Has(l) ==
    \/ \E r \in Ranks, p \in Problems : p \in open[r] \cup kids[r] /\ l \in Under[p]
    \/ \E s, d \in Ranks : \E k \in DOMAIN problem[s][d] : l \in Under[problem[s][d][k]]

Found(l) == \E v \in found : v <= Value[l]
LeafSafe == \A l \in Leaves : Has(l) \/ Found(l)

WorkInv == KidsPlaced /\ LeafSafe

-----------------------------------------------------------------------------
(* Two ranks: r and the other one, s.                                        *)

Contains(q, K)  == \E k \in DOMAIN q : q[k] \in K
OneOf(q, K)     == \A j, k \in DOMAIN q : q[j] \in K /\ q[k] \in K => j = k
Before(q, K, L) == \A j, k \in DOMAIN q : q[j] \in K /\ q[k] \in L => j < k

StatusTypes == status \in [Ranks -> [Ranks -> Seq(Kinds)]]

Asks(q)    == Contains(q, {"need"})
Gives(q)   == Contains(q, {"have"})
Denies(q)  == Contains(q, {"emptyAsWell"})
Ends(q)    == Contains(q, {"allEmpty"})
Answers(q) == Gives(q) \/ Denies(q)

\* One request and one answer at most are on their way from one rank to the
\* other; no promise behind a request, and no answer behind the end.
InOrder(q) ==
    /\ OneOf(q, {"need"}) /\ OneOf(q, {"have", "emptyAsWell"})
    /\ Before(q, {"have"}, {"need"}) /\ Before(q, {"have", "emptyAsWell"}, {"allEmpty"})

\* A rank waits for one answer, to its last request, and asks only without work.
Requests(r, s) ==
    /\ status[r][r] = << >> /\ problem[r][r] = << >>
    /\ InOrder(status[r][s])
    /\ Asks(status[r][s]) => pc[r] = "await" \/ (r = 0 /\ Stopped(r))
    /\ Answers(status[s][r]) => pc[r] = "await" /\ ~Asks(status[r][s])
    /\ pc[r] \in {"await", "receive"} => peer[r] = s
    /\ pc[r] = "pull" => peer[r] \in {NoRank, s}
    /\ pc[r] \in {"poll", "prepare", "refresh", "probe", "child", "ask", "count"} => peer[r] = NoRank
    /\ pc[r] \in {"ask", "await", "receive", "count"} => open[r] = {}
    /\ pc[r] = "count" => r = 1
    /\ pc[r] # "wrongSender"

\* A problem is on its way to r, or about to be sent, only if r was promised one.
Promised(r, s) == pc[r] = "receive" \/ Gives(status[s][r])
Promises(r, s) ==
    /\ problem[s][r] # << >> => Promised(r, s) /\ Len(problem[s][r]) = 1
    /\ pc[s] = "pull" /\ peer[s] = r => Promised(r, s) /\ problem[s][r] = << >>
    /\ pc[r] = "receive" => ~Answers(status[s][r])

\* A rank without work or the promise of any.
Idle(r, s) ==
    /\ open[r] = {} /\ kids[r] = {} /\ ~Promised(r, s)
    /\ pc[r] \in {"poll", "prepare", "ask", "await", "count", "barrier", "out"}

\* "Empty as well" stays true as long as the rank that was told has not heard it.
EmptyTold(r, s) == Denies(status[r][s]) => Idle(r, s)

\* Once the last rank counts, and when a rank stops, nobody has work.
Over(r, s) ==
    /\ r = 1 /\ (pc[r] = "count" \/ Stopped(r)) =>
          /\ Idle(s, r) /\ ~Promised(r, s) /\ open[r] = {} /\ kids[r] = {}
          /\ ~Denies(status[s][r])
    /\ Ends(status[r][s]) => Stopped(r)
    /\ r = 0 /\ Stopped(r) => Stopped(s)

Side(r, s) == Requests(r, s) /\ Promises(r, s) /\ EmptyTold(r, s) /\ Over(r, s)
PairInv == StatusTypes /\ \A r \in Ranks : \A s \in Ranks \ {r} : Side(r, s)

-----------------------------------------------------------------------------
(* Threads and what they do.                                                 *)

USE DEF At, Goto, Doing

\* What a channel holds after a message was sent.
LEMMA AppendedItems ==
    ASSUME NEW S, NEW q \in Seq(S), NEW x \in S
    PROVE  /\ Len(q) + 1 \in DOMAIN Append(q, x)
           /\ Append(q, x)[Len(q) + 1] = x
           /\ \A k \in DOMAIN q : k \in DOMAIN Append(q, x) /\ Append(q, x)[k] = q[k]
  OBVIOUS

\* Rank 0 exists, and NoRank is no rank; each thread has its rank.
LEMMA RankZero ==
    /\ 0 \in Ranks /\ NoRank \notin Ranks /\ Ranks \subseteq Nat /\ Ranks \subseteq Threads
    /\ Main \in Threads /\ Main \notin Ranks
    /\ \A t \in Threads : Host(t) \in Ranks /\ (t # Main => t \in Ranks /\ Host(t) = t)
    /\ Host(Main) = 0
  BY RanksAssumption DEF Ranks, NoRank, Threads, Main, Host

\* The lesser of two numbers is one of them.
LEMMA LeastOf ==
    ASSUME NEW a \in Nat, NEW b \in Nat
    PROVE  Least(a, b) \in Nat /\ Least(a, b) <= a /\ Least(a, b) <= b
           /\ (Least(a, b) = a \/ Least(a, b) = b)
  BY DEF Least

\* A thread t goes on as j, and the others as before.
Becomes(t, j) == job' \in [Threads -> Jobs] /\ job'[t] = j /\ \A u \in Threads \ {t} : job'[u] = job[u]

\* A thread that changes the stage only.
LEMMA Reached ==
    ASSUME job \in [Threads -> Jobs], NEW t \in Threads, NEW here \in Stages, Reach(t, here)
    PROVE  \E j \in Jobs : /\ Becomes(t, j) /\ j.at = here
                           /\ j.cut = job[t].cut /\ j.by = job[t].by /\ j.read = job[t].read
  <1> DEFINE j == [job[t] EXCEPT !.at = here]
  <1>1. job[t] \in Jobs
    OBVIOUS
  <1>2. j \in Jobs /\ j.at = here /\ j.cut = job[t].cut /\ j.by = job[t].by /\ j.read = job[t].read
    BY <1>1 DEF Jobs
  <1>3. job' = [job EXCEPT ![t] = j]
    BY DEF Reach
  <1> HIDE DEF j
  <1>4. Becomes(t, j)
    BY <1>2, <1>3 DEF Becomes
  <1> QED
    BY <1>2, <1>4

\* A thread that is through.
LEMMA Returned ==
    ASSUME job \in [Threads -> Jobs], NEW t \in Threads, Return(t)
    PROVE  Becomes(t, NoJob) /\ NoJob.at = "none"
  <1>1. NoJob \in Jobs /\ NoJob.at = "none"
    BY DEF NoJob, Jobs, Stages
  <1> QED
    BY <1>1 DEF Becomes, Return

\* A computed cut stays computed.
LEMMA ComputedStays ==
    ASSUME NEW u, job'[u] = job[u], found \subseteq found', Computed(u)
    PROVE  Computed(u)'
  BY DEF Computed, Offering, Searched, Cuts

\* An idle thread has computed nothing that matters.
LEMMA IdleComputed == ASSUME NEW u, job[u].at = "none" PROVE Computed(u)
  BY DEF Computed, Offering, Searched

\* The values of cuts.
LEMMA Values ==
    ASSUME NEW p \in Problems
    PROVE  /\ Value[p] \in Nat /\ Polished[p] \in Nat /\ Inf \in Nat /\ LB[p] \in Nat
           /\ Polished[p] <= Value[p] /\ Value[p] < Inf /\ Terms[p] \in Ks
  BY BoundsAssumption DEF Ks

\* All bounds are numbers.
LEMMA BoundsAreNumbers ==
    ASSUME BoundInv
    PROVE  /\ Cuts \subseteq Nat /\ Inf \in Nat
           /\ \A r \in Ranks : /\ gub[r] \in Nat /\ best[r] \in Nat /\ lastSent[r] \in Nat
                               /\ mpiBest[r] \in Nat
                               /\ \A k \in Ks : before[r][k] \in Nat /\ after[r][k] \in Nat
  <1>1. Cuts \subseteq Nat /\ Inf \in Nat
    BY BoundsAssumption DEF BoundInv, Cuts
  <1> QED
    BY <1>1 DEF BoundInv

\* A thread that goes on offering its cut, or is through.
LEMMA JobGoes ==
    ASSUME BoundInv, NEW t \in Threads, found \subseteq found',
           Offering(job[t]),
           Return(t) \/ \E here \in Stages \ {"store"} :
                            /\ Reach(t, here)
                            /\ here \in {"send", "swap"} \cup Late
                                    => Polished[job[t].cut] \in found'
    PROVE  job' \in [Threads -> Jobs] /\ \A u \in Threads : Computed(u)'
  <1>1. job \in [Threads -> Jobs] /\ \A u \in Threads : Computed(u)
    BY DEF BoundInv
  <1>2. ASSUME NEW j \in Jobs, Becomes(t, j), Computed(t)'
        PROVE  job' \in [Threads -> Jobs] /\ \A u \in Threads : Computed(u)'
    <2>1. \A u \in Threads \ {t} : Computed(u)'
      BY <1>1, <1>2, ComputedStays DEF Becomes
    <2> QED
      BY <1>2, <2>1 DEF Becomes
  <1>3. CASE Return(t)
    <2>1. Becomes(t, NoJob) /\ NoJob.at = "none" /\ NoJob \in Jobs
      BY <1>1, <1>3, Returned DEF NoJob, Jobs, Stages
    <2>2. Computed(t)'
      BY <2>1 DEF Becomes, Computed, Offering, Searched
    <2> QED
      BY <1>2, <2>1, <2>2
  <1>4. CASE \E here \in Stages \ {"store"} :
                 /\ Reach(t, here)
                 /\ here \in {"send", "swap"} \cup Late
                         => Polished[job[t].cut] \in found'
    <2>1. PICK here \in Stages \ {"store"} :
                 /\ Reach(t, here)
                 /\ here \in {"send", "swap"} \cup Late
                         => Polished[job[t].cut] \in found'
      BY <1>4
    <2>2. PICK j \in Jobs : /\ Becomes(t, j) /\ j.at = here
                            /\ j.cut = job[t].cut /\ j.by = job[t].by /\ j.read = job[t].read
      BY <1>1, <2>1, Reached
    <2>3. job[t].cut \in Problems /\ Value[job[t].cut] \in found'
      BY <1>1 DEF Computed
    <2>4. Computed(t)'
      BY <2>1, <2>2, <2>3 DEF Becomes, Computed, Offering, Searched
    <2> QED
      BY <1>2, <2>2, <2>4
  <1> QED
    BY <1>3, <1>4

\* What a thread offers or announces is a computed value.
LEMMA OfferBounds ==
    ASSUME BoundInv, NEW t \in Threads, OfferStep(t)
    PROVE  BoundInv'
  <1> DEFINE r == Host(t)
             p == job[t].cut
  <1>0. /\ r \in Ranks /\ job \in [Threads -> Jobs] /\ Computed(t) /\ job[t] \in Jobs
        /\ \A u \in Threads : Computed(u)
    BY RankZero DEF BoundInv
  <1>g. Offering(job[t]) => p \in Problems /\ Value[p] \in found /\ Terms[p] \in Ks
    BY <1>0, Values DEF Computed
  <1> HIDE DEF r
  <1>1. CASE Offer(t) \/ Compare(t) \/ Again(t)
    <2>1. UNCHANGED <<incumbent, bounds, found>>
      BY <1>1 DEF Offer, Compare, Again
    <2>2. Offering(job[t]) /\ (Again(t) => Searched(job[t]))
      BY <1>1 DEF Offer, Compare, Again, Offering, Searched
    <2>3. Return(t) \/ \E here \in Stages \ {"store"} :
                            /\ Reach(t, here)
                            /\ here \in {"send", "swap"} \cup Late
                                    => Polished[job[t].cut] \in found'
      <3>1. CASE Offer(t) \/ Compare(t)
        BY <3>1 DEF Offer, Compare, Stages
      <3>2. CASE Again(t)
        BY <1>0, <2>1, <2>2, <3>2 DEF Again, Stages, Computed
      <3> QED
        BY <1>1, <3>1, <3>2
    <2>4. job' \in [Threads -> Jobs] /\ \A u \in Threads : Computed(u)'
      BY <2>1, <2>2, <2>3, JobGoes
    <2> QED
      BY <2>1, <2>4 DEF BoundInv, incumbent, bounds, Cuts
  <1>2. CASE Bound1(t) \/ Bound2(t)
    <2>2. Offering(job[t]) /\ (Bound2(t) => Searched(job[t])) /\ found' = found
      BY <1>2 DEF Bound1, Bound2, SetBound, Offering, Searched
    <2>1. PICK v \in found : gub' = [gub EXCEPT ![r] = v] /\ UNCHANGED <<best, init, before, after, bounds, found>>
      BY <1>0, <1>2, <1>g, <2>2 DEF Bound1, Bound2, SetBound, OnRank, prevGub, lsBound, Computed, r
    <2>3. \E here \in Stages \ {"store"} :
                            /\ Reach(t, here)
                            /\ here \in {"send", "swap"} \cup Late
                                    => Polished[job[t].cut] \in found'
      BY <1>0, <1>2, <2>2 DEF Bound1, Bound2, Stages, Computed
    <2>4. job' \in [Threads -> Jobs] /\ \A u \in Threads : Computed(u)'
      BY <2>2, <2>3, JobGoes
    <2>5. gub' \in [Ranks -> Cuts]
      BY <1>0, <2>1 DEF BoundInv, Cuts
    <2> QED
      BY <2>1, <2>4, <2>5 DEF BoundInv, bounds, Cuts
  <1>3. CASE Copy1(t) \/ Copy2(t)
    <2>2. Offering(job[t]) /\ (Copy2(t) => Searched(job[t])) /\ found' = found
      BY <1>3 DEF Copy1, Copy2, CopySolution, Offering, Searched
    <2>1. PICK v \in found : /\ best' = [best EXCEPT ![r] = v] /\ init' = [init EXCEPT ![r] = TRUE]
                             /\ UNCHANGED <<gub, before, after, bounds, found>>
      BY <1>0, <1>3, <1>g, <2>2 DEF Copy1, Copy2, CopySolution, OnRank, prevGub, lsBound, Computed, r
    <2>3. Return(t) \/ \E here \in Stages \ {"store"} :
                            /\ Reach(t, here)
                            /\ here \in {"send", "swap"} \cup Late
                                    => Polished[job[t].cut] \in found'
      BY <1>0, <1>3, <2>2 DEF Copy1, Copy2, Stages, Computed
    <2>4. job' \in [Threads -> Jobs] /\ \A u \in Threads : Computed(u)'
      BY <2>2, <2>3, JobGoes
    <2>5. best' \in [Ranks -> Cuts] /\ init' \in [Ranks -> BOOLEAN]
      BY <1>0, <2>1 DEF BoundInv, Cuts
    <2> QED
      BY <2>1, <2>4, <2>5 DEF BoundInv, bounds, Cuts
  <1>4. CASE Polish(t)
    <2>2. /\ Offering(job[t]) /\ found' = found \cup {Polished[p]}
          /\ UNCHANGED <<incumbent, bounds>>
      BY <1>4 DEF Polish, Offering, lsBound
    <2>3. \E here \in Stages \ {"store"} :
                            /\ Reach(t, here)
                            /\ here \in {"send", "swap"} \cup Late
                                    => Polished[job[t].cut] \in found'
      BY <1>4, <2>2 DEF Polish, Stages
    <2>4. job' \in [Threads -> Jobs] /\ \A u \in Threads : Computed(u)'
      BY <2>2, <2>3, JobGoes
    <2>5. Cuts \subseteq Cuts' /\ found' \subseteq Nat /\ Value[Root] \in found'
      BY <1>g, <2>2, Values DEF BoundInv, Cuts
    <2> QED
      BY <2>2, <2>4, <2>5 DEF BoundInv, incumbent, bounds
  <1>9. CASE RecordAfter(t) \/ RecordBefore(t)
    <2>2. /\ Searched(job[t]) /\ Offering(job[t]) /\ found' = found
          /\ UNCHANGED <<gub, best, init, bounds>>
      BY <1>9 DEF RecordAfter, RecordBefore, Offering, Searched
    <2>3. \E here \in Stages \ {"store"} :
                            /\ Reach(t, here)
                            /\ here \in {"send", "swap"} \cup Late
                                    => Polished[job[t].cut] \in found'
      BY <1>0, <1>9, <2>2 DEF RecordAfter, RecordBefore, Stages, Computed
    <2>4. job' \in [Threads -> Jobs] /\ \A u \in Threads : Computed(u)'
      BY <2>2, <2>3, JobGoes
    <2>5. Value[p] \in Cuts /\ Polished[p] \in Nat /\ Terms[p] \in Ks
      BY <1>g, <2>2, Values DEF Cuts
    <2>6. CASE RecordAfter(t)
      <3>1. /\ after' = [after EXCEPT ![r] = [after[r] EXCEPT ![Terms[p]] = Polished[p]]]
            /\ before' = before
        BY <2>6 DEF RecordAfter, lsBound, Terminals, r
      <3>2. after \in [Ranks -> [Ks -> Nat]] /\ before' \in [Ranks -> [Ks -> Cuts]]
        BY <3>1 DEF BoundInv
      <3>3. [after[r] EXCEPT ![Terms[p]] = Polished[p]] \in [Ks -> Nat]
        BY <1>0, <2>5, <3>2
      <3>4. after' \in [Ranks -> [Ks -> Nat]]
        BY <1>0, <3>1, <3>2, <3>3
      <3> QED
        BY <2>2, <2>4, <3>2, <3>4 DEF BoundInv, bounds, Cuts
    <2>7. CASE RecordBefore(t)
      <3>1. /\ before' = [before EXCEPT ![r] = [before[r] EXCEPT ![Terms[p]] = Value[p]]]
            /\ after' = after
        BY <2>7 DEF RecordBefore, prevGub, Terminals, r
      <3>2. before \in [Ranks -> [Ks -> Cuts]] /\ after' \in [Ranks -> [Ks -> Nat]]
        BY <3>1 DEF BoundInv
      <3>3. [before[r] EXCEPT ![Terms[p]] = Value[p]] \in [Ks -> Cuts]
        BY <1>0, <2>5, <3>2
      <3>4. before' \in [Ranks -> [Ks -> Cuts]]
        BY <1>0, <3>1, <3>2, <3>3
      <3> QED
        BY <2>2, <2>4, <3>2, <3>4 DEF BoundInv, bounds, Cuts
    <2> QED
      BY <1>9, <2>6, <2>7
  <1>5. CASE Share(t)
    <2>2. Searched(job[t]) /\ Offering(job[t]) /\ UNCHANGED <<incumbent, mpiBest, isLocal, bound, found>>
      BY <1>5 DEF Share, Offering, Searched
    <2>3. Return(t) \/ \E here \in Stages \ {"store"} :
                            /\ Reach(t, here)
                            /\ here \in {"send", "swap"} \cup Late
                                    => Polished[job[t].cut] \in found'
      BY <1>0, <1>5, <2>2 DEF Share, Stages, Computed
    <2>4. job' \in [Threads -> Jobs] /\ \A u \in Threads : Computed(u)'
      BY <2>2, <2>3, JobGoes
    <2>5. lastSent' = lastSent \/ lastSent' = [lastSent EXCEPT ![r] = gub[r]]
      BY <1>5 DEF Share, OnRank, r
    <2>6. lastSent' \in [Ranks -> Cuts]
      BY <1>0, <2>5 DEF BoundInv
    <2> QED
      BY <2>2, <2>4, <2>6 DEF BoundInv, incumbent, Cuts
  <1>6. CASE Send(t)
    <2>1. UNCHANGED <<incumbent, bounds, found>> /\ job[t].at = "send"
      BY <1>6 DEF Send
    <2>2. mpiBest[r] \in Nat
      BY <1>0, BoundsAreNumbers
    <2> DEFINE n == [job[t] EXCEPT !.at = "swap", !.read = mpiBest[r]]
    <2>3. job' = [job EXCEPT ![t] = n] \/ Return(t)
      BY <1>0, <1>6 DEF Send, r
    <2>4. n \in Jobs /\ n.at = "swap" /\ n.cut = job[t].cut /\ n.by = job[t].by
      BY <1>0, <2>2 DEF Jobs, Stages
    <2> HIDE DEF n
    <2>5. \E j \in Jobs : Becomes(t, j) /\ Computed(t)'
      <3>1. CASE job' = [job EXCEPT ![t] = n]
        <4>1. Becomes(t, n)
          BY <1>0, <2>4, <3>1 DEF Becomes
        <4>2. Computed(t)'
          BY <1>0, <2>1, <2>4, <4>1 DEF Becomes, Computed, Offering, Searched
        <4> QED
          BY <2>4, <4>1, <4>2
      <3>2. CASE Return(t)
        <4>1. Becomes(t, NoJob) /\ NoJob.at = "none" /\ NoJob \in Jobs
          BY <1>0, <3>2, Returned DEF NoJob, Jobs, Stages
        <4>2. Computed(t)'
          BY <4>1 DEF Becomes, Computed, Offering, Searched
        <4> QED
          BY <4>1, <4>2
      <3> QED
        BY <2>3, <3>1, <3>2
    <2>6. job' \in [Threads -> Jobs] /\ \A u \in Threads : Computed(u)'
      <3>1. \A u \in Threads \ {t} : Computed(u)'
        BY <1>0, <2>1, <2>5, ComputedStays DEF Becomes
      <3> QED
        BY <2>5, <3>1 DEF Becomes
    <2> QED
      BY <2>1, <2>6 DEF BoundInv, incumbent, bounds, Cuts
  <1>7. CASE Swap(t)
    <2>1. UNCHANGED <<incumbent, lastSent, found>> /\ job[t].at = "swap" /\ Return(t)
      BY <1>7 DEF Swap
    <2>2. job' \in [Threads -> Jobs] /\ \A u \in Threads : Computed(u)'
      <3>1. Becomes(t, NoJob) /\ NoJob.at = "none" /\ NoJob \in Jobs
        BY <1>0, <2>1, Returned DEF NoJob, Jobs, Stages
      <3>2. Computed(t)'
        BY <3>1 DEF Becomes, Computed, Offering, Searched
      <3>3. \A u \in Threads \ {t} : Computed(u)'
        BY <1>0, <2>1, <3>1, ComputedStays DEF Becomes
      <3> QED
        BY <3>1, <3>2, <3>3 DEF Becomes
    <2>3. Announced(t) \in Cuts /\ Cuts \subseteq Nat
      <3>1. lastSent[r] \in Cuts /\ Cuts \subseteq Nat
        BY <1>0, BoundsAreNumbers DEF BoundInv
      <3>2. CASE job[t].by = "poll"
        BY <3>1, <3>2 DEF Announced, r
      <3>3. CASE job[t].by # "poll"
        BY <1>0, <2>1, <3>1, <3>3 DEF Announced, lsBound, Computed, Searched, Cuts
      <3> QED
        BY <3>2, <3>3
    <2>4. CASE UNCHANGED <<mpiBest, isLocal, bound>>
      BY <2>1, <2>2, <2>4 DEF BoundInv, incumbent, Cuts
    <2>5. CASE /\ mpiBest' = [mpiBest EXCEPT ![r] = Announced(t)]
               /\ isLocal' = [isLocal EXCEPT ![r] = TRUE]
               /\ bound' = [bound EXCEPT ![r] =
                      [d \in Ranks |-> IF d = r THEN @[d] ELSE Append(@[d], Announced(t))]]
      <3>1. mpiBest' \in [Ranks -> Cuts] /\ isLocal' \in [Ranks -> BOOLEAN]
        BY <1>0, <2>3, <2>5 DEF BoundInv
      <3>2. bound \in [Ranks -> [Ranks -> Seq(Nat)]]
        BY DEF BoundInv
      <3>3. \A s, d \in Ranks : bound'[s][d] = bound[s][d] \/ bound'[s][d] = Append(bound[s][d], Announced(t))
        BY <2>5, <3>2
      <3>4. bound' \in [Ranks -> [Ranks -> Seq(Nat)]]
        <4> DEFINE row == [d \in Ranks |-> IF d = r THEN bound[r][d] ELSE Append(bound[r][d], Announced(t))]
        <4>1. \A d \in Ranks : bound[r][d] \in Seq(Nat) /\ Announced(t) \in Nat
          BY <1>0, <2>3, <3>2
        <4>2. row \in [Ranks -> Seq(Nat)]
          BY <4>1
        <4>3. bound' = [bound EXCEPT ![r] = row]
          BY <2>5
        <4> HIDE DEF row
        <4> QED
          BY <3>2, <4>2, <4>3
      <3>5. ASSUME NEW s \in Ranks, NEW d \in Ranks, NEW k \in DOMAIN bound'[s][d]
            PROVE  bound'[s][d][k] \in Cuts
        <4>1. CASE bound'[s][d] = bound[s][d]
          BY <4>1 DEF BoundInv
        <4>2. CASE bound'[s][d] = Append(bound[s][d], Announced(t))
          <5>1. bound[s][d] \in Seq(Nat) /\ Announced(t) \in Nat
            BY <2>3, <3>2
          <5>2. \/ k \in DOMAIN bound[s][d] /\ bound'[s][d][k] = bound[s][d][k]
                \/ bound'[s][d][k] = Announced(t)
            BY <4>2, <5>1
          <5> QED
            BY <2>3, <5>2 DEF BoundInv
        <4> QED
          BY <3>3, <4>1, <4>2
      <3> QED
        BY <2>1, <2>2, <3>1, <3>4, <3>5 DEF BoundInv, incumbent, Cuts
    <2> QED
      BY <1>7, <2>4, <2>5 DEF Swap, r
  <1> QED
    BY <1>1, <1>2, <1>3, <1>4, <1>5, <1>6, <1>7, <1>9 DEF OfferStep

\* A worker that turns to a cut, whose value it has computed.
LEMMA BeginBounds ==
    ASSUME BoundInv, NEW r \in Ranks, NEW p \in Problems, NEW f \in {"update", "process"},
           Begin(r, p, f) \/ NothingToOffer, UNCHANGED <<incumbent, bounds>>
    PROVE  BoundInv'
  <1>0. job \in [Threads -> Jobs] /\ r \in Threads /\ \A u \in Threads : Computed(u)
    BY RankZero DEF BoundInv
  <1>1. CASE NothingToOffer
    BY <1>0, <1>1, ComputedStays DEF NothingToOffer, BoundInv, incumbent, bounds, Cuts
  <1>2. CASE Begin(r, p, f)
    <2> DEFINE n == [job[r] EXCEPT !.at = "offer", !.cut = p, !.by = f]
    <2>1. found' = found \cup {Value[p]} /\ Value[p] \in Nat
      BY <1>2, Values DEF Begin
    <2>2. job' = [job EXCEPT ![r] = n]
      BY <1>2 DEF Begin
    <2>3. n \in Jobs /\ n.at = "offer" /\ n.cut = p
      BY <1>0 DEF Jobs, Stages
    <2> HIDE DEF n
    <2>4. Becomes(r, n)
      BY <1>0, <2>2, <2>3 DEF Becomes
    <2>5. Computed(r)'
      BY <2>1, <2>3, <2>4 DEF Becomes, Computed, Offering, Searched
    <2>6. \A u \in Threads : Computed(u)'
      <3>1. \A u \in Threads \ {r} : Computed(u)'
        BY <1>0, <2>1, <2>4, ComputedStays DEF Becomes
      <3> QED
        BY <2>5, <3>1
    <2>7. Cuts \subseteq Cuts' /\ found' \subseteq Nat /\ Value[Root] \in found'
      BY <2>1 DEF BoundInv, Cuts
    <2>8. before' \in [Ranks -> [Ks -> Cuts']]
      BY <2>7 DEF BoundInv, incumbent
    <2> QED
      BY <2>4, <2>6, <2>7, <2>8 DEF BoundInv, incumbent, bounds, Becomes
  <1> QED
    BY <1>1, <1>2

\* What a worker hears, and takes over, is a computed value.
LEMMA HearBounds ==
    ASSUME BoundInv, NEW r \in Ranks, Cast(r) \/ TakeBound(r) \/ Refresh(r) \/ Store(r)
    PROVE  BoundInv'
  <1>0. job \in [Threads -> Jobs] /\ r \in Threads /\ \A u \in Threads : Computed(u)
    BY RankZero DEF BoundInv
  <1>b. gub[r] \in Cuts /\ mpiBest[r] \in Cuts /\ Cuts \subseteq Nat
    BY BoundsAreNumbers DEF BoundInv
  <1>20. ASSUME NEW j \in Jobs, Becomes(r, j), found' = found, Computed(r)'
         PROVE  job' \in [Threads -> Jobs] /\ \A u \in Threads : Computed(u)'
    <2>1. \A u \in Threads \ {r} : Computed(u)'
      BY <1>0, <1>20, ComputedStays DEF Becomes
    <2> QED
      BY <1>20, <2>1 DEF Becomes
  <1>1. CASE Cast(r)
    <2>1. UNCHANGED <<incumbent, mpiBest, isLocal, bound, found>> /\ job[r].at = "none"
      BY <1>1 DEF Cast
    <2> DEFINE n == [job[r] EXCEPT !.at = "send", !.by = "poll"]
    <2>2. job' = [job EXCEPT ![r] = n] \/ job' = job
      BY <1>1 DEF Cast
    <2>3. n \in Jobs /\ n.at = "send" /\ n.by = "poll"
      BY <1>0 DEF Jobs, Stages
    <2> HIDE DEF n
    <2>4. job' \in [Threads -> Jobs] /\ \A u \in Threads : Computed(u)'
      <3>1. CASE job' = job
        BY <1>0, <2>1, <3>1, ComputedStays
      <3>2. CASE job' = [job EXCEPT ![r] = n]
        <4>1. Becomes(r, n)
          BY <1>0, <2>3, <3>2 DEF Becomes
        <4>2. Computed(r)'
          BY <2>3, <4>1 DEF Becomes, Computed, Offering, Searched
        <4> QED
          BY <1>20, <2>1, <2>3, <4>1, <4>2
      <3> QED
        BY <2>2, <3>1, <3>2
    <2>5. lastSent' \in [Ranks -> Cuts]
      BY <1>1, <1>b DEF Cast, BoundInv
    <2> QED
      BY <2>1, <2>4, <2>5 DEF BoundInv, incumbent, Cuts
  <1>2. CASE TakeBound(r)
    <2>1. PICK s \in Ranks :
              /\ bound[s][r] # <<>>
              /\ \E v \in {Head(bound[s][r]), mpiBest[s]} :
                    IF v < mpiBest[r]
                    THEN /\ mpiBest' = [mpiBest EXCEPT ![r] = v]
                         /\ isLocal' = [isLocal EXCEPT ![r] = FALSE]
                    ELSE UNCHANGED <<mpiBest, isLocal>>
              /\ bound' = [bound EXCEPT ![s][r] = Tail(bound[s][r])]
      BY <1>2 DEF TakeBound
    <2>2. bound \in [Ranks -> [Ranks -> Seq(Nat)]] /\ bound[s][r] \in Seq(Nat)
      BY DEF BoundInv
    <2>3. Head(bound[s][r]) = bound[s][r][1] /\ 1 \in DOMAIN bound[s][r] /\ Tail(bound[s][r]) \in Seq(Nat)
      BY <2>1, <2>2
    <2>4. Head(bound[s][r]) \in Cuts /\ mpiBest[s] \in Cuts
      BY <2>3 DEF BoundInv
    <2>5. mpiBest' \in [Ranks -> Cuts] /\ isLocal' \in [Ranks -> BOOLEAN]
      <3>1. PICK v \in Cuts : \/ /\ mpiBest' = [mpiBest EXCEPT ![r] = v]
                                /\ isLocal' = [isLocal EXCEPT ![r] = FALSE]
                             \/ UNCHANGED <<mpiBest, isLocal>>
        BY <2>1, <2>4
      <3> QED
        BY <3>1 DEF BoundInv
    <2>6. bound' \in [Ranks -> [Ranks -> Seq(Nat)]]
      BY <2>1, <2>2, <2>3
    <2>7. UNCHANGED <<incumbent, lastSent, job, found>>
      BY <1>2 DEF TakeBound, history
    <2>8. ASSUME NEW a \in Ranks, NEW d \in Ranks, NEW k \in DOMAIN bound'[a][d]
          PROVE  bound'[a][d][k] \in Cuts
      <3>1. CASE bound'[a][d] = bound[a][d]
        BY <3>1 DEF BoundInv
      <3>2. CASE bound'[a][d] = Tail(bound[a][d]) /\ bound[a][d] # <<>>
        <4> DEFINE q == bound[a][d]
        <4>1. q \in Seq(Nat) /\ q # <<>> /\ k \in DOMAIN Tail(q) /\ bound'[a][d][k] = Tail(q)[k]
          BY <2>2, <3>2
        <4>4. \A i \in DOMAIN q : q[i] \in Cuts
          BY DEF BoundInv
        <4> HIDE DEF q
        <4>2. Len(q) \in Nat \ {0} /\ DOMAIN Tail(q) = 1 .. Len(q) - 1 /\ DOMAIN q = 1 .. Len(q)
          BY <4>1
        <4>3. k + 1 \in DOMAIN q /\ Tail(q)[k] = q[k + 1]
          BY <4>1, <4>2
        <4> QED
          BY <4>1, <4>3, <4>4
      <3>3. bound'[a][d] = bound[a][d] \/ (bound'[a][d] = Tail(bound[a][d]) /\ bound[a][d] # <<>>)
        BY <2>1, <2>2
      <3> QED
        BY <3>1, <3>2, <3>3
    <2>9. \A u \in Threads : Computed(u)'
      BY <1>0, <2>7, ComputedStays
    <2> QED
      BY <2>5, <2>6, <2>7, <2>8, <2>9 DEF BoundInv, incumbent, Cuts
  <1>3. CASE Refresh(r)
    <2>1. UNCHANGED <<incumbent, bounds, found>>
      BY <1>3 DEF Refresh, history
    <2> DEFINE n == [job[r] EXCEPT !.at = "store", !.read = Least(mpiBest[r], gub[r])]
    <2>2. job' = [job EXCEPT ![r] = n]
      BY <1>3 DEF Refresh
    <2>3. Least(mpiBest[r], gub[r]) \in Cuts /\ Least(mpiBest[r], gub[r]) \in Nat
      BY <1>b, LeastOf
    <2>4. n \in Jobs /\ n.at = "store" /\ n.read = Least(mpiBest[r], gub[r])
      BY <1>0, <2>3 DEF Jobs, Stages
    <2> HIDE DEF n
    <2>5. Becomes(r, n)
      BY <1>0, <2>2, <2>4 DEF Becomes
    <2>6. Computed(r)'
      BY <2>1, <2>3, <2>4, <2>5 DEF Becomes, Computed, Offering, Searched, Cuts
    <2>7. job' \in [Threads -> Jobs] /\ \A u \in Threads : Computed(u)'
      BY <1>20, <2>1, <2>4, <2>5, <2>6
    <2> QED
      BY <2>1, <2>7 DEF BoundInv, incumbent, bounds, Cuts
  <1>4. CASE Store(r)
    <2>1. UNCHANGED <<best, init, before, after, bounds, found>> /\ job[r].at = "store" /\ Return(r)
      BY <1>4 DEF Store, history
    <2>2. gub' = [gub EXCEPT ![r] = job[r].read] /\ job[r].read \in Cuts
      BY <1>0, <1>4, <2>1 DEF Store, Computed
    <2>3. Becomes(r, NoJob) /\ NoJob.at = "none" /\ NoJob \in Jobs
      BY <1>0, <2>1, Returned DEF NoJob, Jobs, Stages
    <2>4. Computed(r)'
      BY <2>3 DEF Becomes, Computed, Offering, Searched
    <2>5. job' \in [Threads -> Jobs] /\ \A u \in Threads : Computed(u)'
      BY <1>20, <2>1, <2>3, <2>4
    <2>6. gub' \in [Ranks -> Cuts]
      BY <2>2 DEF BoundInv
    <2> QED
      BY <2>1, <2>5, <2>6 DEF BoundInv, bounds, Cuts
  <1> QED
    BY <1>1, <1>2, <1>3, <1>4

\* The steps of a worker that look for problems leave bounds and cuts alone.
LEMMA QuietStep ==
    ASSUME NEW r \in Ranks, Step(r),
           ~(Cast(r) \/ TakeBound(r) \/ Refresh(r) \/ Store(r)), ~(PullToSolve(r) \/ KeepChild(r))
    PROVE  UNCHANGED search
  <1>1. CASE Prepare(r) \/ ProbeFinds(r) \/ ProbeMisses(r) \/ PullToSend(r) \/ SendChild(r) \/ Branched(r)
    BY <1>1 DEF Prepare, ProbeFinds, ProbeMisses, PullToSend, SendChild, Branched
  <1>2. CASE Ask(r) \/ HearNeed(r) \/ HearHave(r) \/ HearEmpty(r) \/ HearAllEmpty(r) \/ Receive(r)
    BY <1>2 DEF Ask, HearNeed, HearHave, HearEmpty, HearAllEmpty, Receive
  <1>3. CASE Count(r) \/ Counted(r) \/ Answer(r) \/ Leave(r)
    BY <1>3 DEF Count, Counted, Answer, Leave
  <1> QED
    BY <1>1, <1>2, <1>3 DEF Step

\* Every step of a worker keeps the bounds values of cuts.
LEMMA StepBounds ==
    ASSUME BoundInv, WorkTypes, NEW r \in Ranks, Step(r)
    PROVE  BoundInv'
  <1>1. CASE Cast(r) \/ TakeBound(r) \/ Refresh(r) \/ Store(r)
    BY <1>1, HearBounds
  <1>2. CASE PullToSolve(r)
    <2>1. PICK p \in open[r] : Begin(r, p, "update") \/ NothingToOffer
      BY <1>2 DEF PullToSolve
    <2>2. p \in Problems
      BY DEF WorkTypes
    <2> QED
      BY <1>2, <2>1, <2>2, BeginBounds DEF PullToSolve
  <1>3. CASE KeepChild(r)
    <2>1. PICK c \in kids[r] : Begin(r, c, "process") \/ NothingToOffer
      BY <1>3 DEF KeepChild
    <2>2. c \in Problems
      BY DEF WorkTypes
    <2> QED
      BY <1>3, <2>1, <2>2, BeginBounds DEF KeepChild
  <1>4. CASE ~(Cast(r) \/ TakeBound(r) \/ Refresh(r) \/ Store(r)) /\ ~(PullToSolve(r) \/ KeepChild(r))
    <2>1. UNCHANGED search
      BY <1>4, QuietStep
    <2> QED
      BY <2>1, ComputedStays DEF search, history, incumbent, bounds, BoundInv, Cuts
  <1> QED
    BY <1>1, <1>2, <1>3, <1>4

\* Rank 0's thread has the root's cut to offer, and nobody has heard of any bound.
LEMMA InitBounds == Init => BoundInv
  <1> SUFFICES ASSUME Init PROVE BoundInv
    OBVIOUS
  <1>1. Root \in Problems /\ Value[Root] \in Nat /\ found = {Value[Root]} /\ Inf \in Nat
    BY ProblemsAssumption, Values DEF Init
  <1>2. Inf \in Cuts /\ Value[Root] \in Cuts
    BY <1>1 DEF Cuts
  <1>3. /\ gub \in [Ranks -> Cuts] /\ best \in [Ranks -> Cuts]
        /\ lastSent \in [Ranks -> Cuts] /\ mpiBest \in [Ranks -> Cuts]
        /\ init \in [Ranks -> BOOLEAN] /\ isLocal \in [Ranks -> BOOLEAN]
    BY <1>2 DEF Init
  <1>4. before \in [Ranks -> [Ks -> Cuts]] /\ after \in [Ranks -> [Ks -> Nat]]
    BY <1>1, <1>2 DEF Init, Unknown
  <1>5. /\ bound \in [Ranks -> [Ranks -> Seq(Nat)]]
        /\ \A s, d \in Ranks : \A k \in DOMAIN bound[s][d] : bound[s][d][k] \in Cuts
    BY DEF Init, Silent
  <1> DEFINE m == [NoJob EXCEPT !.at = "offer", !.cut = Root, !.by = "update"]
  <1>6. NoJob \in Jobs /\ NoJob.at = "none" /\ m \in Jobs /\ m.at = "offer" /\ m.cut = Root
    BY <1>1 DEF NoJob, Jobs, Stages
  <1>7. job = [t \in Threads |-> IF t = Main THEN m ELSE NoJob]
    BY DEF Init
  <1> HIDE DEF m
  <1>8. job \in [Threads -> Jobs] /\ \A t \in Threads : Computed(t)
    BY <1>1, <1>6, <1>7 DEF Computed, Offering, Searched
  <1> QED
    BY <1>1, <1>3, <1>4, <1>5, <1>8 DEF BoundInv

\* The types of the search are kept by every step.
LEMMA StepWorkTypes ==
    ASSUME WorkTypes, NEW r \in Ranks, Step(r)
    PROVE  WorkTypes'
  <1>0. open \in [Ranks -> SUBSET Problems] /\ kids \in [Ranks -> SUBSET Problems]
    BY DEF WorkTypes
  <1>1. CASE Cast(r) \/ TakeBound(r) \/ Refresh(r) \/ Store(r) \/ ProbeMisses(r) \/ Branched(r)
             \/ Count(r) \/ Leave(r)
    BY <1>1 DEF Cast, TakeBound, Refresh, Store, ProbeMisses, Branched, Count, Leave, WorkTypes, work, PCs
  <1>2. CASE ProbeFinds(r) \/ Ask(r) \/ HearNeed(r) \/ HearHave(r) \/ HearEmpty(r)
             \/ HearAllEmpty(r) \/ Counted(r) \/ Answer(r)
    <2>1. UNCHANGED <<open, kids, problem>>
      BY <1>2 DEF ProbeFinds, Ask, HearNeed, HearHave, HearEmpty, HearAllEmpty, Counted, Answer, work
    <2>2. pc' \in [Ranks -> PCs] /\ peer' \in [Ranks -> Ranks \cup {NoRank}]
      <3>1. CASE ProbeFinds(r)
        BY <3>1 DEF ProbeFinds, WorkTypes, PCs
      <3>5. CASE Ask(r)
        <4>1. pc' = [pc EXCEPT ![r] = "await"] /\ \E s \in Ranks : peer' = [peer EXCEPT ![r] = s]
          BY <3>5 DEF Ask
        <4> QED
          BY <4>1 DEF WorkTypes, PCs
      <3>6. CASE HearNeed(r)
        BY <3>6 DEF HearNeed, WorkTypes, PCs
      <3>2. CASE HearHave(r)
        BY <3>2 DEF HearHave, WorkTypes, PCs
      <3>3. CASE HearEmpty(r)
        BY <3>3 DEF HearEmpty, WorkTypes, PCs
      <3>4. CASE HearAllEmpty(r) \/ Counted(r) \/ Answer(r)
        BY <3>4 DEF HearAllEmpty, Counted, Answer, WorkTypes, PCs
      <3> QED
        BY <1>2, <3>1, <3>2, <3>3, <3>4, <3>5, <3>6
    <2>3. \A u \in Ranks \ {r} : pc'[u] = pc[u] /\ peer'[u] = peer[u]
      BY <1>2 DEF ProbeFinds, Ask, HearNeed, HearHave, HearEmpty, HearAllEmpty, Counted, Answer, WorkTypes
    <2>4. pc'[r] = "receive" => peer'[r] \in Ranks
      <3>1. CASE HearHave(r)
        BY <3>1 DEF HearHave, Heard, WorkTypes
      <3>2. CASE ~HearHave(r)
        BY <1>2, <3>2 DEF ProbeFinds, Ask, HearNeed, HearEmpty, HearAllEmpty, Counted, Answer, Heard, WorkTypes
      <3> QED
        BY <3>1, <3>2
    <2> QED
      BY <2>1, <2>2, <2>3, <2>4 DEF WorkTypes
  <1>3. CASE Prepare(r)
    <2>1. open' \in [Ranks -> SUBSET Problems] /\ UNCHANGED <<kids, problem, peer>>
      BY <1>3 DEF Prepare, WorkTypes
    <2>2. pc' \in [Ranks -> PCs] /\ pc'[r] # "receive" /\ \A u \in Ranks \ {r} : pc'[u] = pc[u]
      BY <1>3 DEF Prepare, WorkTypes, PCs
    <2> QED
      BY <2>1, <2>2 DEF WorkTypes
  <1>4. CASE PullToSolve(r)
    <2>1. open' \in [Ranks -> SUBSET Problems] /\ UNCHANGED <<problem, peer>>
      BY <1>4 DEF PullToSolve, WorkTypes
    <2>2. kids' \in [Ranks -> SUBSET Problems]
      <3>1. PICK p \in open[r] : kids' = kids \/ kids' = [kids EXCEPT ![r] = Children[p]]
        BY <1>4 DEF PullToSolve
      <3>2. Children[p] \in SUBSET Problems
        BY <1>0, ProblemsAssumption
      <3> QED
        BY <1>0, <3>1, <3>2
    <2>3. pc' \in [Ranks -> PCs] /\ pc'[r] # "receive" /\ \A u \in Ranks \ {r} : pc'[u] = pc[u]
      <3>1. \E to \in {"poll", "child"} : pc' = [pc EXCEPT ![r] = to]
        BY <1>4 DEF PullToSolve
      <3> QED
        BY <3>1 DEF WorkTypes, PCs
    <2> QED
      BY <2>1, <2>2, <2>3 DEF WorkTypes
  <1>5. CASE KeepChild(r)
    <2>1. PICK c \in kids[r] : /\ kids' = [kids EXCEPT ![r] = kids[r] \ {c}]
                               /\ open' = open \/ open' = [open EXCEPT ![r] = open[r] \cup ({c} \ Direct)]
      BY <1>5 DEF KeepChild
    <2>2. open' \in [Ranks -> SUBSET Problems] /\ kids' \in [Ranks -> SUBSET Problems]
      BY <1>0, <2>1
    <2>3. UNCHANGED <<problem, peer, pc>>
      BY <1>5 DEF KeepChild
    <2> QED
      BY <2>2, <2>3 DEF WorkTypes
  <1>6. CASE PullToSend(r)
    <2>1. PICK p \in open[r] : /\ open' = [open EXCEPT ![r] = open[r] \ {p}]
                               /\ problem' = [problem EXCEPT ![r][peer[r]] = Append(problem[r][peer[r]], p)]
      BY <1>6 DEF PullToSend, GiveAway
    <2>2. problem' \in [Ranks -> [Ranks -> Seq(Problems)]]
      BY <1>6, <2>1 DEF PullToSend, WorkTypes
    <2>3. open' \in [Ranks -> SUBSET Problems] /\ kids' \in [Ranks -> SUBSET Problems]
      BY <1>6, <2>1 DEF PullToSend, WorkTypes
    <2>4. /\ pc' \in [Ranks -> PCs] /\ peer' \in [Ranks -> Ranks \cup {NoRank}]
          /\ \A u \in Ranks : pc'[u] = "receive" => peer'[u] \in Ranks
      BY <1>6 DEF PullToSend, WorkTypes, PCs
    <2> QED
      BY <2>2, <2>3, <2>4 DEF WorkTypes
  <1>7. CASE SendChild(r)
    <2>1. PICK c \in kids[r], s \in Ranks :
              /\ kids' = [kids EXCEPT ![r] = kids[r] \ {c}]
              /\ problem' = [problem EXCEPT ![r][s] = Append(problem[r][s], c)]
      BY <1>7 DEF SendChild, GiveAway
    <2>2. problem' \in [Ranks -> [Ranks -> Seq(Problems)]]
      BY <2>1 DEF WorkTypes
    <2>3. kids' \in [Ranks -> SUBSET Problems]
      BY <2>1 DEF WorkTypes
    <2> QED
      BY <1>7, <2>2, <2>3 DEF SendChild, WorkTypes
  <1>8. CASE Receive(r)
    <2>1. peer[r] \in Ranks /\ problem[peer[r]][r] \in Seq(Problems) /\ problem[peer[r]][r] # << >>
      BY <1>8 DEF Receive, WorkTypes
    <2>2. Head(problem[peer[r]][r]) \in Problems /\ Tail(problem[peer[r]][r]) \in Seq(Problems)
      BY <2>1
    <2>3. problem' \in [Ranks -> [Ranks -> Seq(Problems)]]
      BY <1>8, <2>1, <2>2 DEF Receive, WorkTypes
    <2>4. open' \in [Ranks -> SUBSET Problems] /\ kids' \in [Ranks -> SUBSET Problems]
      BY <1>8, <2>2 DEF Receive, WorkTypes
    <2>5. /\ pc' \in [Ranks -> PCs] /\ peer' \in [Ranks -> Ranks \cup {NoRank}]
          /\ \A u \in Ranks : pc'[u] = "receive" => peer'[u] \in Ranks
      BY <1>8 DEF Receive, WorkTypes, PCs
    <2> QED
      BY <2>3, <2>4, <2>5 DEF WorkTypes
  <1> QED
    BY <1>1, <1>2, <1>3, <1>4, <1>5, <1>6, <1>7, <1>8 DEF Step

\* An offer moves no problem.
LEMMA OfferElsewhere == ASSUME NEW t \in Threads, OfferStep(t) PROVE UNCHANGED elsewhere
  BY DEF OfferStep, Offer, Compare, Bound1, Copy1, Polish, RecordAfter, RecordBefore, Again,
         Bound2, Copy2, Share, Send, Swap, SetBound, CopySolution

\* What every step keeps of types and bounds, whatever the number of ranks.
RankInv == WorkTypes /\ BoundInv

\* For any number of ranks: every bound that a rank holds, has read or has sent to
\* another is the value of a cut that some rank has computed, whatever two threads of
\* rank 0 overwrite of each other's work (findBestSolution, updateBound,
\* broadcastImprovedSolution, getGlobalBestSolution).
THEOREM BoundsAreCuts == Spec => []RankInv
  <1>1. Init => RankInv
    <2>1. Init => WorkTypes
      BY RankZero, ProblemsAssumption DEF Init, WorkTypes, Silent, PCs
    <2> QED
      BY <2>1, InitBounds DEF RankInv
  <1>2. RankInv /\ [Next]_vars => RankInv'
    <2> SUFFICES ASSUME RankInv, [Next]_vars PROVE RankInv'
      OBVIOUS
    <2>1. ASSUME NEW r \in Ranks, Step(r) PROVE RankInv'
      BY <2>1, StepWorkTypes, StepBounds DEF RankInv
    <2>2. ASSUME NEW t \in Threads, OfferStep(t) PROVE RankInv'
      <3>1. UNCHANGED elsewhere
        BY <2>2, OfferElsewhere
      <3>2. WorkTypes'
        BY <3>1 DEF RankInv, WorkTypes, elsewhere, work
      <3> QED
        BY <2>2, <3>2, OfferBounds DEF RankInv
    <2>3. CASE UNCHANGED vars
      <3>1. WorkTypes'
        BY <2>3 DEF vars, work, RankInv, WorkTypes
      <3>2. BoundInv'
        BY <2>3, ComputedStays DEF vars, incumbent, bounds, history, RankInv, BoundInv, Cuts
      <3> QED
        BY <3>1, <3>2 DEF RankInv
    <2> QED
      BY <2>1, <2>2, <2>3 DEF Next, Ended
  <1> QED
    BY <1>1, <1>2, PTL DEF Spec

-----------------------------------------------------------------------------
(* The work, for any number of ranks.                                        *)

\* Cuts once computed are not forgotten.
LEMMA FoundGrows ==
    ASSUME NEW r \in Ranks, Step(r)
    PROVE  found \subseteq found'
  <1>1. CASE Cast(r) \/ TakeBound(r) \/ Refresh(r) \/ Store(r)
    BY <1>1 DEF Cast, TakeBound, Refresh, Store, history
  <1>2. CASE PullToSolve(r) \/ KeepChild(r)
    BY <1>2 DEF PullToSolve, KeepChild, Begin, NothingToOffer
  <1> QED
    BY <1>1, <1>2, QuietStep DEF search, history

\* A leaf whose cut was computed, or a lighter one, stays so.
LEMMA FoundStays ==
    ASSUME found \subseteq found', NEW l, Found(l)
    PROVE  Found(l)'
  BY DEF Found

\* A bound that a problem cannot improve on is the value of a computed cut.
LEMMA HopelessFound ==
    ASSUME BoundInv, NEW r \in Ranks, NEW p \in Problems, Hopeless(r, p), NEW l \in Under[p]
    PROVE  Found(l)
  <1>1. /\ LB[p] <= Value[l] /\ LB[p] \in Nat /\ Value[l] \in Nat /\ Value[l] < Inf /\ Inf \in Nat
    BY BoundsAssumption, ProblemsAssumption DEF Leaves
  <1>2. gub[r] \in Cuts /\ gub[r] \in Nat
    BY BoundsAreNumbers DEF BoundInv
  <1> QED
    BY <1>1, <1>2 DEF Hopeless, Found, Cuts

\* A solved problem is its own leaf; a leaf below a branched one is below a child.
LEMMA LeafUnderItself ==
    ASSUME NEW p \in Problems, NEW l \in Under[p]
    PROVE  /\ l \in Leaves /\ l \in Problems
           /\ Children[p] = {} => l = p
           /\ Children[p] # {} => \E c \in Children[p] : l \in Under[c]
  BY ProblemsAssumption DEF Leaves

\* A leaf whose cut a worker turns to is computed.
LEMMA BeginFound ==
    ASSUME NEW r \in Ranks, NEW p \in Problems, NEW f, Begin(r, p, f)
    PROVE  Found(p)'
  BY Values DEF Begin, Found

\* Wherever a leaf has a place, it has one after the step, or it is cut.
LEMMA StepLeaf ==
    ASSUME WorkTypes, BoundInv, KidsPlaced, NEW r \in Ranks, Step(r),
           NEW l \in Leaves, Has(l)
    PROVE  Has(l)' \/ Found(l)'
  <1>0. /\ open \in [Ranks -> SUBSET Problems] /\ kids \in [Ranks -> SUBSET Problems]
        /\ l \in Problems /\ found \subseteq found'
    BY FoundGrows DEF WorkTypes, Leaves
  <1>1. ASSUME UNCHANGED <<open, kids, problem>> PROVE Has(l)'
    BY <1>1 DEF Has
  <1>2. CASE Prepare(r)
    <2>1. PICK D \in SUBSET {p \in open[r] : Hopeless(r, p)} : open' = [open EXCEPT ![r] = open[r] \ D]
      BY <1>2 DEF Prepare
    <2>2. UNCHANGED <<kids, problem>>
      BY <1>2 DEF Prepare
    <2>3. ASSUME NEW p \in D, l \in Under[p] PROVE Found(l)'
      <3>1. Found(l)
        BY <1>0, <2>3, HopelessFound
      <3> QED
        BY <1>0, <3>1, FoundStays
    <2>4. \A u \in Ranks : open[u] \subseteq open'[u] \cup D
      BY <1>0, <2>1
    <2> QED
      BY <2>2, <2>3, <2>4 DEF Has
  <1>3. CASE PullToSend(r)
    <2>1. PICK p \in open[r] : /\ open' = [open EXCEPT ![r] = open[r] \ {p}]
                               /\ problem' = [problem EXCEPT ![r][peer[r]] = Append(problem[r][peer[r]], p)]
                               /\ kids' = kids /\ peer[r] \in Ranks
      BY <1>3 DEF PullToSend, GiveAway, WorkTypes
    <2>2. problem[r][peer[r]] \in Seq(Problems) /\ p \in Problems
      BY <1>0, <2>1 DEF WorkTypes
    <2>3. /\ problem'[r][peer[r]] = Append(problem[r][peer[r]], p)
          /\ \A s, d \in Ranks : <<s, d>> # <<r, peer[r]>> => problem'[s][d] = problem[s][d]
      BY <2>1 DEF WorkTypes
    <2>4. /\ Len(problem[r][peer[r]]) + 1 \in DOMAIN problem'[r][peer[r]]
          /\ problem'[r][peer[r]][Len(problem[r][peer[r]]) + 1] = p
          /\ \A k \in DOMAIN problem[r][peer[r]] :
                k \in DOMAIN problem'[r][peer[r]] /\ problem'[r][peer[r]][k] = problem[r][peer[r]][k]
      BY <2>2, <2>3, AppendedItems
    <2>5. \A u \in Ranks : open[u] \subseteq open'[u] \cup {p}
      BY <1>0, <2>1
    <2>6. l \in Under[p] => Has(l)'
      BY <2>1, <2>4 DEF Has
    <2>7. ASSUME NEW s \in Ranks, NEW d \in Ranks, NEW k \in DOMAIN problem[s][d],
                 l \in Under[problem[s][d][k]]
          PROVE  Has(l)'
      <3>1. k \in DOMAIN problem'[s][d] /\ problem'[s][d][k] = problem[s][d][k]
        BY <2>3, <2>4
      <3> QED
        BY <2>7, <3>1 DEF Has
    <2> QED
      BY <2>1, <2>5, <2>6, <2>7 DEF Has
  <1>4. CASE PullToSolve(r)
    <2>1. PICK p \in open[r] : open' = [open EXCEPT ![r] = open[r] \ {p}]
                              /\ IF Hopeless(r, p) THEN UNCHANGED kids
                                 ELSE /\ Children[p] = {} => Begin(r, p, "update")
                                      /\ kids' = [kids EXCEPT ![r] = Children[p]]
      BY <1>4 DEF PullToSolve
    <2>2. kids[r] = {} /\ problem' = problem /\ p \in Problems
      BY <1>0, <1>4 DEF PullToSolve, KidsPlaced
    <2>3. \A u \in Ranks : kids[u] \subseteq kids'[u] /\ open[u] \subseteq open'[u] \cup {p}
      BY <1>0, <2>1, <2>2
    <2>4. ASSUME l \in Under[p] PROVE Has(l)' \/ Found(l)'
      <3>1. CASE Hopeless(r, p)
        <4>1. Found(l)
          BY <2>2, <2>4, <3>1, HopelessFound
        <4> QED
          BY <1>0, <4>1, FoundStays
      <3>2. CASE ~Hopeless(r, p) /\ Children[p] = {}
        <4>1. l = p /\ Begin(r, p, "update")
          BY <2>1, <2>2, <2>4, <3>2, LeafUnderItself
        <4> QED
          BY <2>2, <4>1, BeginFound
      <3>3. CASE ~Hopeless(r, p) /\ Children[p] # {}
        <4>1. PICK c \in Children[p] : l \in Under[c]
          BY <2>2, <2>4, <3>3, LeafUnderItself
        <4>2. c \in kids'[r] /\ c \in Problems
          BY <1>0, <2>1, <2>2, <3>3, ProblemsAssumption
        <4> QED
          BY <4>1, <4>2 DEF Has
      <3> QED
        BY <3>1, <3>2, <3>3
    <2> QED
      BY <2>2, <2>3, <2>4 DEF Has
  <1>5. CASE SendChild(r)
    <2>1. PICK c \in kids[r], s \in Ranks :
              /\ kids' = [kids EXCEPT ![r] = kids[r] \ {c}]
              /\ problem' = [problem EXCEPT ![r][s] = Append(problem[r][s], c)]
              /\ open' = open
      BY <1>5 DEF SendChild, GiveAway
    <2>2. problem[r][s] \in Seq(Problems) /\ c \in Problems
      BY <1>0, <2>1 DEF WorkTypes
    <2>3. /\ problem'[r][s] = Append(problem[r][s], c)
          /\ \A t, d \in Ranks : <<t, d>> # <<r, s>> => problem'[t][d] = problem[t][d]
      BY <2>1 DEF WorkTypes
    <2>4. /\ Len(problem[r][s]) + 1 \in DOMAIN problem'[r][s]
          /\ problem'[r][s][Len(problem[r][s]) + 1] = c
          /\ \A k \in DOMAIN problem[r][s] :
                k \in DOMAIN problem'[r][s] /\ problem'[r][s][k] = problem[r][s][k]
      BY <2>2, <2>3, AppendedItems
    <2>5. \A u \in Ranks : kids[u] \subseteq kids'[u] \cup {c}
      BY <1>0, <2>1
    <2>6. l \in Under[c] => Has(l)'
      BY <2>4 DEF Has
    <2>7. ASSUME NEW t \in Ranks, NEW d \in Ranks, NEW k \in DOMAIN problem[t][d],
                 l \in Under[problem[t][d][k]]
          PROVE  Has(l)'
      <3>1. k \in DOMAIN problem'[t][d] /\ problem'[t][d][k] = problem[t][d][k]
        BY <2>3, <2>4
      <3> QED
        BY <2>7, <3>1 DEF Has
    <2> QED
      BY <2>1, <2>5, <2>6, <2>7 DEF Has
  <1>6. CASE KeepChild(r)
    <2>1. PICK c \in kids[r] :
              /\ kids' = [kids EXCEPT ![r] = kids[r] \ {c}]
              /\ IF c \notin Direct /\ Hopeless(r, c) THEN UNCHANGED open
                 ELSE /\ open' = [open EXCEPT ![r] = open[r] \cup ({c} \ Direct)]
                      /\ Value[c] < before[r][Terms[c]] => Begin(r, c, "process")
      BY <1>6 DEF KeepChild
    <2>2. problem' = problem /\ c \in Problems
      BY <1>0, <1>6 DEF KeepChild
    <2>3. \A u \in Ranks : kids[u] \subseteq kids'[u] \cup {c} /\ open[u] \subseteq open'[u]
      BY <1>0, <2>1
    <2>4. ASSUME l \in Under[c] PROVE Has(l)' \/ Found(l)'
      <3>1. CASE c \notin Direct /\ Hopeless(r, c)
        <4>1. Found(l)
          BY <2>2, <2>4, <3>1, HopelessFound
        <4> QED
          BY <1>0, <4>1, FoundStays
      <3>2. CASE c \in Direct
        <4>1. l = c
          BY <2>2, <2>4, <3>2, LeafUnderItself, ProblemsAssumption DEF Leaves
        <4>2. CASE Value[c] < before[r][Terms[c]]
          <5>1. Begin(r, c, "process")
            BY <2>1, <3>2, <4>2
          <5> QED
            BY <2>2, <4>1, <5>1, BeginFound
        <4>3. CASE ~(Value[c] < before[r][Terms[c]])
          <5>1. before[r][Terms[c]] \in Cuts /\ before[r][Terms[c]] \in Nat
            BY <2>2, Values, BoundsAreNumbers DEF BoundInv
          <5>2. Found(l)
            BY <2>2, <4>1, <4>3, <5>1, Values DEF Found, Cuts
          <5> QED
            BY <1>0, <5>2, FoundStays
        <4> QED
          BY <4>2, <4>3
      <3>3. CASE c \notin Direct /\ ~Hopeless(r, c)
        <4>1. c \in open'[r]
          BY <1>0, <2>1, <3>3
        <4> QED
          BY <2>2, <2>4, <4>1 DEF Has
      <3> QED
        BY <3>1, <3>2, <3>3
    <2> QED
      BY <2>2, <2>3, <2>4 DEF Has
  <1>7. CASE Receive(r)
    <2> DEFINE q == problem[peer[r]][r]
    <2>1. /\ peer[r] \in Ranks /\ q \in Seq(Problems) /\ q # << >> /\ kids' = kids
          /\ open' = [open EXCEPT ![r] = open[r] \cup {Head(q)}]
          /\ problem' = [problem EXCEPT ![peer[r]][r] = Tail(q)]
      BY <1>7 DEF Receive, WorkTypes
    <2>2. /\ problem'[peer[r]][r] = Tail(q)
          /\ \A s, d \in Ranks : <<s, d>> # <<peer[r], r>> => problem'[s][d] = problem[s][d]
      BY <2>1 DEF WorkTypes
    <2>3. ASSUME NEW k \in DOMAIN q
          PROVE  q[k] = Head(q) \/ \E j \in DOMAIN Tail(q) : Tail(q)[j] = q[k]
      <3> HIDE DEF q
      <3>1. Len(q) \in Nat \ {0} /\ DOMAIN Tail(q) = 1 .. Len(q) - 1 /\ DOMAIN q = 1 .. Len(q)
        BY <2>1
      <3>2. CASE k = 1
        BY <2>1, <3>2
      <3>3. CASE k # 1
        <4>1. k - 1 \in DOMAIN Tail(q) /\ Tail(q)[k - 1] = q[k]
          BY <2>1, <3>1, <3>3
        <4> QED
          BY <4>1
      <3> QED
        BY <3>2, <3>3
    <2>4. Head(q) \in open'[r] /\ Head(q) \in Problems /\ \A u \in Ranks : open[u] \subseteq open'[u]
      BY <1>0, <2>1
    <2>5. \A s, d \in Ranks : \A k \in DOMAIN problem[s][d] : l \in Under[problem[s][d][k]] => Has(l)'
      <3> SUFFICES ASSUME NEW s \in Ranks, NEW d \in Ranks, NEW k \in DOMAIN problem[s][d],
                          l \in Under[problem[s][d][k]]
                   PROVE  Has(l)'
        OBVIOUS
      <3>1. CASE <<s, d>> = <<peer[r], r>>
        <4>1. q[k] = Head(q) \/ \E j \in DOMAIN Tail(q) : Tail(q)[j] = q[k]
          BY <2>3, <3>1
        <4> HIDE DEF q
        <4>2. problem[s][d] = q
          BY <3>1 DEF q
        <4> QED
          BY <2>1, <2>2, <2>4, <4>1, <4>2 DEF Has
      <3>2. CASE <<s, d>> # <<peer[r], r>>
        BY <2>2, <3>2 DEF Has
      <3> QED
        BY <3>1, <3>2
    <2> QED
      BY <2>1, <2>4, <2>5 DEF Has
  <1>8. \/ Prepare(r) \/ PullToSend(r) \/ PullToSolve(r) \/ SendChild(r) \/ KeepChild(r) \/ Receive(r)
        \/ UNCHANGED <<open, kids, problem>>
    BY DEF Step, Cast, TakeBound, Refresh, Store, ProbeFinds, ProbeMisses, Branched,
           Ask, HearNeed, HearHave, HearEmpty, HearAllEmpty, Count, Counted, Answer, Leave, work
  <1> QED
    BY <1>1, <1>2, <1>3, <1>4, <1>5, <1>6, <1>7, <1>8

\* Children exist only while a rank branches.
LEMMA StepKids ==
    ASSUME WorkTypes, KidsPlaced, NEW r \in Ranks, Step(r)
    PROVE  KidsPlaced'
  <1>0. pc \in [Ranks -> PCs] /\ kids \in [Ranks -> SUBSET Problems]
    BY DEF WorkTypes
  <1>1. \A u \in Ranks \ {r} : pc'[u] = pc[u] /\ kids'[u] = kids[u]
    BY <1>0 DEF Step, Cast, Prepare, TakeBound, Refresh, Store, ProbeFinds, ProbeMisses, PullToSend, PullToSolve,
           SendChild, KeepChild, Branched, Ask, HearNeed, HearHave, HearEmpty, HearAllEmpty, Receive,
           Count, Counted, Answer, Leave, work
  <1>2. CASE PullToSolve(r)
    <2>1. pc'[r] # "child" => kids'[r] = {}
      BY <1>0, <1>2 DEF PullToSolve, KidsPlaced
    <2> QED
      BY <1>1, <2>1 DEF KidsPlaced
  <1>3. CASE SendChild(r) \/ KeepChild(r)
    BY <1>1, <1>3 DEF SendChild, KeepChild, KidsPlaced
  <1>4. CASE Branched(r)
    BY <1>1, <1>4 DEF Branched, KidsPlaced, work
  <1>5. CASE kids' = kids /\ pc[r] # "child"
    BY <1>1, <1>5 DEF KidsPlaced
  <1>6. \/ PullToSolve(r) \/ SendChild(r) \/ KeepChild(r) \/ Branched(r)
        \/ kids' = kids /\ pc[r] # "child"
    BY DEF Step, Cast, Prepare, TakeBound, Refresh, Store, ProbeFinds, ProbeMisses, PullToSend,
           Ask, HearNeed, HearHave, HearEmpty, HearAllEmpty, Heard, Receive, Count, Counted, Answer, Leave, work
  <1> QED
    BY <1>2, <1>3, <1>4, <1>5, <1>6

\* Every step keeps the leaves placed or cut.
LEMMA StepWork ==
    ASSUME WorkTypes, BoundInv, WorkInv, NEW r \in Ranks, Step(r)
    PROVE  WorkInv'
  <1>1. KidsPlaced'
    BY StepKids DEF WorkInv
  <1>2. LeafSafe'
    <2> SUFFICES ASSUME NEW l \in Leaves PROVE (Has(l) \/ Found(l))'
      BY DEF LeafSafe
    <2>1. Has(l) \/ Found(l)
      BY DEF WorkInv, LeafSafe
    <2> QED
      BY <2>1, StepLeaf, FoundGrows, FoundStays DEF WorkInv
  <1> QED
    BY <1>1, <1>2 DEF WorkInv

\* For any number of ranks: no optimum is lost.  A leaf of the search tree stays
\* below a problem that some rank holds or that is on its way to one, until a cut as
\* light as its own has been computed, though the bounds that drop problems may rise
\* again (prepareQueue, solveProblem, processNewProblem, sendProblem, recvProblem).
THEOREM NoLeafLost == Spec => []WorkInv
  <1>1. Init => WorkInv
    <2> SUFFICES ASSUME Init PROVE KidsPlaced /\ LeafSafe
      BY DEF WorkInv
    <2>1. 0 \in Ranks /\ open[0] = {Root} /\ \A u \in Ranks : kids[u] = {}
      BY RankZero DEF Init
    <2> QED
      BY <2>1, ProblemsAssumption DEF KidsPlaced, LeafSafe, Has
  <1>2. RankInv /\ WorkInv /\ [Next]_vars => WorkInv'
    <2> SUFFICES ASSUME RankInv, WorkInv, [Next]_vars PROVE WorkInv'
      OBVIOUS
    <2>1. ASSUME NEW r \in Ranks, Step(r) PROVE WorkInv'
      BY <2>1, StepWork DEF RankInv
    <2>2. ASSUME UNCHANGED <<open, kids, problem, pc>>, found \subseteq found' PROVE WorkInv'
      BY <2>2, FoundStays DEF WorkInv, KidsPlaced, LeafSafe, Has
    <2>3. ASSUME NEW t \in Threads, OfferStep(t) PROVE WorkInv'
      <3>1. UNCHANGED <<open, kids, problem, pc>>
        BY <2>3, OfferElsewhere DEF elsewhere, work
      <3>2. found \subseteq found'
        BY <2>3 DEF OfferStep, Offer, Compare, Bound1, Copy1, Polish, RecordAfter, RecordBefore,
                    Again, Bound2, Copy2, Share, Send, Swap, SetBound, CopySolution
      <3> QED
        BY <2>2, <3>1, <3>2
    <2>4. CASE UNCHANGED vars
      BY <2>2, <2>4 DEF vars, work, history
    <2> QED
      BY <2>1, <2>3, <2>4 DEF Next, Ended
  <1> QED
    BY <1>1, <1>2, BoundsAreCuts, PTL DEF Spec

\* If the ranks find out rightly that all work is done, a cut as light as any leaf's
\* has been computed.
LEMMA FoundIfEmpty == RankInv /\ WorkInv /\ StopsWhenEmpty => ResultFound
  <1> SUFFICES ASSUME RankInv, WorkInv, StopsWhenEmpty, AllOut, NEW l \in Leaves
               PROVE  \E v \in found : v <= Value[l]
    BY DEF ResultFound
  <1>1. Stopped(0) /\ 0 \in Ranks
    BY RankZero DEF AllOut, Stopped
  <1>2. ~Has(l)
    BY <1>1 DEF StopsWhenEmpty, Working, Travelling, Has, RankInv, WorkTypes
  <1> QED
    BY <1>2 DEF WorkInv, LeafSafe, Found

-----------------------------------------------------------------------------
(* Channels                                                                  *)

\* What is taken from the front of a channel.
LEMMA Taken ==
    ASSUME NEW q \in Seq(Kinds), q # << >>, NEW K, NEW L
    PROVE  /\ Tail(q) \in Seq(Kinds) /\ Head(q) \in Kinds
           /\ Contains(q, K) <=> Head(q) \in K \/ Contains(Tail(q), K)
           /\ OneOf(q, K) => OneOf(Tail(q), K)
           /\ OneOf(q, K) /\ Head(q) \in K => ~Contains(Tail(q), K)
           /\ Before(q, K, L) => Before(Tail(q), K, L)
           /\ Before(q, K, L) /\ Head(q) \in L => ~Contains(q, K)
  <1>1. Len(q) \in Nat \ {0} /\ DOMAIN Tail(q) = 1 .. Len(q) - 1 /\ DOMAIN q = 1 .. Len(q)
    OBVIOUS
  <1>2. \A k \in DOMAIN Tail(q) : k \in Nat \ {0} /\ k + 1 \in DOMAIN q /\ Tail(q)[k] = q[k + 1]
    BY <1>1
  <1>3. 1 \in DOMAIN q /\ q[1] = Head(q) /\ Tail(q) \in Seq(Kinds) /\ Head(q) \in Kinds
    BY <1>1
  <1>4. \A k \in DOMAIN q : k \in Nat /\ (k = 1 \/ (k - 1 \in DOMAIN Tail(q) /\ Tail(q)[k - 1] = q[k]))
    BY <1>1, <1>2
  <1>5. Contains(q, K) <=> Head(q) \in K \/ Contains(Tail(q), K)
    BY <1>2, <1>3, <1>4 DEF Contains
  <1>6. OneOf(q, K) => OneOf(Tail(q), K)
    <2> SUFFICES ASSUME OneOf(q, K), NEW j \in DOMAIN Tail(q), NEW k \in DOMAIN Tail(q),
                        Tail(q)[j] \in K, Tail(q)[k] \in K
                 PROVE  j = k
      BY DEF OneOf
    <2>1. j + 1 = k + 1
      BY <1>2 DEF OneOf
    <2> QED
      BY <1>2, <2>1
  <1>7. OneOf(q, K) /\ Head(q) \in K => ~Contains(Tail(q), K)
    <2> SUFFICES ASSUME OneOf(q, K), Head(q) \in K, NEW k \in DOMAIN Tail(q), Tail(q)[k] \in K
                 PROVE  FALSE
      BY DEF Contains
    <2>1. k + 1 = 1
      BY <1>2, <1>3 DEF OneOf
    <2> QED
      BY <1>2, <2>1
  <1>8. Before(q, K, L) => Before(Tail(q), K, L)
    <2> SUFFICES ASSUME Before(q, K, L), NEW j \in DOMAIN Tail(q), NEW k \in DOMAIN Tail(q),
                        Tail(q)[j] \in K, Tail(q)[k] \in L
                 PROVE  j < k
      BY DEF Before
    <2>1. j + 1 < k + 1
      BY <1>2 DEF Before
    <2> QED
      BY <1>2, <2>1
  <1>9. Before(q, K, L) /\ Head(q) \in L => ~Contains(q, K)
    <2> SUFFICES ASSUME Before(q, K, L), Head(q) \in L, NEW k \in DOMAIN q, q[k] \in K
                 PROVE  FALSE
      BY DEF Contains
    <2>1. k < 1 /\ k \in 1 .. Len(q)
      BY <1>1, <1>3 DEF Before
    <2> QED
      BY <1>1, <2>1
  <1> QED
    BY <1>3, <1>5, <1>6, <1>7, <1>8, <1>9

\* What is put at the end of a channel.
LEMMA Put ==
    ASSUME NEW q \in Seq(Kinds), NEW m \in Kinds, NEW K, NEW L
    PROVE  /\ Append(q, m) \in Seq(Kinds)
           /\ Contains(Append(q, m), K) <=> m \in K \/ Contains(q, K)
           /\ OneOf(q, K) /\ (m \in K => ~Contains(q, K)) => OneOf(Append(q, m), K)
           /\ Before(q, K, L) /\ (m \in K => ~Contains(q, L) /\ m \notin L)
                 => Before(Append(q, m), K, L)
  <1> DEFINE p == Append(q, m)
  <1>1. Len(q) \in Nat /\ DOMAIN q = 1 .. Len(q) /\ DOMAIN p = 1 .. Len(q) + 1 /\ p \in Seq(Kinds)
    OBVIOUS
  <1>2. /\ \A k \in DOMAIN q : k \in DOMAIN p /\ p[k] = q[k]
        /\ p[Len(q) + 1] = m /\ Len(q) + 1 \in DOMAIN p
    BY <1>1
  <1>3. \A k \in DOMAIN p : k \in Nat /\ (k \in DOMAIN q \/ k = Len(q) + 1)
    BY <1>1
  <1>4. \A k \in DOMAIN q : k \in Nat /\ k < Len(q) + 1
    BY <1>1
  <1> HIDE DEF p
  <1>5. Contains(p, K) <=> m \in K \/ Contains(q, K)
    BY <1>2, <1>3 DEF Contains
  <1>6. OneOf(q, K) /\ (m \in K => ~Contains(q, K)) => OneOf(p, K)
    BY <1>2, <1>3 DEF OneOf, Contains
  <1>7. Before(q, K, L) /\ (m \in K => ~Contains(q, L) /\ m \notin L) => Before(p, K, L)
    <2> SUFFICES ASSUME Before(q, K, L), m \in K => ~Contains(q, L) /\ m \notin L,
                        NEW j \in DOMAIN p, NEW k \in DOMAIN p, p[j] \in K, p[k] \in L
                 PROVE  j < k
      BY DEF Before
    <2>1. CASE j \in DOMAIN q /\ k \in DOMAIN q
      BY <1>2, <2>1 DEF Before
    <2>2. CASE j = Len(q) + 1
      BY <1>2, <1>3, <2>2 DEF Contains
    <2>3. CASE j \in DOMAIN q /\ k = Len(q) + 1
      BY <1>4, <2>3
    <2> QED
      BY <1>3, <2>1, <2>2, <2>3
  <1> QED
    BY <1>1, <1>5, <1>6, <1>7 DEF p

\* An answer is either of its two kinds.
LEMMA AnswersContain ==
    ASSUME NEW q
    PROVE  Contains(q, {"have", "emptyAsWell"}) <=> Answers(q)
  BY DEF Contains, Answers, Gives, Denies

\* The kinds of messages that are left when the first one is taken.
LEMMA TakenInOrder ==
    ASSUME NEW q \in Seq(Kinds), q # << >>, InOrder(q)
    PROVE  /\ Tail(q) \in Seq(Kinds) /\ Head(q) \in Kinds /\ InOrder(Tail(q))
           /\ Asks(q) <=> Head(q) = "need" \/ Asks(Tail(q))
           /\ Gives(q) <=> Head(q) = "have" \/ Gives(Tail(q))
           /\ Denies(q) <=> Head(q) = "emptyAsWell" \/ Denies(Tail(q))
           /\ Ends(q) <=> Head(q) = "allEmpty" \/ Ends(Tail(q))
           /\ Head(q) = "need" => ~Asks(Tail(q)) /\ ~Gives(Tail(q))
           /\ Head(q) # "need" => ~Answers(Tail(q))
  <1>1. Tail(q) \in Seq(Kinds) /\ Head(q) \in Kinds
    BY Taken
  <1>2. Asks(q) <=> Head(q) = "need" \/ Asks(Tail(q))
    BY Taken DEF Asks
  <1>3. Gives(q) <=> Head(q) = "have" \/ Gives(Tail(q))
    BY Taken DEF Gives
  <1>4. Denies(q) <=> Head(q) = "emptyAsWell" \/ Denies(Tail(q))
    BY Taken DEF Denies
  <1>5. Ends(q) <=> Head(q) = "allEmpty" \/ Ends(Tail(q))
    BY Taken DEF Ends
  <1>6. InOrder(Tail(q))
    BY Taken DEF InOrder
  <1>7. Head(q) = "need" => ~Asks(Tail(q)) /\ ~Gives(Tail(q))
    <2> SUFFICES ASSUME Head(q) = "need" PROVE ~Asks(Tail(q)) /\ ~Gives(Tail(q))
      OBVIOUS
    <2>1. ~Asks(Tail(q))
      BY Taken DEF Asks, InOrder
    <2>2. ~Contains(q, {"have"})
      BY Taken DEF InOrder
    <2> QED
      BY <1>3, <2>1, <2>2 DEF Gives
  <1>8. Head(q) # "need" => ~Answers(Tail(q))
    <2>1. Head(q) \in {"have", "emptyAsWell"} => ~Contains(Tail(q), {"have", "emptyAsWell"})
      BY Taken DEF InOrder
    <2>2. Head(q) = "allEmpty" => ~Contains(q, {"have", "emptyAsWell"})
      BY Taken DEF InOrder
    <2>3. Contains(Tail(q), {"have", "emptyAsWell"}) => Contains(q, {"have", "emptyAsWell"})
      BY Taken
    <2> QED
      BY <1>1, <2>1, <2>2, <2>3, AnswersContain DEF Kinds
  <1> QED
    BY <1>1, <1>2, <1>3, <1>4, <1>5, <1>6, <1>7, <1>8

\* The kinds of messages that are there when one is added.
LEMMA PutInOrder ==
    ASSUME NEW q \in Seq(Kinds), NEW m \in Kinds, InOrder(q),
           m = "need" => ~Asks(q),
           m = "have" => ~Asks(q) /\ ~Answers(q) /\ ~Ends(q),
           m = "emptyAsWell" => ~Answers(q) /\ ~Ends(q)
    PROVE  /\ Append(q, m) \in Seq(Kinds) /\ InOrder(Append(q, m))
           /\ Asks(Append(q, m)) <=> m = "need" \/ Asks(q)
           /\ Gives(Append(q, m)) <=> m = "have" \/ Gives(q)
           /\ Denies(Append(q, m)) <=> m = "emptyAsWell" \/ Denies(q)
           /\ Ends(Append(q, m)) <=> m = "allEmpty" \/ Ends(q)
  <1>1. Append(q, m) \in Seq(Kinds)
    BY Put
  <1>2. Asks(Append(q, m)) <=> m = "need" \/ Asks(q)
    BY Put DEF Asks
  <1>3. Gives(Append(q, m)) <=> m = "have" \/ Gives(q)
    BY Put DEF Gives
  <1>4. Denies(Append(q, m)) <=> m = "emptyAsWell" \/ Denies(q)
    BY Put DEF Denies
  <1>5. Ends(Append(q, m)) <=> m = "allEmpty" \/ Ends(q)
    BY Put DEF Ends
  <1>6. OneOf(Append(q, m), {"need"})
    BY Put DEF Asks, InOrder
  <1>7. OneOf(Append(q, m), {"have", "emptyAsWell"})
    BY Put, AnswersContain DEF InOrder
  <1>8. Before(Append(q, m), {"have"}, {"need"})
    BY Put DEF Asks, InOrder
  <1>9. Before(Append(q, m), {"have", "emptyAsWell"}, {"allEmpty"})
    BY Put DEF Ends, InOrder
  <1> QED
    BY <1>1, <1>2, <1>3, <1>4, <1>5, <1>6, <1>7, <1>8, <1>9 DEF InOrder

\* Two ranks are 0 and 1.
LEMMA OtherRank ==
    ASSUME M = 2, NEW r \in Ranks
    PROVE  \E s \in Ranks \ {r} : /\ Ranks = {r, s} /\ ((r = 0 /\ s = 1) \/ (r = 1 /\ s = 0))
                                   /\ NoRank \notin Ranks
  BY RankZero DEF Ranks

\* A message from the other rank is taken, and perhaps answered.
LEMMA PassedOn ==
    ASSUME StatusTypes, NEW r \in Ranks, NEW s \in Ranks \ {r}, Ranks = {r, s},
           status[r][r] = << >>, NEW x \in Ranks, Arrived(x, r),
           NEW out, out = << >> \/ \E m \in Kinds : out = <<m>>,
           status' = Passed(status, x, r, x, out)
    PROVE  /\ x = s /\ status[s][r] # << >> /\ StatusTypes'
           /\ status'[s][r] = Tail(status[s][r])
           /\ status'[r][r] = status[r][r] /\ status'[s][s] = status[s][s]
           /\ out = << >> => status'[r][s] = status[r][s]
           /\ \A m \in Kinds : out = <<m>> => status'[r][s] = Append(status[r][s], m)
  <1>1. x = s /\ status[s][r] # << >>
    BY DEF Arrived
  <1>2. status[s][r] \in Seq(Kinds) /\ status[r][s] \in Seq(Kinds) /\ Tail(status[s][r]) \in Seq(Kinds)
    BY <1>1 DEF StatusTypes
  <1>3. /\ status[r][s] \o out \in Seq(Kinds)
        /\ out = << >> => status[r][s] \o out = status[r][s]
        /\ \A m \in Kinds : out = <<m>> => status[r][s] \o out = Append(status[r][s], m)
    <2>1. CASE out = << >>
      <3>1. status[r][s] \o << >> = status[r][s]
        BY <1>2, ConcatEmptySeq
      <3>2. \A m \in Kinds : << >> # <<m>>
        OBVIOUS
      <3> QED
        BY <1>2, <2>1, <3>1, <3>2
    <2>2. CASE \E m \in Kinds : out = <<m>>
      <3>1. PICK m \in Kinds : out = <<m>>
        BY <2>2
      <3>2. Append(status[r][s], m) = status[r][s] \o <<m>>
        BY <1>2, AppendIsConcat
      <3>4. Append(status[r][s], m) \in Seq(Kinds)
        BY <1>2
      <3>3. out # << >> /\ \A n \in Kinds : out = <<n>> => n = m
        BY <3>1
      <3> QED
        BY <3>1, <3>2, <3>3, <3>4
    <2> QED
      BY <2>1, <2>2
  <1>4. /\ status'[s][r] = Tail(status[s][r]) /\ status'[r][s] = status[r][s] \o out
        /\ status'[r][r] = status[r][r] /\ status'[s][s] = status[s][s]
    BY <1>1 DEF Passed, StatusTypes
  <1>5. StatusTypes'
    BY <1>1, <1>2, <1>3 DEF Passed, StatusTypes
  <1> QED
    BY <1>1, <1>3, <1>4, <1>5

-----------------------------------------------------------------------------
(* Two ranks: every step keeps both sides.                                   *)

\* The two sides, and what the other rank keeps in a step of r.
Two(r, s) == /\ Ranks = {r, s} /\ r # s /\ ((r = 0 /\ s = 1) \/ (r = 1 /\ s = 0))
             /\ r # NoRank /\ s # NoRank /\ M = 2
Keeps(s) == pc'[s] = pc[s] /\ peer'[s] = peer[s] /\ open'[s] = open[s] /\ kids'[s] = kids[s]

\* A step of a rank that is at work, between two messages.
LEMMA LocalSides ==
    ASSUME NEW r \in Ranks, NEW s \in Ranks, Two(r, s), Side(r, s), Side(s, r),
           UNCHANGED <<status, problem>>, Keeps(s), peer'[r] = NoRank, peer[r] = NoRank,
           pc[r] \notin {"await", "receive", "barrier", "out"},
           pc'[r] \in {"poll", "prepare", "refresh", "probe", "pull", "child", "ask"},
           pc'[r] = "ask" => open'[r] = {},
           open[r] = {} /\ kids[r] = {} /\ pc[r] \in {"poll", "prepare", "ask", "count"}
             => open'[r] = {} /\ kids'[r] = {} /\ pc'[r] \in {"poll", "prepare", "ask"}
    PROVE  Side(r, s)' /\ Side(s, r)'
  <1>1. Requests(r, s)' /\ Requests(s, r)'
    BY DEF Side, Requests, Keeps, Two, Stopped, Over
  <1>2. Promises(r, s)' /\ Promises(s, r)'
    BY DEF Side, Promises, Promised, Keeps, Two
  <1>3. EmptyTold(r, s)' /\ EmptyTold(s, r)'
    BY DEF Side, EmptyTold, Idle, Promised, Keeps, Two
  <1>4. Over(r, s)' /\ Over(s, r)'
    BY DEF Side, Over, Idle, Promised, Keeps, Two, Stopped
  <1> QED
    BY <1>1, <1>2, <1>3, <1>4 DEF Side

\* The request of s has been taken, and answered with a promise.
PromiseSent(r, s) ==
    /\ status'[r][r] = << >> /\ status'[s][s] = << >>
    /\ pc[s] = "await" /\ Asks(status[s][r]) /\ ~Answers(status[r][s]) /\ ~Answers(status[s][r])
    /\ ~Asks(status[r][s]) /\ ~Ends(status[r][s])
    /\ ~Asks(status'[s][r]) /\ ~Answers(status'[s][r])
    /\ (Ends(status'[s][r]) => Ends(status[s][r]))
    /\ Gives(status'[r][s]) /\ ~Asks(status'[r][s]) /\ ~Denies(status'[r][s]) /\ ~Ends(status'[r][s])
    /\ InOrder(status'[r][s]) /\ InOrder(status'[s][r])
    /\ problem[r][s] = << >>

\* A rank at work takes the first message for a request and promises a problem: it
\* is a request, and the rank that sent it waits for the answer.
LEMMA PromiseTaken ==
    ASSUME WorkTypes, StatusTypes, KidsPlaced, NEW r \in Ranks, NEW s \in Ranks, Two(r, s),
           Side(r, s), Side(s, r), 
           NEW x \in Ranks, Promise(r, x), pc[r] \in {"probe", "child"}
    PROVE  x = s /\ StatusTypes' /\ PromiseSent(r, s)
  <1> DEFINE q == status[s][r]
             p == status[r][s]
  <1>1. Arrived(x, r) /\ status' = Passed(status, x, r, x, <<"have">>)
    BY DEF Promise
  <1>2. status[r][r] = << >> /\ status[s][s] = << >> /\ InOrder(q) /\ InOrder(p)
    BY DEF Side, Requests
  <1>3. "have" \in Kinds
    BY DEF Kinds
  <1>4. /\ x = s /\ q # << >> /\ StatusTypes'
        /\ status'[s][r] = Tail(q) /\ status'[r][r] = << >> /\ status'[s][s] = << >>
        /\ status'[r][s] = Append(p, "have")
    BY <1>1, <1>2, <1>3, PassedOn, r # s DEF Two
  <1>5. q \in Seq(Kinds) /\ p \in Seq(Kinds)
    BY DEF StatusTypes
  <1> HIDE DEF q, p
  <1>6. /\ Head(q) \in Kinds /\ InOrder(Tail(q))
        /\ Asks(q) <=> Head(q) = "need" \/ Asks(Tail(q))
        /\ Gives(q) <=> Head(q) = "have" \/ Gives(Tail(q))
        /\ Denies(q) <=> Head(q) = "emptyAsWell" \/ Denies(Tail(q))
        /\ Ends(q) <=> Head(q) = "allEmpty" \/ Ends(Tail(q))
        /\ Head(q) = "need" => ~Asks(Tail(q)) /\ ~Gives(Tail(q))
    BY <1>2, <1>4, <1>5, TakenInOrder
  <1>7. ~Answers(q) /\ ~Ends(q) /\ ~Asks(p) /\ ~Ends(p)
    BY DEF Side, Requests, Over, Idle, Stopped, Two, p, q
  <1>8. Head(q) = "need"
    BY <1>6, <1>7 DEF Kinds, Answers
  <1>9. Asks(q) /\ pc[s] = "await" /\ ~Answers(p)
    BY <1>6, <1>8 DEF Side, Requests, Over, Stopped, Two, p, q
  <1>10. /\ InOrder(Append(p, "have")) /\ Gives(Append(p, "have"))
         /\ ~Asks(Append(p, "have")) /\ ~Denies(Append(p, "have")) /\ ~Ends(Append(p, "have"))
    BY <1>2, <1>3, <1>5, <1>7, <1>9, PutInOrder DEF Answers
  <1>11. problem[r][s] = << >>
    BY <1>9 DEF Side, Promises, Promised, Answers, p
  <1> QED
    BY <1>4, <1>6, <1>7, <1>8, <1>9, <1>10, <1>11 DEF Answers, PromiseSent, p, q

\* A rank that finds a request promises a problem (checkForReceiver).
LEMMA ProbeFindsSides ==
    ASSUME WorkTypes, StatusTypes, KidsPlaced, NEW r \in Ranks, NEW s \in Ranks, Two(r, s),
           Side(r, s), Side(s, r), ProbeFinds(r)
    PROVE  StatusTypes' /\ Side(r, s)' /\ Side(s, r)'
  <1>0. PICK x \in Ranks : Promise(r, x) /\ peer' = [peer EXCEPT ![r] = x]
    BY DEF ProbeFinds
  <1>1. /\ pc[r] = "probe" /\ pc'[r] = "pull" /\ UNCHANGED <<open, kids, problem>>
        /\ pc'[s] = pc[s] /\ peer'[s] = peer[s] /\ peer'[r] = x
    BY <1>0 DEF ProbeFinds, WorkTypes, work, Two
  <1>6. x = s /\ StatusTypes' /\ PromiseSent(r, s)
    BY <1>0, <1>1, PromiseTaken
  <1>2. Requests(r, s)' /\ Requests(s, r)'
    BY <1>1, <1>6 DEF Side, Requests, Keeps, Two, Stopped, Answers, PromiseSent
  <1>3. Promises(r, s)' /\ Promises(s, r)'
    BY <1>1, <1>6 DEF Side, Requests, Promises, Promised, Keeps, Two, Answers, PromiseSent
  <1>4. EmptyTold(r, s)' /\ EmptyTold(s, r)'
    BY <1>1, <1>6 DEF Side, Requests, Promises, EmptyTold, Idle, Promised, Keeps, Two, Answers, KidsPlaced, PromiseSent
  <1>5. Over(r, s)' /\ Over(s, r)'
    BY <1>1, <1>6 DEF Side, Requests, EmptyTold, Over, Idle, Promised, Keeps, Two, Stopped, Answers, KidsPlaced, PromiseSent
  <1> QED
    BY <1>6, <1>2, <1>3, <1>4, <1>5 DEF Side

\* A child goes to the rank that asked (multiBranch).
LEMMA SendChildSides ==
    ASSUME WorkTypes, StatusTypes, KidsPlaced, NEW r \in Ranks, NEW s \in Ranks, Two(r, s),
           Side(r, s), Side(s, r), SendChild(r)
    PROVE  StatusTypes' /\ Side(r, s)' /\ Side(s, r)'
  <1>1. PICK c \in kids[r], x \in Ranks : Promise(r, x) /\ GiveAway(r, x, c) /\ kids' = [kids EXCEPT ![r] = kids[r] \ {c}]
    BY DEF SendChild
  <1>2. /\ pc[r] = "child" /\ UNCHANGED <<pc, peer, open>> /\ kids'[s] = kids[s]
    BY <1>1 DEF SendChild, WorkTypes, Two
  <1>3. x = s /\ StatusTypes' /\ PromiseSent(r, s)
    BY <1>1, <1>2, PromiseTaken
  <1>4. /\ Len(problem'[r][s]) = 1 /\ problem'[s][r] = problem[s][r]
        /\ problem'[r][r] = problem[r][r] /\ problem'[s][s] = problem[s][s]
    BY <1>1, <1>3 DEF GiveAway, WorkTypes, Two, PromiseSent
  <1>5. Requests(r, s)' /\ Requests(s, r)'
    BY <1>2, <1>3, <1>4 DEF Side, Requests, Promises, Promised, Over, Idle, Keeps, Two, Stopped, Answers, PromiseSent
  <1>6. Promises(r, s)' /\ Promises(s, r)'
    BY <1>2, <1>3, <1>4 DEF Side, Requests, Promises, Over, Idle, Stopped, Promised, Keeps, Two, Answers, PromiseSent
  <1>7. EmptyTold(r, s)' /\ EmptyTold(s, r)'
    BY <1>2, <1>3, <1>4 DEF Side, Requests, Promises, EmptyTold, Idle, Promised, Keeps, Two, Answers, KidsPlaced, PromiseSent
  <1>8. Over(r, s)' /\ Over(s, r)'
    BY <1>2, <1>3, <1>4 DEF Side, Requests, EmptyTold, Over, Idle, Promised, Keeps, Two, Stopped, Answers, KidsPlaced, PromiseSent
  <1> QED
    BY <1>3, <1>5, <1>6, <1>7, <1>8 DEF Side

\* The promised problem goes out (sendProblem).
LEMMA PullToSendSides ==
    ASSUME WorkTypes, StatusTypes, KidsPlaced, NEW r \in Ranks, NEW s \in Ranks, Two(r, s),
           Side(r, s), Side(s, r), PullToSend(r)
    PROVE  StatusTypes' /\ Side(r, s)' /\ Side(s, r)'
  <1>1. PICK p \in open[r] : open' = [open EXCEPT ![r] = open[r] \ {p}] /\ GiveAway(r, peer[r], p)
    BY DEF PullToSend
  <1>2. /\ pc[r] = "pull" /\ peer[r] # NoRank /\ pc'[r] = "poll" /\ peer'[r] = NoRank
        /\ UNCHANGED <<kids, status>> /\ Keeps(s)
    BY <1>1 DEF PullToSend, WorkTypes, Two, Keeps
  <1>3. peer[r] = s /\ problem[r][s] = << >> /\ Promised(s, r) /\ StatusTypes'
    BY <1>2 DEF Side, Requests, Promises, StatusTypes
  <1>4. /\ Len(problem'[r][s]) = 1 /\ problem'[s][r] = problem[s][r]
        /\ problem'[r][r] = problem[r][r] /\ problem'[s][s] = problem[s][s]
    BY <1>1, <1>3 DEF GiveAway, WorkTypes, Two
  <1>5. Requests(r, s)' /\ Requests(s, r)'
    BY <1>2, <1>3, <1>4 DEF Side, Requests, Promises, Promised, Over, Idle, Keeps, Two, Stopped, Answers
  <1>6. Promises(r, s)' /\ Promises(s, r)'
    BY <1>2, <1>3, <1>4 DEF Side, Requests, Promises, Over, Idle, Stopped, Promised, Keeps, Two, Answers
  <1>7. EmptyTold(r, s)' /\ EmptyTold(s, r)'
    BY <1>2, <1>3, <1>4 DEF Side, Requests, Promises, EmptyTold, Idle, Promised, Keeps, Two, Answers, KidsPlaced
  <1>8. Over(r, s)' /\ Over(s, r)'
    BY <1>2, <1>3, <1>4 DEF Side, Requests, EmptyTold, Over, Idle, Promised, Keeps, Two, Stopped, Answers, KidsPlaced
  <1> QED
    BY <1>3, <1>5, <1>6, <1>7, <1>8 DEF Side

\* The promised problem arrives (recvProblem).
LEMMA ReceiveSides ==
    ASSUME WorkTypes, StatusTypes, KidsPlaced, NEW r \in Ranks, NEW s \in Ranks, Two(r, s),
           Side(r, s), Side(s, r), Receive(r)
    PROVE  StatusTypes' /\ Side(r, s)' /\ Side(s, r)'
  <1>1. /\ pc[r] = "receive" /\ pc'[r] = "poll" /\ peer'[r] = NoRank /\ UNCHANGED <<kids, status>> /\ Keeps(s)
    BY DEF Receive, WorkTypes, Two, Keeps
  <1>2. peer[r] = s /\ problem[s][r] # << >> /\ Len(problem[s][r]) = 1 /\ StatusTypes'
    BY <1>1 DEF Receive, Side, Requests, Promises, StatusTypes
  <1>3. problem' = [problem EXCEPT ![s][r] = Tail(problem[s][r])] /\ problem[s][r] \in Seq(Problems)
    BY <1>2 DEF Receive, WorkTypes
  <1>4. Tail(problem[s][r]) = << >>
    <2>1. Tail(problem[s][r]) \in Seq(Problems) /\ Len(Tail(problem[s][r])) = 0
      BY <1>2, <1>3
    <2> QED
      BY <2>1, EmptySeq
  <1>5. /\ problem'[s][r] = << >> /\ problem'[r][s] = problem[r][s]
        /\ problem'[r][r] = problem[r][r] /\ problem'[s][s] = problem[s][s]
    BY <1>3, <1>4 DEF WorkTypes, Two
  <1>6. Requests(r, s)' /\ Requests(s, r)'
    BY <1>1, <1>2, <1>5 DEF Side, Requests, Promises, Promised, Over, Idle, Keeps, Two, Stopped, Answers
  <1>7. Promises(r, s)' /\ Promises(s, r)'
    BY <1>1, <1>2, <1>5 DEF Side, Requests, Promises, Over, Idle, Stopped, Promised, Keeps, Two, Answers
  <1>8. EmptyTold(r, s)' /\ EmptyTold(s, r)'
    BY <1>1, <1>2, <1>5 DEF Side, Requests, Promises, EmptyTold, Idle, Promised, Keeps, Two, Answers, KidsPlaced
  <1>9. Over(r, s)' /\ Over(s, r)'
    BY <1>1, <1>2, <1>5 DEF Side, Requests, EmptyTold, Over, Idle, Promised, Keeps, Two, Stopped, Answers, KidsPlaced
  <1> QED
    BY <1>2, <1>6, <1>7, <1>8, <1>9 DEF Side

\* An idle rank asks the other one.
LEMMA AskSides ==
    ASSUME WorkTypes, StatusTypes, KidsPlaced, NEW r \in Ranks, NEW s \in Ranks, Two(r, s),
           Side(r, s), Side(s, r), Ask(r)
    PROVE  StatusTypes' /\ Side(r, s)' /\ Side(s, r)'
  <1> DEFINE p == status[r][s]
  <1>1. PICK x \in Ranks \ {r} : peer' = [peer EXCEPT ![r] = x] /\ status' = [status EXCEPT ![r][x] = Append(status[r][x], "need")]
    BY DEF Ask
  <1>2. /\ x = s /\ pc[r] = "ask" /\ pc'[r] = "await" /\ peer'[r] = s
        /\ UNCHANGED <<open, kids, problem>> /\ Keeps(s)
    BY <1>1 DEF Ask, WorkTypes, Two, Keeps, work
  <1>3. p \in Seq(Kinds) /\ InOrder(p) /\ ~Asks(p) /\ "need" \in Kinds /\ Append(p, "need") \in Seq(Kinds)
    BY <1>2 DEF StatusTypes, Side, Requests, Stopped, Kinds
  <1>4. /\ status'[r][s] = Append(p, "need") /\ status'[s][r] = status[s][r]
        /\ status'[r][r] = status[r][r] /\ status'[s][s] = status[s][s] /\ StatusTypes'
    BY <1>1, <1>2, <1>3 DEF StatusTypes, Two
  <1>5. /\ InOrder(Append(p, "need"))
        /\ Gives(Append(p, "need")) <=> Gives(p)
        /\ Denies(Append(p, "need")) <=> Denies(p)
        /\ Ends(Append(p, "need")) <=> Ends(p)
    BY <1>3, PutInOrder
  <1> HIDE DEF p
  <1>6. /\ InOrder(status'[r][s])
        /\ Gives(status'[r][s]) <=> Gives(status[r][s])
        /\ Denies(status'[r][s]) <=> Denies(status[r][s])
        /\ Ends(status'[r][s]) <=> Ends(status[r][s])
    BY <1>4, <1>5 DEF p
  <1>7. Requests(r, s)' /\ Requests(s, r)'
    BY <1>2, <1>4, <1>6 DEF Side, Requests, Promises, Promised, Over, Idle, Keeps, Two, Stopped, Answers
  <1>8. Promises(r, s)' /\ Promises(s, r)'
    BY <1>2, <1>4, <1>6 DEF Side, Requests, Promises, Over, Idle, Stopped, Promised, Keeps, Two, Answers
  <1>9. EmptyTold(r, s)' /\ EmptyTold(s, r)'
    BY <1>2, <1>4, <1>6 DEF Side, Requests, Promises, EmptyTold, Idle, Promised, Keeps, Two, Answers, KidsPlaced
  <1>10. Over(r, s)' /\ Over(s, r)'
    BY <1>2, <1>4, <1>6 DEF Side, Requests, EmptyTold, Over, Idle, Promised, Keeps, Two, Stopped, Answers, KidsPlaced
  <1> QED
    BY <1>4, <1>7, <1>8, <1>9, <1>10 DEF Side


\* Channel q is w without its first message h.
Consumed(q, h, w) ==
    /\ Asks(q) <=> h = "need" \/ Asks(w)
    /\ Gives(q) <=> h = "have" \/ Gives(w)
    /\ Denies(q) <=> h = "emptyAsWell" \/ Denies(w)
    /\ Ends(q) <=> h = "allEmpty" \/ Ends(w)
    /\ h = "need" => ~Asks(w) /\ ~Gives(w)
    /\ h # "need" => ~Answers(w)

\* A message taken while the rank waits, or at the barrier.
LEMMA TakenFrom ==
    ASSUME WorkTypes, StatusTypes, KidsPlaced, NEW r \in Ranks, NEW s \in Ranks, Two(r, s),
           Side(r, s), Side(s, r), 
           NEW x \in Ranks, Arrived(x, r), NEW out, out = << >> \/ \E m \in Kinds : out = <<m>>,
           status' = Passed(status, x, r, x, out)
    PROVE  LET q == status[s][r]
               h == Head(q)
               w == status'[s][r]
           IN  /\ x = s /\ StatusTypes' /\ h \in Kinds
               /\ status'[r][r] = << >> /\ status'[s][s] = << >>
               /\ out = << >> => status'[r][s] = status[r][s]
               /\ \A m \in Kinds : out = <<m>> => status'[r][s] = Append(status[r][s], m)
               /\ InOrder(w) /\ InOrder(status[r][s]) /\ status[r][s] \in Seq(Kinds)
               /\ Consumed(q, h, w)
  <1> DEFINE q == status[s][r]
  <1>1. status[r][r] = << >> /\ status[s][s] = << >> /\ InOrder(q) /\ InOrder(status[r][s])
    BY DEF Side, Requests
  <1>2. /\ x = s /\ q # << >> /\ StatusTypes'
        /\ status'[s][r] = Tail(q) /\ status'[r][r] = << >> /\ status'[s][s] = << >>
        /\ out = << >> => status'[r][s] = status[r][s]
        /\ \A m \in Kinds : out = <<m>> => status'[r][s] = Append(status[r][s], m)
    BY <1>1, PassedOn DEF Two
  <1>3. q \in Seq(Kinds) /\ status[r][s] \in Seq(Kinds)
    BY DEF StatusTypes
  <1> HIDE DEF q
  <1>4. /\ Head(q) \in Kinds /\ InOrder(Tail(q))
        /\ Asks(q) <=> Head(q) = "need" \/ Asks(Tail(q))
        /\ Gives(q) <=> Head(q) = "have" \/ Gives(Tail(q))
        /\ Denies(q) <=> Head(q) = "emptyAsWell" \/ Denies(Tail(q))
        /\ Ends(q) <=> Head(q) = "allEmpty" \/ Ends(Tail(q))
        /\ Head(q) = "need" => ~Asks(Tail(q)) /\ ~Gives(Tail(q))
        /\ Head(q) # "need" => ~Answers(Tail(q))
    BY <1>1, <1>2, <1>3, TakenInOrder
  <1> QED
    BY <1>1, <1>2, <1>3, <1>4 DEF q, Consumed

\* A waiting rank says that it is empty as well: it has nothing and no promise.
LEMMA HearNeedSides ==
    ASSUME WorkTypes, StatusTypes, KidsPlaced, NEW r \in Ranks, NEW s \in Ranks, Two(r, s),
           Side(r, s), Side(s, r), HearNeed(r)
    PROVE  StatusTypes' /\ Side(r, s)' /\ Side(s, r)'
  <1> DEFINE q == status[s][r]
             h == Head(q)
             w == status'[s][r]
             v == status[r][s]
  <1>1. PICK x \in Ranks : /\ Arrived(x, r) /\ status' = Passed(status, x, r, x, <<"emptyAsWell">>)
                           /\ Head(status[x][r]) = "need"
    BY DEF HearNeed, Heard
  <1>2. "emptyAsWell" \in Kinds
    BY DEF Kinds
  <1>3. /\ x = s /\ StatusTypes' /\ h \in Kinds
        /\ status'[r][r] = << >> /\ status'[s][s] = << >>
        /\ InOrder(w) /\ InOrder(v) /\ v \in Seq(Kinds)
        /\ Consumed(q, h, w)
        /\ status'[r][s] = Append(v, "emptyAsWell")
    BY <1>1, <1>2, TakenFrom
  <1>4. /\ pc[r] = "await" /\ UNCHANGED <<open, kids, pc, peer, problem>> /\ h = "need"
    BY <1>1, <1>3 DEF HearNeed, Heard, work
  <1>5. /\ Asks(q) /\ pc[s] = "await" /\ ~Answers(v) /\ ~Ends(v) /\ kids[r] = {}
    BY <1>3, <1>4 DEF Side, Requests, Over, Stopped, Two, Answers, KidsPlaced, Consumed
  <1>6. /\ InOrder(status'[r][s])
        /\ Asks(status'[r][s]) <=> Asks(v)
        /\ Gives(status'[r][s]) <=> Gives(v)
        /\ Denies(status'[r][s]) <=> TRUE
        /\ Ends(status'[r][s]) <=> Ends(v)
    BY <1>2, <1>3, <1>5, PutInOrder
  <1> HIDE DEF q, h, w, v
  <1>7. ~Gives(q)
    BY <1>3, <1>4 DEF Consumed
  <1>8. Requests(r, s)' /\ Requests(s, r)'
    BY <1>3, <1>4, <1>5, <1>6, <1>7 DEF Side, Requests, Promises, Promised, Over, Idle, Keeps, Two, Stopped, Answers, Consumed, q, w, v
  <1>9. Promises(r, s)' /\ Promises(s, r)'
    BY <1>3, <1>4, <1>5, <1>6, <1>7 DEF Side, Requests, Promises, Over, Idle, Stopped, Promised, Keeps, Two, Answers, Consumed, q, w, v
  <1>10. EmptyTold(r, s)' /\ EmptyTold(s, r)'
    BY <1>3, <1>4, <1>5, <1>6, <1>7 DEF Side, Requests, Promises, Over, Stopped, EmptyTold, Idle, Promised, Keeps, Two, Answers, KidsPlaced, Consumed, q, w, v
  <1>11. Over(r, s)' /\ Over(s, r)'
    BY <1>3, <1>4, <1>5, <1>6, <1>7 DEF Side, Requests, EmptyTold, Over, Idle, Promised, Keeps, Two, Stopped, Answers, KidsPlaced, Consumed, q, w, v
  <1> QED
    BY <1>3, <1>8, <1>9, <1>10, <1>11 DEF Side

\* A promise is heard.
LEMMA HearHaveSides ==
    ASSUME WorkTypes, StatusTypes, KidsPlaced, NEW r \in Ranks, NEW s \in Ranks, Two(r, s),
           Side(r, s), Side(s, r), HearHave(r)
    PROVE  StatusTypes' /\ Side(r, s)' /\ Side(s, r)'
  <1> DEFINE q == status[s][r]
             h == Head(q)
             w == status'[s][r]
             v == status[r][s]
  <1>1. PICK x \in Ranks : /\ Arrived(x, r) /\ status' = Passed(status, x, r, x, << >>)
                           /\ Head(status[x][r]) = "have"
                           /\ x = peer[r] => pc' = [pc EXCEPT ![r] = "receive"]
    BY DEF HearHave, Heard
  <1>3. /\ x = s /\ StatusTypes' /\ h \in Kinds
        /\ status'[r][r] = << >> /\ status'[s][s] = << >>
        /\ InOrder(w) /\ InOrder(v) /\ v \in Seq(Kinds)
        /\ Consumed(q, h, w)
        /\ status'[r][s] = v
    BY <1>1, TakenFrom
  <1>4. pc[r] = "await" /\ UNCHANGED <<open, kids, peer, problem>> /\ h = "have" /\ peer[r] = s
    BY <1>1, <1>3 DEF HearHave, Heard, work, Side, Requests
  <1>5. pc'[r] = "receive" /\ pc'[s] = pc[s]
    BY <1>1, <1>3, <1>4 DEF WorkTypes, Two
  <1>6. Gives(q) /\ Answers(q) /\ ~Answers(w) /\ ~Asks(v)
    BY <1>3, <1>4 DEF Answers, Consumed, Side, Requests
  <1> HIDE DEF q, h, w, v
  <1>7. Requests(r, s)' /\ Requests(s, r)'
    BY <1>3, <1>4, <1>5, <1>6 DEF Side, Requests, Promises, Promised, Over, Idle, Keeps, Two, Stopped, Answers, Consumed, q, w, v
  <1>8. Promises(r, s)' /\ Promises(s, r)'
    BY <1>3, <1>4, <1>5, <1>6 DEF Side, Requests, Promises, Over, Idle, Stopped, Promised, Keeps, Two, Answers, Consumed, q, w, v
  <1>9. EmptyTold(r, s)' /\ EmptyTold(s, r)'
    BY <1>3, <1>4, <1>5, <1>6 DEF Side, Requests, Promises, Over, Stopped, EmptyTold, Idle, Promised, Keeps, Two, Answers, KidsPlaced, Consumed, q, w, v
  <1>10. Over(r, s)' /\ Over(s, r)'
    BY <1>3, <1>4, <1>5, <1>6 DEF Side, Requests, EmptyTold, Over, Idle, Promised, Keeps, Two, Stopped, Answers, KidsPlaced, Consumed, q, w, v
  <1> QED
    BY <1>3, <1>7, <1>8, <1>9, <1>10 DEF Side

\* The other rank is empty; the last rank goes on to count.
LEMMA HearEmptySides ==
    ASSUME WorkTypes, StatusTypes, KidsPlaced, NEW r \in Ranks, NEW s \in Ranks, Two(r, s),
           Side(r, s), Side(s, r), HearEmpty(r)
    PROVE  StatusTypes' /\ Side(r, s)' /\ Side(s, r)'
  <1> DEFINE q == status[s][r]
             h == Head(q)
             w == status'[s][r]
             v == status[r][s]
  <1>1. PICK x \in Ranks : /\ Arrived(x, r) /\ status' = Passed(status, x, r, x, << >>)
                           /\ Head(status[x][r]) = "emptyAsWell"
                           /\ Goto(r, IF x # peer[r] THEN "wrongSender" ELSE IF r = Last THEN "count" ELSE "poll")
    BY DEF HearEmpty, Heard
  <1>3. /\ x = s /\ StatusTypes' /\ h \in Kinds
        /\ status'[r][r] = << >> /\ status'[s][s] = << >>
        /\ InOrder(w) /\ InOrder(v) /\ v \in Seq(Kinds)
        /\ Consumed(q, h, w)
        /\ status'[r][s] = v
    BY <1>1, TakenFrom
  <1>4. /\ pc[r] = "await" /\ UNCHANGED <<open, kids, problem>> /\ h = "emptyAsWell" /\ peer[r] = s
        /\ peer'[r] = NoRank /\ peer'[s] = peer[s]
    BY <1>1, <1>3 DEF HearEmpty, Heard, work, Side, Requests, WorkTypes, Two
  <1>5. (pc'[r] = IF r = 1 THEN "count" ELSE "poll") /\ pc'[s] = pc[s]
    <2>1. r = Last <=> r = 1
      BY DEF Two, Last
    <2> QED
      BY <1>1, <1>3, <1>4, <2>1 DEF WorkTypes, Two
  <1>6. Denies(q) /\ ~Answers(w) /\ ~Asks(v) /\ open[r] = {} /\ kids[r] = {}
    BY <1>3, <1>4 DEF Answers, Consumed, Side, Requests, KidsPlaced
  <1> HIDE DEF q, h, w, v
  <1>7. Requests(r, s)' /\ Requests(s, r)'
    BY <1>3, <1>4, <1>5, <1>6 DEF Side, Requests, Promises, Promised, Over, Idle, Keeps, Two, Stopped, Answers, Consumed, q, w, v
  <1>8. Promises(r, s)' /\ Promises(s, r)'
    BY <1>3, <1>4, <1>5, <1>6 DEF Side, Requests, Promises, Over, Idle, Stopped, Promised, Keeps, Two, Answers, Consumed, q, w, v
  <1>9. EmptyTold(r, s)' /\ EmptyTold(s, r)'
    BY <1>3, <1>4, <1>5, <1>6 DEF Side, Requests, Promises, Over, Stopped, EmptyTold, Idle, Promised, Keeps, Two, Answers, KidsPlaced, Consumed, q, w, v
  <1>10. Over(r, s)' /\ Over(s, r)'
    BY <1>3, <1>4, <1>5, <1>6 DEF Side, Requests, EmptyTold, Over, Idle, Promised, Keeps, Two, Stopped, Answers, KidsPlaced, Consumed, q, w, v
  <1> QED
    BY <1>3, <1>7, <1>8, <1>9, <1>10 DEF Side

\* Only rank 0 hears the end, and only when rank 1 has stopped.
LEMMA HearAllEmptySides ==
    ASSUME WorkTypes, StatusTypes, KidsPlaced, NEW r \in Ranks, NEW s \in Ranks, Two(r, s),
           Side(r, s), Side(s, r), HearAllEmpty(r)
    PROVE  StatusTypes' /\ Side(r, s)' /\ Side(s, r)'
  <1> DEFINE q == status[s][r]
             h == Head(q)
             w == status'[s][r]
             v == status[r][s]
  <1>1. PICK x \in Ranks : /\ Arrived(x, r) /\ status' = Passed(status, x, r, x, << >>)
                           /\ Head(status[x][r]) = "allEmpty"
    BY DEF HearAllEmpty, Heard
  <1>3. /\ x = s /\ StatusTypes' /\ h \in Kinds
        /\ status'[r][r] = << >> /\ status'[s][s] = << >>
        /\ InOrder(w) /\ InOrder(v) /\ v \in Seq(Kinds)
        /\ Consumed(q, h, w)
        /\ status'[r][s] = v
    BY <1>1, TakenFrom
  <1>4. /\ pc[r] = "await" /\ UNCHANGED <<open, kids, problem>> /\ h = "allEmpty"
        /\ peer'[r] = NoRank /\ peer'[s] = peer[s] /\ pc'[r] = "barrier" /\ pc'[s] = pc[s]
    BY <1>1, <1>3 DEF HearAllEmpty, Heard, work, WorkTypes, Two
  <1>5. Ends(q) /\ ~Answers(w)
    BY <1>3, <1>4 DEF Consumed
  <1>6. Stopped(s) /\ r = 0 /\ s = 1
    BY <1>4, <1>5 DEF Side, Over, Stopped, Two
  <1> HIDE DEF q, h, w, v
  <1>7. Requests(r, s)' /\ Requests(s, r)'
    BY <1>3, <1>4, <1>5, <1>6 DEF Side, Requests, Promises, Promised, Over, Idle, Keeps, Two, Stopped, Answers, Consumed, q, w, v
  <1>8. Promises(r, s)' /\ Promises(s, r)'
    BY <1>3, <1>4, <1>5, <1>6 DEF Side, Requests, Promises, Over, Idle, Stopped, Promised, Keeps, Two, Answers, Consumed, q, w, v
  <1>9. EmptyTold(r, s)' /\ EmptyTold(s, r)'
    BY <1>3, <1>4, <1>5, <1>6 DEF Side, Requests, Promises, Over, Stopped, EmptyTold, Idle, Promised, Keeps, Two, Answers, KidsPlaced, Consumed, q, w, v
  <1>10. Over(r, s)' /\ Over(s, r)'
    BY <1>3, <1>4, <1>5, <1>6 DEF Side, Requests, EmptyTold, Over, Idle, Promised, Keeps, Two, Stopped, Answers, KidsPlaced, Consumed, q, w, v
  <1> QED
    BY <1>3, <1>7, <1>8, <1>9, <1>10 DEF Side

\* At the barrier every message is answered with the end.
LEMMA AnswerSides ==
    ASSUME WorkTypes, StatusTypes, KidsPlaced, NEW r \in Ranks, NEW s \in Ranks, Two(r, s),
           Side(r, s), Side(s, r), Answer(r)
    PROVE  StatusTypes' /\ Side(r, s)' /\ Side(s, r)'
  <1> DEFINE q == status[s][r]
             h == Head(q)
             w == status'[s][r]
             v == status[r][s]
  <1>1. PICK x \in Ranks : Arrived(x, r) /\ status' = Passed(status, x, r, x, <<"allEmpty">>)
    BY DEF Answer, Heard
  <1>2. "allEmpty" \in Kinds
    BY DEF Kinds
  <1>3. /\ x = s /\ StatusTypes' /\ h \in Kinds
        /\ status'[r][r] = << >> /\ status'[s][s] = << >>
        /\ InOrder(w) /\ InOrder(v) /\ v \in Seq(Kinds)
        /\ Consumed(q, h, w)
        /\ status'[r][s] = Append(v, "allEmpty")
    BY <1>1, <1>2, TakenFrom
  <1>4. pc[r] = "barrier" /\ UNCHANGED <<open, kids, pc, peer, problem>>
    BY DEF Answer, work
  <1>6. /\ InOrder(status'[r][s])
        /\ Asks(status'[r][s]) <=> Asks(v)
        /\ Gives(status'[r][s]) <=> Gives(v)
        /\ Denies(status'[r][s]) <=> Denies(v)
        /\ Ends(status'[r][s]) <=> TRUE
    BY <1>2, <1>3, PutInOrder
  <1> HIDE DEF q, h, w, v
  <1>7. Requests(r, s)' /\ Requests(s, r)'
    BY <1>3, <1>4, <1>6 DEF Side, Requests, Promises, Promised, Over, Idle, Keeps, Two, Stopped, Answers, Consumed, q, w, v
  <1>8. Promises(r, s)' /\ Promises(s, r)'
    BY <1>3, <1>4, <1>6 DEF Side, Requests, Promises, Over, Idle, Stopped, Promised, Keeps, Two, Answers, Consumed, q, w, v
  <1>9. EmptyTold(r, s)' /\ EmptyTold(s, r)'
    BY <1>3, <1>4, <1>6 DEF Side, Requests, Promises, Over, Stopped, EmptyTold, Idle, Promised, Keeps, Two, Answers, KidsPlaced, Consumed, q, w, v
  <1>10. Over(r, s)' /\ Over(s, r)'
    BY <1>3, <1>4, <1>6 DEF Side, Requests, EmptyTold, Over, Idle, Promised, Keeps, Two, Stopped, Answers, KidsPlaced, Consumed, q, w, v
  <1> QED
    BY <1>3, <1>7, <1>8, <1>9, <1>10 DEF Side

\* The last rank ends the search, or goes on.
LEMMA CountedSides ==
    ASSUME WorkTypes, StatusTypes, KidsPlaced, NEW r \in Ranks, NEW s \in Ranks, Two(r, s),
           Side(r, s), Side(s, r), Counted(r)
    PROVE  StatusTypes' /\ Side(r, s)' /\ Side(s, r)'
  <1> DEFINE v == status[r][s]
  <1>1. /\ pc[r] = "count" /\ r = 1 /\ s = 0 /\ UNCHANGED <<open, kids, peer, problem>> /\ pc'[s] = pc[s]
    BY DEF Counted, work, Side, Requests, Two, WorkTypes
  <1>2. CASE AllDone
    <2>1. pc'[r] = "barrier" /\ status' = [status EXCEPT ![r][s] = Append(status[r][s], "allEmpty")]
      BY <1>1, <1>2 DEF Counted, WorkTypes
    <2>2. v \in Seq(Kinds) /\ InOrder(v) /\ "allEmpty" \in Kinds /\ Append(v, "allEmpty") \in Seq(Kinds)
      BY DEF StatusTypes, Side, Requests, Kinds
    <2>3. /\ status'[r][s] = Append(v, "allEmpty") /\ status'[s][r] = status[s][r]
          /\ status'[r][r] = status[r][r] /\ status'[s][s] = status[s][s] /\ StatusTypes'
      BY <2>1, <2>2 DEF StatusTypes, Two
    <2>4. /\ InOrder(status'[r][s]) /\ Ends(status'[r][s])
          /\ Asks(status'[r][s]) <=> Asks(v)
          /\ Gives(status'[r][s]) <=> Gives(v)
          /\ Denies(status'[r][s]) <=> Denies(v)
      BY <2>2, <2>3, PutInOrder
    <2>5. Requests(r, s)' /\ Requests(s, r)'
      BY <1>1, <2>1, <2>3, <2>4 DEF Side, Requests, Promises, Promised, Over, Idle, Keeps, Two, Stopped, Answers
    <2>6. Promises(r, s)' /\ Promises(s, r)'
      BY <1>1, <2>1, <2>3, <2>4 DEF Side, Requests, Promises, Over, Idle, Stopped, Promised, Keeps, Two, Answers
    <2>7. EmptyTold(r, s)' /\ EmptyTold(s, r)'
      BY <1>1, <2>1, <2>3, <2>4 DEF Side, Requests, Promises, Over, Stopped, EmptyTold, Idle, Promised, Keeps, Two, Answers, KidsPlaced
    <2>8. Over(r, s)' /\ Over(s, r)'
      BY <1>1, <2>1, <2>3, <2>4 DEF Side, Requests, EmptyTold, Over, Idle, Promised, Keeps, Two, Stopped, Answers, KidsPlaced
    <2> QED
      BY <2>3, <2>5, <2>6, <2>7, <2>8 DEF Side
  <1>3. CASE ~AllDone
    <2>1. pc'[r] = "poll" /\ UNCHANGED status
      BY <1>1, <1>3 DEF Counted, WorkTypes
    <2>2. peer[r] = NoRank
      BY <1>1 DEF Side, Requests
    <2> QED
      BY <1>1, <2>1, <2>2, LocalSides DEF Keeps, StatusTypes
  <1> QED
    BY <1>2, <1>3

\* The barrier is left.
LEMMA LeaveSides ==
    ASSUME WorkTypes, StatusTypes, KidsPlaced, NEW r \in Ranks, NEW s \in Ranks, Two(r, s),
           Side(r, s), Side(s, r), Leave(r)
    PROVE  StatusTypes' /\ Side(r, s)' /\ Side(s, r)'
  <1>1. /\ pc[r] = "barrier" /\ pc'[r] = "out" /\ Keeps(s)
        /\ UNCHANGED <<open, kids, peer, status, problem>>
    BY DEF Leave, WorkTypes, Two, work, Keeps
  <1>2. Requests(r, s)' /\ Requests(s, r)'
    BY <1>1 DEF Side, Requests, Keeps, Two, Stopped
  <1>3. Promises(r, s)' /\ Promises(s, r)'
    BY <1>1 DEF Side, Promises, Promised, Keeps, Two
  <1>4. EmptyTold(r, s)' /\ EmptyTold(s, r)'
    BY <1>1 DEF Side, EmptyTold, Idle, Promised, Keeps, Two
  <1>5. Over(r, s)' /\ Over(s, r)'
    BY <1>1 DEF Side, Over, Idle, Promised, Keeps, Two, Stopped
  <1> QED
    BY <1>1, <1>2, <1>3, <1>4, <1>5 DEF Side, StatusTypes

\* The steps between two messages.
LEMMA QuietSides ==
    ASSUME WorkTypes, StatusTypes, KidsPlaced, NEW r \in Ranks, NEW s \in Ranks, Two(r, s),
           Side(r, s), Side(s, r), 
           Cast(r) \/ Prepare(r) \/ Refresh(r) \/ Store(r) \/ ProbeMisses(r) \/ PullToSolve(r) \/ KeepChild(r) \/ Branched(r)
    PROVE  StatusTypes' /\ Side(r, s)' /\ Side(s, r)'
  <1>1. UNCHANGED <<status, problem, peer>> /\ StatusTypes'
    BY DEF Cast, Prepare, Refresh, Store, ProbeMisses, PullToSolve, KeepChild, Branched, StatusTypes
  <1>2. Keeps(s)
    BY <1>1 DEF Cast, Prepare, Refresh, Store, ProbeMisses, PullToSolve, KeepChild, Branched, WorkTypes, Two, Keeps, work
  <1>3. /\ pc[r] \in {"poll", "prepare", "refresh", "probe", "pull", "child"}
        /\ pc'[r] \in {"poll", "prepare", "refresh", "probe", "pull", "child", "ask"}
    BY DEF Cast, Prepare, Refresh, Store, ProbeMisses, PullToSolve, KeepChild, Branched, WorkTypes
  <1>4. peer[r] = NoRank
    BY <1>3 DEF PullToSolve, Cast, Prepare, Refresh, Store, ProbeMisses, KeepChild, Branched, Side, Requests
  <1>5. /\ pc'[r] = "ask" => open'[r] = {}
        /\ pc[r] \in {"poll", "prepare"} /\ open[r] = {} =>
              /\ open'[r] = {} /\ kids'[r] = kids[r]
              /\ pc'[r] \in {"poll", "prepare", "ask"}
    <2>1. CASE Cast(r)
      BY <2>1 DEF Cast, WorkTypes, work
    <2>2. CASE Prepare(r)
      <3>1. PICK D \in SUBSET {p \in open[r] : Hopeless(r, p)} :
                /\ open' = [open EXCEPT ![r] = open[r] \ D]
                /\ pc' = [pc EXCEPT ![r] = IF open[r] = D THEN "ask" ELSE "refresh"]
        BY <2>2 DEF Prepare
      <3>2. /\ open'[r] = open[r] \ D /\ kids' = kids
            /\ pc'[r] = IF open[r] = D THEN "ask" ELSE "refresh"
        BY <2>2, <3>1 DEF Prepare, WorkTypes
      <3>3. D \subseteq open[r]
        BY <3>1
      <3>4. open[r] = D => open'[r] = {}
        BY <3>2
      <3>5. open[r] = {} => open[r] = D
        BY <3>3
      <3> QED
        BY <3>2, <3>4, <3>5
    <2>3. CASE Refresh(r) \/ Store(r) \/ ProbeMisses(r) \/ PullToSolve(r) \/ KeepChild(r) \/ Branched(r)
      <3>1. pc[r] \notin {"poll", "prepare"}
        BY <2>3 DEF Refresh, Store, ProbeMisses, PullToSolve, KeepChild, Branched
      <3>2. pc'[r] # "ask"
        BY <2>3 DEF Refresh, Store, ProbeMisses, PullToSolve, KeepChild, Branched, WorkTypes
      <3> QED
        BY <3>1, <3>2
    <2> QED
      BY <2>1, <2>2, <2>3
  <1> QED
    BY <1>1, <1>2, <1>3, <1>4, <1>5, LocalSides

\* Every step of a rank keeps both sides.
LEMMA StepSides ==
    ASSUME WorkTypes, StatusTypes, KidsPlaced, NEW r \in Ranks, NEW s \in Ranks, Two(r, s),
           Side(r, s), Side(s, r), Step(r)
    PROVE  StatusTypes' /\ Side(r, s)' /\ Side(s, r)'
  <1>1. CASE ProbeFinds(r)
    BY <1>1, ProbeFindsSides
  <1>2. CASE PullToSend(r)
    BY <1>2, PullToSendSides
  <1>3. CASE SendChild(r)
    BY <1>3, SendChildSides
  <1>4. CASE Ask(r)
    BY <1>4, AskSides
  <1>5. CASE HearNeed(r)
    BY <1>5, HearNeedSides
  <1>6. CASE HearHave(r)
    BY <1>6, HearHaveSides
  <1>7. CASE HearEmpty(r)
    BY <1>7, HearEmptySides
  <1>8. CASE HearAllEmpty(r)
    BY <1>8, HearAllEmptySides
  <1>9. CASE Receive(r)
    BY <1>9, ReceiveSides
  <1>10. CASE Counted(r)
    BY <1>10, CountedSides
  <1>11. CASE Answer(r)
    BY <1>11, AnswerSides
  <1>12. CASE Leave(r)
    BY <1>12, LeaveSides
  <1>13. CASE Cast(r) \/ Prepare(r) \/ Refresh(r) \/ Store(r) \/ ProbeMisses(r) \/ PullToSolve(r) \/ KeepChild(r) \/ Branched(r)
    BY <1>13, QuietSides
  <1>14. CASE TakeBound(r) \/ Count(r)
    <2>1. UNCHANGED <<open, kids, pc, peer, status, problem>>
      BY <1>14 DEF TakeBound, Count, work
    <2> QED
      BY <2>1 DEF StatusTypes, Side, Requests, Promises, Promised, EmptyTold, Idle, Over, Stopped
  <1> QED
    BY <1>1, <1>2, <1>3, <1>4, <1>5, <1>6, <1>7, <1>8, <1>9, <1>10, <1>11, <1>12, <1>13, <1>14 DEF Step

\* Two ranks keep to the protocol.
LEMMA PairKept ==
    ASSUME M = 2
    PROVE  Spec => []PairInv
  <1>1. Init => PairInv
    <2> SUFFICES ASSUME Init PROVE PairInv
      OBVIOUS
    <2>1. /\ \A u, w \in Ranks : status[u][w] = << >> /\ problem[u][w] = << >>
          /\ \A u \in Ranks : pc[u] = "poll" /\ peer[u] = NoRank
          /\ StatusTypes
          /\ \A u \in Ranks : u # NoRank
      BY RankZero DEF Init, Silent, StatusTypes
    <2>2. ~Asks(<< >>) /\ ~Gives(<< >>) /\ ~Denies(<< >>) /\ ~Ends(<< >>) /\ InOrder(<< >>)
      BY DEF Asks, Gives, Denies, Ends, Contains, InOrder, OneOf, Before
    <2>3. ASSUME NEW r \in Ranks, NEW s \in Ranks \ {r} PROVE Side(r, s)
      BY <2>1, <2>2 DEF Side, Requests, Promises, Promised, EmptyTold, Over, Stopped, Answers
    <2> QED
      BY <2>1, <2>3 DEF PairInv
  <1>2. RankInv /\ WorkInv /\ PairInv /\ [Next]_vars => PairInv'
    <2> SUFFICES ASSUME RankInv, WorkInv, PairInv, [Next]_vars PROVE PairInv'
      OBVIOUS
    <2>1. ASSUME NEW r \in Ranks, Step(r) PROVE PairInv'
      <3>1. PICK s \in Ranks \ {r} : Ranks = {r, s} /\ Two(r, s)
        BY OtherRank DEF Two
      <3>2. Side(r, s) /\ Side(s, r) /\ StatusTypes
        BY <3>1 DEF PairInv
      <3>3. StatusTypes' /\ Side(r, s)' /\ Side(s, r)'
        BY <2>1, <3>1, <3>2, StepSides DEF RankInv, WorkInv
      <3>4. \A u \in Ranks, w \in Ranks : u # w => (u = r /\ w = s) \/ (u = s /\ w = r)
        BY <3>1
      <3> QED
        BY <3>3, <3>4 DEF PairInv
    <2>2. CASE UNCHANGED <<open, kids, pc, peer, status, problem>>
      BY <2>2 DEF PairInv, StatusTypes, Side, Requests, Promises, Promised, EmptyTold, Idle, Over, Stopped
    <2>3. ASSUME NEW t \in Threads, OfferStep(t) PROVE PairInv'
      BY <2>2, <2>3, OfferElsewhere DEF elsewhere, work
    <2>4. CASE UNCHANGED vars
      BY <2>2, <2>4 DEF vars, work
    <2> QED
      BY <2>1, <2>3, <2>4 DEF Next, Ended
  <1> QED
    BY <1>1, <1>2, BoundsAreCuts, NoLeafLost, PTL DEF Spec

\* When a rank has stopped, no rank has a problem and none is on its way.
LEMMA PairStops ==
    ASSUME M = 2, RankInv, WorkInv, PairInv
    PROVE  StopsWhenEmpty /\ \A r \in Ranks : pc[r] # "wrongSender"
  <1>1. PICK r \in Ranks, s \in Ranks : Ranks = {r, s} /\ r = 0 /\ s = 1
    <2>1. 0 \in Ranks /\ 1 \in Ranks /\ Ranks = {0, 1}
      BY DEF Ranks
    <2> QED
      BY <2>1
  <1>2. Side(r, s) /\ Side(s, r)
    BY <1>1 DEF PairInv
  <1>3. \A u \in Ranks : pc[u] # "wrongSender"
    BY <1>1, <1>2 DEF Side, Requests
  <1>4. ASSUME NEW u \in Ranks, Stopped(u) PROVE ~Travelling /\ \A w \in Ranks : ~Working(w)
    <2>1. Stopped(s)
      BY <1>1, <1>2, <1>4 DEF Side, Over
    <2>2. /\ Idle(r, s) /\ ~Promised(s, r) /\ open[s] = {} /\ kids[s] = {} /\ ~Promised(r, s)
      BY <1>1, <1>2, <2>1 DEF Side, Over, Idle
    <2>3. problem[r][s] = << >> /\ problem[s][r] = << >> /\ problem[r][r] = << >> /\ problem[s][s] = << >>
      BY <1>2, <2>2 DEF Side, Promises, Requests
    <2>4. ~Travelling
      BY <1>1, <2>3 DEF Travelling
    <2>5. \A w \in Ranks : ~Working(w)
      BY <1>1, <2>2 DEF Working, Idle, Promised
    <2> QED
      BY <2>4, <2>5
  <1> QED
    BY <1>3, <1>4 DEF StopsWhenEmpty

\* Two ranks: neither leaves its loop while there is a problem, in a queue or on
\* its way (waitForProblem, sent_done, mpi_done and the barrier).
THEOREM PairStopsWhenEmpty == M = 2 => (Spec => []StopsWhenEmpty)
  <1> SUFFICES ASSUME M = 2 PROVE Spec => []StopsWhenEmpty
    OBVIOUS
  <1>1. RankInv /\ WorkInv /\ PairInv => StopsWhenEmpty
    BY PairStops
  <1> QED
    BY <1>1, BoundsAreCuts, NoLeafLost, PairKept, PTL

\* Two ranks: no answer comes from a rank that was not asked (the exit in
\* waitForProblem).
RightSender == \A r \in Ranks : pc[r] # "wrongSender"
THEOREM PairAnswersRight == M = 2 => (Spec => []RightSender)
  <1> SUFFICES ASSUME M = 2 PROVE Spec => []RightSender
    OBVIOUS
  <1>1. RankInv /\ WorkInv /\ PairInv => RightSender
    BY PairStops DEF RightSender
  <1> QED
    BY <1>1, BoundsAreCuts, NoLeafLost, PairKept, PTL

\* Two ranks: when both are out, a cut as light as any that a leaf of the search tree
\* gives has been computed: no rank gave up while an optimum was open.
THEOREM PairResultFound == M = 2 => (Spec => []ResultFound)
  <1> SUFFICES ASSUME M = 2 PROVE Spec => []ResultFound
    OBVIOUS
  <1> QED
    BY BoundsAreCuts, NoLeafLost, PairStopsWhenEmpty, FoundIfEmpty, PTL
=============================================================================

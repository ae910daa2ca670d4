----------------------- MODULE AdjacencyArraysProofs ------------------------
(***************************************************************************)
(* What the operations on adjacency arrays keep, for arrays of any size.   *)
(*                                                                         *)
(* While a method runs, some entries of an array stand for no edge any more *)
(* or not yet.  A[v] is the set of the entries of v that count: they are   *)
(* Paired, each the mate of one other that counts, with no loops and no    *)
(* parallel edges.  Live adds the degrees and the number of edges, which may *)
(* be ahead for the vertices of D and wrong by a number for all; X are the *)
(* vertices some of whose entries do not count.  Named says that the two   *)
(* maps between vertices and original vertices are inverse to each other,  *)
(* and where those of deleted vertices are.  Between two calls a graph is  *)
(* Sound: every entry counts and nothing is ahead.                         *)
(*                                                                         *)
(* A loop of the code is a fold; a proof about it takes the graphs that the *)
(* fold goes through as a function r of the number of passes, and what every *)
(* pass leaves of the rest of the loop.                                    *)
(***************************************************************************)
EXTENDS MutableGraph, FiniteSums, SequenceTheorems

-----------------------------------------------------------------------------
(* Loops.                                                                    *)

\* Induction along the passes of a loop.
LEMMA UpTo ==
    ASSUME NEW n \in Nat, NEW T, 0 \in T, \A k \in 1 .. n : k - 1 \in T => k \in T
    PROVE  \A k \in 0 .. n : k \in T
  <1> DEFINE Z == {U \in SUBSET (1 .. n) : \A k \in 0 .. n : U = 1 .. k => k \in T}
  <1>1. IsFiniteSet(1 .. n)
    BY FS_Interval
  <1>2. ASSUME NEW U \in SUBSET (1 .. n), \A V \in SUBSET U : V # U => V \in Z
        PROVE  U \in Z
    <2> SUFFICES ASSUME NEW k \in 0 .. n, U = 1 .. k PROVE k \in T
      OBVIOUS
    <2>1. CASE k = 0
      BY <2>1
    <2>2. CASE k # 0
      <3>1. k \in U /\ k \notin 1 .. k - 1 /\ 1 .. k - 1 \in SUBSET U
        BY <2>2
      <3>2. 1 .. k - 1 \in Z
        BY <1>2, <3>1, Zenon
      <3>3. k - 1 \in 0 .. n /\ k \in 1 .. n
        BY <2>2
      <3> QED
        BY <3>2, <3>3
    <2> QED
      BY <2>1, <2>2
  <1>3. \A U \in SUBSET (1 .. n) : U \in Z
    <2> HIDE DEF Z
    <2> QED
      BY <1>1, <1>2, SubsetInduction, Zenon
  <1> SUFFICES ASSUME NEW k \in 0 .. n PROVE k \in T
    OBVIOUS
  <1>4. 1 .. k \in SUBSET (1 .. n)
    OBVIOUS
  <1> QED
    BY <1>3, <1>4, Zenon

\* What one pass of each loop of the model makes of H; x or i is the edge or the
\* index that it is for, the parameters between are what the pass reads.
InsertPass(H, x) == NewEdge(H, x[1], x[2], x[3])
CopyEdgePass(H, v, x) == NewEdge(H, v, x.to, x.w)
CopyVertexPass(H, vs, v) == FoldLeft(LAMBDA I, x : NewEdge(I, v, x.to, x.w), H, vs[v])
UnlinkPass(H, v, i) ==
    LET e == H.vs[v][i]
    IN  [InternalDeleteEdge(H, e.to, e.rev) EXCEPT !.m = @ - 2, !.deg[e.to] = @ - e.w]

TellPass(H, v, x) == [H EXCEPT !.vs[x.to][x.rev].to = v]
KeepPass(H, edges, S, first, i) ==
    LET e == edges[i]
    IN  IF e.to \in S THEN [H EXCEPT !.m = @ - 1, !.deg[first] = @ - e.w]
        ELSE [H EXCEPT !.vs[first] = Append(@, e),
                       !.vs[e.to][e.rev].rev = Len(H.vs[first]) + 1]

FromSetPass(H, first, S, v, i) == TakeFromSet(H, first, S, H.g.vs[v][i])
SetPass(H, first, S, v) ==
    FoldLeftDomain(LAMBDA s, i : TakeFromSet(s, first, S, s.g.vs[v][i]), H, H.g.vs[v])

RemovePass(H, n, S, first, i) ==
    LET v == n + 1 - i
    IN  IF v \in S \ {first} THEN MoveLast(Absorb(H, first, v), v) ELSE H

KnownPass(H, v, e, map, j) ==
    LET f == H.vs[e.to][j]
    IN  IF j = e.rev THEN H
        ELSE IF f.to \in DOMAIN map THEN TakeEdge(H, v, f, map[f.to].i, map[f.to].rev)
        ELSE TakeEdge(H, v, f, 0, 0)

SparsePass(H, v, e, j) == IF j = e.rev THEN H ELSE MergeEdgeSparse(H, v, H.vs[e.to][j])
NoEdgePass(H, v, target, j) == MergeEdgeSparse(H, v, H.vs[target][j])

Pass(kind, p, H, x) ==
    CASE kind = "Insert" -> InsertPass(H, x)
      [] kind = "CopyEdge" -> CopyEdgePass(H, p[1], x)
      [] kind = "CopyVertex" -> CopyVertexPass(H, p[1], x)
      [] kind = "Unlink" -> UnlinkPass(H, p[1], x)
      [] kind = "Tell" -> TellPass(H, p[1], x)
      [] kind = "Keep" -> KeepPass(H, p[1], p[2], p[3], x)
      [] kind = "FromSet" -> FromSetPass(H, p[1], p[2], p[3], x)
      [] kind = "Set" -> SetPass(H, p[1], p[2], x)
      [] kind = "Remove" -> RemovePass(H, p[1], p[2], p[3], x)
      [] kind = "Known" -> KnownPass(H, p[1], p[2], p[3], x)
      [] kind = "Sparse" -> SparsePass(H, p[1], p[2], x)
      [] kind = "NoEdge" -> NoEdgePass(H, p[1], p[2], x)

IsFold(it, kind, p, base, s) ==
    it = [t \in SUBSET DOMAIN s |-> IF t = {} THEN base
                                    ELSE Pass(kind, p, it[t \ {Max(t)}], s[Max(t)])]

IsRun(r, kind, p, base, s) ==
    /\ r[0] = base
    /\ \A i \in 1 .. Len(s) : r[i] = Pass(kind, p, r[i - 1], s[i])

\* The greatest member of a set of integers.
LEMMA MaxIs ==
    ASSUME NEW t, NEW k \in t, \A j \in t : j \in Int /\ j <= k
    PROVE  Max(t) = k
  <1>1. \A y \in t : k >= y
    OBVIOUS
  <1>2. Max(t) \in t /\ \A y \in t : Max(t) >= y
    BY <1>1 DEF Max
  <1>3. Max(t) \in Int /\ Max(t) <= k /\ Max(t) >= k /\ k \in Int
    BY <1>2
  <1> QED
    BY <1>3

\* The recursive function behind FoldLeft exists, on the subsets of longer and longer
\* pieces of the sequence.
LEMMA FoldExists ==
    ASSUME NEW kind, NEW p, NEW base, NEW s, NEW n \in Nat, DOMAIN s = 1 .. n
    PROVE  \E it : IsFold(it, kind, p, base, s)
  <1> DEFINE Val(it, t) == IF t = {} THEN base ELSE Pass(kind, p, it[t \ {Max(t)}], s[Max(t)])
             Is(it, k) == it = [t \in SUBSET (1 .. k) |-> Val(it, t)]
             T == {k \in 0 .. n : \E it : Is(it, k)}
  <1>1. 0 \in T
    <2> DEFINE it == [t \in SUBSET (1 .. 0) |-> base]
    <2>1. SUBSET (1 .. 0) = {{}}
      OBVIOUS
    <2>2. it = [t \in SUBSET (1 .. 0) |-> Val(it, t)]
      <3>1. \A t \in SUBSET (1 .. 0) : Val(it, t) = base
        BY <2>1
      <3> QED
        BY <3>1
    <2> QED
      BY <2>2
  <1>2. ASSUME NEW k \in 1 .. n, k - 1 \in T
        PROVE  k \in T
    <2>1. PICK old : Is(old, k - 1)
      BY <1>2, Zenon
    <2> DEFINE it == [t \in SUBSET (1 .. k) |->
                        IF k \in t THEN Pass(kind, p, old[t \ {k}], s[k]) ELSE old[t]]
    <2>2. ASSUME NEW t \in SUBSET (1 .. k)
          PROVE  it[t] = Val(it, t)
      <3>1. CASE k \in t
        <4>1. Max(t) = k
          <5>1. \A j \in t : j \in Int /\ j <= k
            OBVIOUS
          <5> QED
            BY <3>1, <5>1, MaxIs, Zenon
        <4>2. t \ {k} \in SUBSET (1 .. k) /\ k \notin t \ {k} /\ t # {}
          BY <3>1
        <4>3. it[t \ {k}] = old[t \ {k}]
          BY <4>2
        <4> QED
          BY <3>1, <4>1, <4>2, <4>3
      <3>2. CASE k \notin t
        <4>1. t \in SUBSET (1 .. k - 1)
          BY <3>2
        <4>2. it[t] = old[t] /\ old[t] = Val(old, t)
          <5> HIDE DEF Val
          <5> QED
            BY <2>1, <3>2, <4>1
        <4>3. CASE t = {}
          BY <4>2, <4>3
        <4>4. CASE t # {}
          <5>1. t \ {Max(t)} \in SUBSET (1 .. k) /\ k \notin t \ {Max(t)}
            BY <3>2, Zenon
          <5>2. it[t \ {Max(t)}] = old[t \ {Max(t)}]
            BY <5>1
          <5> QED
            BY <4>2, <4>4, <5>2
        <4> QED
          BY <4>3, <4>4
      <3> QED
        BY <3>1, <3>2
    <2>3. Is(it, k)
      <3> HIDE DEF Val
      <3>1. it = [t \in SUBSET (1 .. k) |-> it[t]]
        OBVIOUS
      <3> HIDE DEF it
      <3> QED
        BY <2>2, <3>1, Zenon
    <2> HIDE DEF Is
    <2> QED
      BY <2>3
  <1> HIDE DEF T
  <1>3. \A k \in 0 .. n : k \in T
    BY <1>1, <1>2, UpTo, Zenon
  <1>4. n \in T
    BY <1>3
  <1> QED
    BY <1>4, Zenon DEF T, IsFold

\* Its values on the pieces are those of the passes.
LEMMA FoldRuns ==
    ASSUME NEW kind, NEW p, NEW base, NEW s, NEW n \in Nat, DOMAIN s = 1 .. n, Len(s) = n,
           NEW it, IsFold(it, kind, p, base, s)
    PROVE  \E r : IsRun(r, kind, p, base, s) /\ it[DOMAIN s] = r[Len(s)]
  <1> DEFINE r == [i \in 0 .. n |-> it[1 .. i]]
  <1>1. r[0] = base
    <2>1. 1 .. 0 = {} /\ {} \in SUBSET DOMAIN s
      OBVIOUS
    <2> QED
      BY <2>1 DEF IsFold
  <1>2. ASSUME NEW i \in 1 .. n
        PROVE  r[i] = Pass(kind, p, r[i - 1], s[i])
    <2>1. 1 .. i \in SUBSET DOMAIN s /\ 1 .. i # {} /\ (1 .. i) \ {i} = 1 .. i - 1
      OBVIOUS
    <2>2. Max(1 .. i) = i
      <3> DEFINE t == 1 .. i
      <3>1. i \in t /\ \A j \in t : j \in Int /\ j <= i
        OBVIOUS
      <3> HIDE DEF t
      <3>2. Max(t) = i
        BY <3>1, MaxIs, Zenon
      <3> QED
        BY <3>2 DEF t
    <2>3. it[1 .. i] = Pass(kind, p, it[1 .. i - 1], s[i])
      BY <2>1, <2>2, Zenon DEF IsFold
    <2> QED
      BY <2>3
  <1>3. it[DOMAIN s] = r[Len(s)]
    OBVIOUS
  <1> HIDE DEF r
  <1> QED
    BY <1>1, <1>2, <1>3 DEF IsRun

InsertLoop(base, s) == FoldLeft(LAMBDA H, x : InsertPass(H, x), base, s)

\* insertEdges: the loop that enters the given edges is a run of its passes.
LEMMA InsertRuns ==
    ASSUME NEW base, NEW s, NEW n \in Nat, DOMAIN s = 1 .. n, Len(s) = n
    PROVE  \E r : /\ IsRun(r, "Insert", <<>>, base, s)
                  /\ InsertLoop(base, s) = r[n]
  <1> DEFINE Is(it) == it = [t \in SUBSET DOMAIN s |->
                          IF t = {} THEN base ELSE InsertPass(it[t \ {Max(t)}], s[Max(t)])]
             f == CHOOSE it : Is(it)
  <1>1. \A it : Is(it) <=> IsFold(it, "Insert", <<>>, base, s)
    BY DEF IsFold, Pass
  <1>2. InsertLoop(base, s) = f[DOMAIN s]
    BY DEF InsertLoop, FoldLeft, MapThenFoldSet
  <1> HIDE DEF Is
  <1>3. Is(f)
    BY <1>1, FoldExists, Zenon
  <1> HIDE DEF f
  <1>4. IsFold(f, "Insert", <<>>, base, s)
    BY <1>1, <1>3
  <1>5. \E r : IsRun(r, "Insert", <<>>, base, s) /\ f[DOMAIN s] = r[Len(s)]
    BY <1>4, FoldRuns
  <1> QED
    BY <1>2, <1>5

CopyEdgeLoop(v, base, s) == FoldLeft(LAMBDA H, x : CopyEdgePass(H, v, x), base, s)

\* The loop over the edges of v that a copy of the graph enters.
LEMMA CopyEdgeRuns ==
    ASSUME NEW v, NEW base, NEW s, NEW n \in Nat, DOMAIN s = 1 .. n, Len(s) = n
    PROVE  \E r : /\ IsRun(r, "CopyEdge", <<v>>, base, s)
                  /\ CopyEdgeLoop(v, base, s) = r[n]
  <1> DEFINE Is(it) == it = [t \in SUBSET DOMAIN s |->
                          IF t = {} THEN base ELSE CopyEdgePass(it[t \ {Max(t)}], v, s[Max(t)])]
             f == CHOOSE it : Is(it)
  <1>1. \A it : Is(it) <=> IsFold(it, "CopyEdge", <<v>>, base, s)
    BY DEF IsFold, Pass
  <1>2. CopyEdgeLoop(v, base, s) = f[DOMAIN s]
    BY DEF CopyEdgeLoop, FoldLeft, MapThenFoldSet
  <1> HIDE DEF Is
  <1>3. Is(f)
    BY <1>1, FoldExists
  <1> HIDE DEF f
  <1>4. IsFold(f, "CopyEdge", <<v>>, base, s)
    BY <1>1, <1>3
  <1>5. \E r : IsRun(r, "CopyEdge", <<v>>, base, s) /\ f[DOMAIN s] = r[Len(s)]
    BY <1>4, FoldRuns
  <1> QED
    BY <1>2, <1>5

CopyVertexLoop(vs, base, s) == FoldLeft(LAMBDA H, x : CopyVertexPass(H, vs, x), base, s)

\* The loop over the vertices of a graph that is copied.
LEMMA CopyVertexRuns ==
    ASSUME NEW vs, NEW base, NEW s, NEW n \in Nat, DOMAIN s = 1 .. n, Len(s) = n
    PROVE  \E r : /\ IsRun(r, "CopyVertex", <<vs>>, base, s)
                  /\ CopyVertexLoop(vs, base, s) = r[n]
  <1> DEFINE Is(it) == it = [t \in SUBSET DOMAIN s |->
                          IF t = {} THEN base ELSE CopyVertexPass(it[t \ {Max(t)}], vs, s[Max(t)])]
             f == CHOOSE it : Is(it)
  <1>1. \A it : Is(it) <=> IsFold(it, "CopyVertex", <<vs>>, base, s)
    BY DEF IsFold, Pass
  <1>2. CopyVertexLoop(vs, base, s) = f[DOMAIN s]
    BY DEF CopyVertexLoop, FoldLeft, MapThenFoldSet
  <1> HIDE DEF Is
  <1>3. Is(f)
    BY <1>1, FoldExists
  <1> HIDE DEF f
  <1>4. IsFold(f, "CopyVertex", <<vs>>, base, s)
    BY <1>1, <1>3
  <1>5. \E r : IsRun(r, "CopyVertex", <<vs>>, base, s) /\ f[DOMAIN s] = r[Len(s)]
    BY <1>4, FoldRuns
  <1> QED
    BY <1>2, <1>5

UnlinkLoop(v, base, s) == FoldLeft(LAMBDA H, x : UnlinkPass(H, v, x), base, s)

\* deleteVertex: the loop that deletes the other copies of the edges of v.
LEMMA UnlinkRuns ==
    ASSUME NEW v, NEW base, NEW s, NEW n \in Nat, DOMAIN s = 1 .. n, Len(s) = n
    PROVE  \E r : /\ IsRun(r, "Unlink", <<v>>, base, s)
                  /\ UnlinkLoop(v, base, s) = r[n]
  <1> DEFINE Is(it) == it = [t \in SUBSET DOMAIN s |->
                          IF t = {} THEN base ELSE UnlinkPass(it[t \ {Max(t)}], v, s[Max(t)])]
             f == CHOOSE it : Is(it)
  <1>1. \A it : Is(it) <=> IsFold(it, "Unlink", <<v>>, base, s)
    BY DEF IsFold, Pass
  <1>2. UnlinkLoop(v, base, s) = f[DOMAIN s]
    BY DEF UnlinkLoop, FoldLeft, MapThenFoldSet
  <1> HIDE DEF Is
  <1>3. Is(f)
    BY <1>1, FoldExists
  <1> HIDE DEF f
  <1>4. IsFold(f, "Unlink", <<v>>, base, s)
    BY <1>1, <1>3
  <1>5. \E r : IsRun(r, "Unlink", <<v>>, base, s) /\ f[DOMAIN s] = r[Len(s)]
    BY <1>4, FoldRuns
  <1> QED
    BY <1>2, <1>5

TellLoop(v, base, s) == FoldLeft(LAMBDA H, x : TellPass(H, v, x), base, s)

\* The loop that tells the neighbours of a moved vertex its new index.
LEMMA TellRuns ==
    ASSUME NEW v, NEW base, NEW s, NEW n \in Nat, DOMAIN s = 1 .. n, Len(s) = n
    PROVE  \E r : /\ IsRun(r, "Tell", <<v>>, base, s)
                  /\ TellLoop(v, base, s) = r[n]
  <1> DEFINE Is(it) == it = [t \in SUBSET DOMAIN s |->
                          IF t = {} THEN base ELSE TellPass(it[t \ {Max(t)}], v, s[Max(t)])]
             f == CHOOSE it : Is(it)
  <1>1. \A it : Is(it) <=> IsFold(it, "Tell", <<v>>, base, s)
    BY DEF IsFold, Pass
  <1>2. TellLoop(v, base, s) = f[DOMAIN s]
    BY DEF TellLoop, FoldLeft, MapThenFoldSet
  <1> HIDE DEF Is
  <1>3. Is(f)
    BY <1>1, FoldExists
  <1> HIDE DEF f
  <1>4. IsFold(f, "Tell", <<v>>, base, s)
    BY <1>1, <1>3
  <1>5. \E r : IsRun(r, "Tell", <<v>>, base, s) /\ f[DOMAIN s] = r[Len(s)]
    BY <1>4, FoldRuns
  <1> QED
    BY <1>2, <1>5

KeepLoop(edges, S, first, base, s) == FoldLeft(LAMBDA H, x : KeepPass(H, edges, S, first, x), base, s)

\* contractVertexSet: the loop that keeps the edges of first that leave the set.
LEMMA KeepRuns ==
    ASSUME NEW edges, NEW S, NEW first, NEW base, NEW s, NEW n \in Nat, DOMAIN s = 1 .. n, Len(s) = n
    PROVE  \E r : /\ IsRun(r, "Keep", <<edges, S, first>>, base, s)
                  /\ KeepLoop(edges, S, first, base, s) = r[n]
  <1> DEFINE Is(it) == it = [t \in SUBSET DOMAIN s |->
                          IF t = {} THEN base ELSE KeepPass(it[t \ {Max(t)}], edges, S, first, s[Max(t)])]
             f == CHOOSE it : Is(it)
  <1>1. \A it : Is(it) <=> IsFold(it, "Keep", <<edges, S, first>>, base, s)
    BY DEF IsFold, Pass
  <1>2. KeepLoop(edges, S, first, base, s) = f[DOMAIN s]
    BY DEF KeepLoop, FoldLeft, MapThenFoldSet
  <1> HIDE DEF Is
  <1>3. Is(f)
    BY <1>1, FoldExists
  <1> HIDE DEF f
  <1>4. IsFold(f, "Keep", <<edges, S, first>>, base, s)
    BY <1>1, <1>3
  <1>5. \E r : IsRun(r, "Keep", <<edges, S, first>>, base, s) /\ f[DOMAIN s] = r[Len(s)]
    BY <1>4, FoldRuns
  <1> QED
    BY <1>2, <1>5

FromSetLoop(first, S, v, base, s) == FoldLeft(LAMBDA H, x : FromSetPass(H, first, S, v, x), base, s)

\* contractVertexSet: the loop over the edges of one vertex of the set.
LEMMA FromSetRuns ==
    ASSUME NEW first, NEW S, NEW v, NEW base, NEW s, NEW n \in Nat, DOMAIN s = 1 .. n, Len(s) = n
    PROVE  \E r : /\ IsRun(r, "FromSet", <<first, S, v>>, base, s)
                  /\ FromSetLoop(first, S, v, base, s) = r[n]
  <1> DEFINE Is(it) == it = [t \in SUBSET DOMAIN s |->
                          IF t = {} THEN base ELSE FromSetPass(it[t \ {Max(t)}], first, S, v, s[Max(t)])]
             f == CHOOSE it : Is(it)
  <1>1. \A it : Is(it) <=> IsFold(it, "FromSet", <<first, S, v>>, base, s)
    BY DEF IsFold, Pass
  <1>2. FromSetLoop(first, S, v, base, s) = f[DOMAIN s]
    BY DEF FromSetLoop, FoldLeft, MapThenFoldSet
  <1> HIDE DEF Is
  <1>3. Is(f)
    BY <1>1, FoldExists
  <1> HIDE DEF f
  <1>4. IsFold(f, "FromSet", <<first, S, v>>, base, s)
    BY <1>1, <1>3
  <1>5. \E r : IsRun(r, "FromSet", <<first, S, v>>, base, s) /\ f[DOMAIN s] = r[Len(s)]
    BY <1>4, FoldRuns
  <1> QED
    BY <1>2, <1>5

SetLoop(first, S, base, s) == FoldLeft(LAMBDA H, x : SetPass(H, first, S, x), base, s)

\* contractVertexSet: the loop over the other vertices of the set.
LEMMA SetRuns ==
    ASSUME NEW first, NEW S, NEW base, NEW s, NEW n \in Nat, DOMAIN s = 1 .. n, Len(s) = n
    PROVE  \E r : /\ IsRun(r, "Set", <<first, S>>, base, s)
                  /\ SetLoop(first, S, base, s) = r[n]
  <1> DEFINE Is(it) == it = [t \in SUBSET DOMAIN s |->
                          IF t = {} THEN base ELSE SetPass(it[t \ {Max(t)}], first, S, s[Max(t)])]
             f == CHOOSE it : Is(it)
  <1>1. \A it : Is(it) <=> IsFold(it, "Set", <<first, S>>, base, s)
    BY DEF IsFold, Pass
  <1>2. SetLoop(first, S, base, s) = f[DOMAIN s]
    BY DEF SetLoop, FoldLeft, MapThenFoldSet
  <1> HIDE DEF Is
  <1>3. Is(f)
    BY <1>1, FoldExists
  <1> HIDE DEF f
  <1>4. IsFold(f, "Set", <<first, S>>, base, s)
    BY <1>1, <1>3
  <1>5. \E r : IsRun(r, "Set", <<first, S>>, base, s) /\ f[DOMAIN s] = r[Len(s)]
    BY <1>4, FoldRuns
  <1> QED
    BY <1>2, <1>5

RemoveLoop(m, S, first, base, s) == FoldLeft(LAMBDA H, x : RemovePass(H, m, S, first, x), base, s)

\* contractVertexSet: the loop that removes the other vertices of the set.
LEMMA RemoveRuns ==
    ASSUME NEW m, NEW S, NEW first, NEW base, NEW s, NEW n \in Nat, DOMAIN s = 1 .. n, Len(s) = n
    PROVE  \E r : /\ IsRun(r, "Remove", <<m, S, first>>, base, s)
                  /\ RemoveLoop(m, S, first, base, s) = r[n]
  <1> DEFINE Is(it) == it = [t \in SUBSET DOMAIN s |->
                          IF t = {} THEN base ELSE RemovePass(it[t \ {Max(t)}], m, S, first, s[Max(t)])]
             f == CHOOSE it : Is(it)
  <1>1. \A it : Is(it) <=> IsFold(it, "Remove", <<m, S, first>>, base, s)
    BY DEF IsFold, Pass
  <1>2. RemoveLoop(m, S, first, base, s) = f[DOMAIN s]
    BY DEF RemoveLoop, FoldLeft, MapThenFoldSet
  <1> HIDE DEF Is
  <1>3. Is(f)
    BY <1>1, FoldExists
  <1> HIDE DEF f
  <1>4. IsFold(f, "Remove", <<m, S, first>>, base, s)
    BY <1>1, <1>3
  <1>5. \E r : IsRun(r, "Remove", <<m, S, first>>, base, s) /\ f[DOMAIN s] = r[Len(s)]
    BY <1>4, FoldRuns
  <1> QED
    BY <1>2, <1>5

KnownLoop(v, e, map, base, s) == FoldLeft(LAMBDA H, x : KnownPass(H, v, e, map, x), base, s)

\* contractEdge: the loop over the edges of the vertex that goes.
LEMMA KnownRuns ==
    ASSUME NEW v, NEW e, NEW map, NEW base, NEW s, NEW n \in Nat, DOMAIN s = 1 .. n, Len(s) = n
    PROVE  \E r : /\ IsRun(r, "Known", <<v, e, map>>, base, s)
                  /\ KnownLoop(v, e, map, base, s) = r[n]
  <1> DEFINE Is(it) == it = [t \in SUBSET DOMAIN s |->
                          IF t = {} THEN base ELSE KnownPass(it[t \ {Max(t)}], v, e, map, s[Max(t)])]
             f == CHOOSE it : Is(it)
  <1>1. \A it : Is(it) <=> IsFold(it, "Known", <<v, e, map>>, base, s)
    BY DEF IsFold, Pass
  <1>2. KnownLoop(v, e, map, base, s) = f[DOMAIN s]
    BY DEF KnownLoop, FoldLeft, MapThenFoldSet
  <1> HIDE DEF Is
  <1>3. Is(f)
    BY <1>1, FoldExists
  <1> HIDE DEF f
  <1>4. IsFold(f, "Known", <<v, e, map>>, base, s)
    BY <1>1, <1>3
  <1>5. \E r : IsRun(r, "Known", <<v, e, map>>, base, s) /\ f[DOMAIN s] = r[Len(s)]
    BY <1>4, FoldRuns
  <1> QED
    BY <1>2, <1>5

SparseLoop(v, e, base, s) == FoldLeft(LAMBDA H, x : SparsePass(H, v, e, x), base, s)

\* contractEdgeSparseTarget: the loop over the edges of the vertex that goes.
LEMMA SparseRuns ==
    ASSUME NEW v, NEW e, NEW base, NEW s, NEW n \in Nat, DOMAIN s = 1 .. n, Len(s) = n
    PROVE  \E r : /\ IsRun(r, "Sparse", <<v, e>>, base, s)
                  /\ SparseLoop(v, e, base, s) = r[n]
  <1> DEFINE Is(it) == it = [t \in SUBSET DOMAIN s |->
                          IF t = {} THEN base ELSE SparsePass(it[t \ {Max(t)}], v, e, s[Max(t)])]
             f == CHOOSE it : Is(it)
  <1>1. \A it : Is(it) <=> IsFold(it, "Sparse", <<v, e>>, base, s)
    BY DEF IsFold, Pass
  <1>2. SparseLoop(v, e, base, s) = f[DOMAIN s]
    BY DEF SparseLoop, FoldLeft, MapThenFoldSet
  <1> HIDE DEF Is
  <1>3. Is(f)
    BY <1>1, FoldExists
  <1> HIDE DEF f
  <1>4. IsFold(f, "Sparse", <<v, e>>, base, s)
    BY <1>1, <1>3
  <1>5. \E r : IsRun(r, "Sparse", <<v, e>>, base, s) /\ f[DOMAIN s] = r[Len(s)]
    BY <1>4, FoldRuns
  <1> QED
    BY <1>2, <1>5

NoEdgeLoop(v, target, base, s) == FoldLeft(LAMBDA H, x : NoEdgePass(H, v, target, x), base, s)

\* contractSparseTargetNoEdge: the loop over the edges of the vertex that goes.
LEMMA NoEdgeRuns ==
    ASSUME NEW v, NEW target, NEW base, NEW s, NEW n \in Nat, DOMAIN s = 1 .. n, Len(s) = n
    PROVE  \E r : /\ IsRun(r, "NoEdge", <<v, target>>, base, s)
                  /\ NoEdgeLoop(v, target, base, s) = r[n]
  <1> DEFINE Is(it) == it = [t \in SUBSET DOMAIN s |->
                          IF t = {} THEN base ELSE NoEdgePass(it[t \ {Max(t)}], v, target, s[Max(t)])]
             f == CHOOSE it : Is(it)
  <1>1. \A it : Is(it) <=> IsFold(it, "NoEdge", <<v, target>>, base, s)
    BY DEF IsFold, Pass
  <1>2. NoEdgeLoop(v, target, base, s) = f[DOMAIN s]
    BY DEF NoEdgeLoop, FoldLeft, MapThenFoldSet
  <1> HIDE DEF Is
  <1>3. Is(f)
    BY <1>1, FoldExists
  <1> HIDE DEF f
  <1>4. IsFold(f, "NoEdge", <<v, target>>, base, s)
    BY <1>1, <1>3
  <1>5. \E r : IsRun(r, "NoEdge", <<v, target>>, base, s) /\ f[DOMAIN s] = r[Len(s)]
    BY <1>4, FoldRuns
  <1> QED
    BY <1>2, <1>5

-----------------------------------------------------------------------------
(* Arrays.                                                                   *)

Edge == [to : Nat, w : Int, rev : Nat]
Row == Seq(Edge)
Adj == Seq(Row)
Objects == [vs : Adj, deg : Seq(Int), m : Int, last : Int,
            cont : Seq(SUBSET Nat), pos : Seq(Nat), exited : BOOLEAN]

\* What is left of a sequence when its last element is taken.
LEMMA LastFacts ==
    ASSUME NEW X, NEW s \in Seq(X), Len(s) # 0
    PROVE  /\ Last(s) = s[Len(s)] /\ Last(s) \in X
           /\ Front(s) \in Seq(X) /\ Len(Front(s)) = Len(s) - 1
           /\ \A j \in 1 .. Len(s) - 1 : Front(s)[j] = s[j]
  <1> DEFINE n == Len(s)
  <1>1. n \in Nat /\ n >= 1 /\ \A i \in 1 .. n : s[i] \in X
    BY LenProperties, ElementOfSeq
  <1>2. Last(s) = s[n] /\ s[n] \in X
    BY <1>1 DEF Last
  <1>3. \A i \in 1 .. n - 1 : s[i] \in X
    BY <1>1
  <1>4. n - 1 \in Int /\ 1 \in Int
    BY <1>1
  <1> HIDE DEF n
  <1>5. /\ SubSeq(s, 1, n - 1) \in Seq(X)
        /\ Len(SubSeq(s, 1, n - 1)) = IF 1 <= n - 1 THEN n - 1 - 1 + 1 ELSE 0
        /\ \A i \in 1 .. n - 1 - 1 + 1 : SubSeq(s, 1, n - 1)[i] = s[1 + i - 1]
    BY <1>3, <1>4, SubSeqProperties
  <1>6. Front(s) = SubSeq(s, 1, n - 1)
    BY DEF Front, n
  <1>7. Len(Front(s)) = n - 1
    BY <1>1, <1>5, <1>6
  <1>8. \A j \in 1 .. n - 1 : Front(s)[j] = s[j]
    <2> TAKE j \in 1 .. n - 1
    <2>1. j \in 1 .. n - 1 - 1 + 1 /\ 1 + j - 1 = j
      BY <1>1
    <2> QED
      BY <1>5, <1>6, <2>1
  <1> QED
    BY <1>2, <1>5, <1>6, <1>7, <1>8 DEF n

Filled(s, i, e) == Front([s EXCEPT ![i] = e])
IsFilled(s, i, e, row) ==
    /\ row \in Row /\ Len(row) = Len(s) - 1
    /\ \A j \in 1 .. Len(s) - 1 : row[j] = IF j = i THEN e ELSE s[j]

FilledIs(X, s, i, e, t) ==
    /\ t \in Seq(X) /\ Len(t) = Len(s) - 1
    /\ \A j \in 1 .. Len(s) - 1 : t[j] = IF j = i THEN e ELSE s[j]

\* Element i is overwritten with e, and the last element is taken.
LEMMA FilledSeq ==
    ASSUME NEW X, NEW s \in Seq(X), NEW i \in 1 .. Len(s), NEW e \in X
    PROVE  FilledIs(X, s, i, e, Filled(s, i, e))
  <1> DEFINE f == [s EXCEPT ![i] = e]
  <1>1. /\ f \in Seq(X) /\ Len(f) = Len(s)
        /\ \A j \in 1 .. Len(s) : f[j] = IF j = i THEN e ELSE s[j]
    BY ExceptSeq
  <1>2. Len(s) \in Nat /\ Len(s) # 0
    BY LenProperties
  <1> HIDE DEF f
  <1>3. /\ Front(f) \in Seq(X) /\ Len(Front(f)) = Len(s) - 1
        /\ \A j \in 1 .. Len(s) - 1 : Front(f)[j] = f[j]
    BY <1>1, <1>2, LastFacts, Zenon
  <1>4. \A j \in 1 .. Len(s) - 1 : j \in 1 .. Len(s)
    BY <1>2
  <1> QED
    BY <1>1, <1>3, <1>4, Zenon DEF f, Filled, FilledIs

\* The same, word by word.
LEMMA FilledFacts ==
    ASSUME NEW X, NEW s \in Seq(X), NEW i \in 1 .. Len(s), NEW e \in X
    PROVE  /\ Filled(s, i, e) \in Seq(X)
           /\ Len(Filled(s, i, e)) = Len(s) - 1
           /\ \A j \in 1 .. Len(s) - 1 : Filled(s, i, e)[j] = IF j = i THEN e ELSE s[j]
  <1>1. FilledIs(X, s, i, e, Filled(s, i, e))
    BY FilledSeq
  <1> QED
    BY <1>1 DEF FilledIs

\* Element i of a row is overwritten with e, and the last element is taken.
LEMMA FilledRow ==
    ASSUME NEW s \in Row, NEW i \in 1 .. Len(s), NEW e \in Edge
    PROVE  IsFilled(s, i, e, Filled(s, i, e))
  BY FilledFacts DEF IsFilled, Row

\* The types of the rows of an array and of their edges.
LEMMA RowFacts ==
    ASSUME NEW vs \in Adj, NEW a \in 1 .. Len(vs)
    PROVE  /\ vs[a] \in Row /\ Len(vs[a]) \in Nat /\ DOMAIN vs[a] = 1 .. Len(vs[a])
           /\ Len(vs) \in Nat /\ DOMAIN vs = 1 .. Len(vs)
           /\ \A i \in 1 .. Len(vs[a]) : vs[a][i] \in Edge
  BY LenProperties, ElementOfSeq DEF Adj, Row

PutRow(vs, a, row) == [vs EXCEPT ![a] = row]
IsPutRow(vs, a, row, ws) ==
    /\ ws \in Adj /\ Len(ws) = Len(vs) /\ ws[a] = row
    /\ \A u \in 1 .. Len(vs) : u # a => ws[u] = vs[u]

PutEdge(vs, a, b, e) == PutRow(vs, a, [vs[a] EXCEPT ![b] = e])
IsPutEdge(vs, a, b, e, ws) ==
    /\ ws \in Adj /\ Len(ws) = Len(vs)
    /\ \A u \in 1 .. Len(vs) : Len(ws[u]) = Len(vs[u])
    /\ \A u \in 1 .. Len(vs) : u # a => ws[u] = vs[u]
    /\ ws[a][b] = e
    /\ \A j \in 1 .. Len(vs[a]) : j # b => ws[a][j] = vs[a][j]

\* One row is replaced.
LEMMA RowChanged ==
    ASSUME NEW vs \in Adj, NEW a \in 1 .. Len(vs), NEW row \in Row
    PROVE  IsPutRow(vs, a, row, PutRow(vs, a, row))
  BY ExceptSeq DEF Adj, PutRow, IsPutRow

\* One edge is replaced.
LEMMA EdgeChanged ==
    ASSUME NEW vs \in Adj, NEW a \in 1 .. Len(vs), NEW b \in 1 .. Len(vs[a]), NEW e \in Edge
    PROVE  IsPutEdge(vs, a, b, e, PutEdge(vs, a, b, e))
  <1> DEFINE s == vs[a]
             row == [s EXCEPT ![b] = e]
             ws == PutEdge(vs, a, b, e)
  <1>1. s \in Seq(Edge) /\ b \in 1 .. Len(s)
    BY RowFacts DEF Row
  <1> HIDE DEF s
  <1>2. /\ row \in Seq(Edge) /\ Len(row) = Len(s)
        /\ \A j \in 1 .. Len(s) : row[j] = IF j = b THEN e ELSE s[j]
    BY <1>1, ExceptSeq
  <1>3. ws = PutRow(vs, a, row)
    BY DEF PutEdge, s
  <1> HIDE DEF row, ws
  <1>4. IsPutRow(vs, a, row, ws)
    BY <1>2, <1>3, RowChanged DEF Row
  <1>5. /\ ws \in Adj /\ Len(ws) = Len(vs) /\ ws[a] = row
        /\ \A u \in 1 .. Len(vs) : u # a => ws[u] = vs[u]
    BY <1>4 DEF IsPutRow
  <1>6. Len(row) = Len(vs[a]) /\ row[b] = e /\ \A j \in 1 .. Len(vs[a]) : j # b => row[j] = vs[a][j]
    BY <1>1, <1>2 DEF s
  <1>7. \A u \in 1 .. Len(vs) : Len(ws[u]) = Len(vs[u])
    BY <1>5, <1>6, Zenon
  <1> QED
    BY <1>5, <1>6, <1>7 DEF IsPutEdge, ws

-----------------------------------------------------------------------------
(* internalDeleteEdge.                                                       *)

Untouched(G, H) ==
    H.deg = G.deg /\ H.m = G.m /\ H.last = G.last /\ H.cont = G.cont /\ H.pos = G.pos
    /\ H.exited = G.exited

WithRev(e, i) == [e EXCEPT !.rev = i]
Told(vs, a, b, i) == PutEdge(vs, a, b, WithRev(vs[a][b], i))
WithoutEdge(vs, v, i) ==
    LET moved == vs[v][Len(vs[v])]
        cut == PutRow(vs, v, Filled(vs[v], i, moved))
    IN  IF i = Len(vs[v]) THEN cut ELSE Told(cut, moved.to, moved.rev, i)

\* An edge with another index of its other copy.
LEMMA RevFacts ==
    ASSUME NEW e \in Edge, NEW i \in Nat
    PROVE  /\ WithRev(e, i) \in Edge /\ WithRev(e, i).to = e.to /\ WithRev(e, i).w = e.w
           /\ WithRev(e, i).rev = i
  BY DEF WithRev, Edge

IsWithout(vs, v, i, ws) ==
    LET L == Len(vs[v])
        moved == vs[v][L]
    IN  /\ ws \in Adj /\ Len(ws) = Len(vs) /\ Len(ws[v]) = L - 1
        /\ \A u \in 1 .. Len(vs) : u # v => Len(ws[u]) = Len(vs[u])
        /\ \A j \in 1 .. L - 1 : ws[v][j] = IF j = i THEN moved ELSE vs[v][j]
        /\ \A u \in 1 .. Len(vs) : u # v => \A j \in 1 .. Len(vs[u]) :
              ws[u][j] = IF i # L /\ u = moved.to /\ j = moved.rev
                         THEN WithRev(vs[u][j], i) ELSE vs[u][j]

\* The last edge of v takes the place of edge i, and its other end is told.
LEMMA WithoutEdgeFacts ==
    ASSUME NEW vs \in Adj, NEW v \in 1 .. Len(vs), NEW i \in 1 .. Len(vs[v]),
           LET moved == vs[v][Len(vs[v])]
           IN  i # Len(vs[v]) => /\ moved.to \in 1 .. Len(vs) /\ moved.to # v
                                 /\ moved.rev \in 1 .. Len(vs[moved.to])
    PROVE  IsWithout(vs, v, i, WithoutEdge(vs, v, i))
  <1> DEFINE s == vs[v]
             L == Len(s)
             moved == s[L]
             row == Filled(s, i, moved)
             cut == PutRow(vs, v, row)
             ws == WithoutEdge(vs, v, i)
  <1>1. s \in Row /\ L \in Nat /\ L # 0 /\ i \in Nat /\ i \in 1 .. L /\ moved \in Edge
    BY RowFacts
  <1>2. i # L => /\ moved.to \in 1 .. Len(vs) /\ moved.to # v
                 /\ moved.rev \in 1 .. Len(vs[moved.to])
    OBVIOUS
  <1>3. ws = IF i = L THEN cut ELSE Told(cut, moved.to, moved.rev, i)
    BY DEF WithoutEdge
  <1> HIDE DEF moved, s
  <1>4. IsFilled(s, i, moved, row)
    BY <1>1, FilledRow
  <1>5. /\ row \in Row /\ Len(row) = L - 1
        /\ \A j \in 1 .. L - 1 : row[j] = IF j = i THEN moved ELSE s[j]
    BY <1>4 DEF IsFilled
  <1> HIDE DEF row
  <1>6. IsPutRow(vs, v, row, cut)
    BY <1>5, RowChanged
  <1>7. /\ cut \in Adj /\ Len(cut) = Len(vs) /\ cut[v] = row
        /\ \A u \in 1 .. Len(vs) : u # v => cut[u] = vs[u]
    BY <1>6 DEF IsPutRow
  <1> HIDE DEF cut, L, ws
  <1>8. CASE i = L
    <2>1. ws = cut
      BY <1>3, <1>8
    <2>2. Len(ws[v]) = L - 1 /\ \A u \in 1 .. Len(vs) : u # v => Len(ws[u]) = Len(vs[u])
      BY <1>5, <1>7, <2>1
    <2>3. \A j \in 1 .. L - 1 : ws[v][j] = IF j = i THEN moved ELSE s[j]
      BY <1>5, <1>7, <2>1
    <2> QED
      BY <1>7, <1>8, <2>1, <2>2, <2>3 DEF IsWithout, s, L, moved, ws
  <1>9. CASE i # L
    <2> DEFINE t == moved.to
               r == moved.rev
               e == WithRev(cut[t][r], i)
    <2>1. t \in 1 .. Len(vs) /\ t # v /\ r \in 1 .. Len(vs[t])
      BY <1>2, <1>9
    <2>2. ws = PutEdge(cut, t, r, e)
      BY <1>3, <1>9 DEF Told
    <2> HIDE DEF t, r
    <2>3. t \in 1 .. Len(cut) /\ r \in 1 .. Len(cut[t]) /\ cut[t] = vs[t]
      BY <1>7, <2>1
    <2>4. e \in Edge /\ e = WithRev(vs[t][r], i)
      BY <1>1, <1>7, <2>3, RowFacts, RevFacts, Zenon
    <2> HIDE DEF e
    <2>5. IsPutEdge(cut, t, r, e, ws)
      BY <1>7, <2>2, <2>3, <2>4, EdgeChanged
    <2>6. /\ ws \in Adj /\ Len(ws) = Len(cut)
          /\ \A u \in 1 .. Len(cut) : Len(ws[u]) = Len(cut[u])
          /\ \A u \in 1 .. Len(cut) : u # t => ws[u] = cut[u]
          /\ ws[t][r] = e
          /\ \A j \in 1 .. Len(cut[t]) : j # r => ws[t][j] = cut[t][j]
      BY <2>5 DEF IsPutEdge
    <2>7. ws[v] = row
      BY <1>7, <2>1, <2>6
    <2>8. ASSUME NEW u \in 1 .. Len(vs), u # v, NEW j \in 1 .. Len(vs[u])
          PROVE  ws[u][j] = IF u = t /\ j = r THEN WithRev(vs[u][j], i) ELSE vs[u][j]
      <3>1. CASE u = t
        BY <2>3, <2>4, <2>6, <3>1, Zenon
      <3>2. CASE u # t
        BY <1>7, <2>6, <2>8, <3>2, Zenon
      <3> QED
        BY <3>1, <3>2
    <2>9. \A u \in 1 .. Len(vs) : u # v => Len(ws[u]) = Len(vs[u])
      BY <1>7, <2>6
    <2>10. Len(ws) = Len(vs) /\ Len(ws[v]) = L - 1
      BY <1>5, <1>7, <2>6, <2>7
    <2>11. \A j \in 1 .. L - 1 : ws[v][j] = IF j = i THEN moved ELSE s[j]
      BY <1>5, <2>7
    <2> QED
      BY <1>9, <2>6, <2>8, <2>9, <2>10, <2>11 DEF IsWithout, s, L, moved, ws, t, r
  <1> QED
    BY <1>8, <1>9

\* internalDeleteEdge changes the arrays of edges only.
LEMMA InternalDeleteEdgeIs ==
    ASSUME NEW G \in Objects, NEW v \in 1 .. Len(G.vs), NEW i \in 1 .. Len(G.vs[v])
    PROVE  InternalDeleteEdge(G, v, i) = [G EXCEPT !.vs = WithoutEdge(G.vs, v, i)]
  <1>1. Last(G.vs[v]) = G.vs[v][Len(G.vs[v])]
    BY DEF Last
  <1> QED
    BY <1>1, Zenon DEF InternalDeleteEdge, WithoutEdge, WithRev, Told, PutEdge, PutRow, Filled, Objects

\* An object with other arrays of edges.
LEMMA WithVs ==
    ASSUME NEW G \in Objects, NEW vs \in Adj, NEW H, H = [G EXCEPT !.vs = vs]
    PROVE  H \in Objects /\ Untouched(G, H) /\ H.vs = vs
  BY Zenon DEF Objects, Untouched

-----------------------------------------------------------------------------
(* Pairs of edges.                                                           *)

\* A[v] are the indices of the edges of v that count: while a vertex is being merged or
\* removed, some edges in the arrays are remains.
Mate(vs, A, v, i, t, r) ==
    /\ t \in 1 .. Len(vs) /\ t # v /\ r \in A[t]
    /\ vs[t][r].to = v /\ vs[t][r].w = vs[v][i].w /\ vs[t][r].rev = i
    /\ \A j \in A[v] : vs[v][j].to = t => j = i

Paired(vs, A) ==
    /\ A \in [1 .. Len(vs) -> SUBSET Nat]
    /\ \A v \in 1 .. Len(vs) : A[v] \subseteq 1 .. Len(vs[v])
    /\ \A v \in 1 .. Len(vs) : \A i \in A[v] : Mate(vs, A, v, i, vs[v][i].to, vs[v][i].rev)

\* When all other edges of v count, edge i may go.
LEMMA WithoutKeeps ==
    ASSUME NEW vs \in Adj, NEW A, Paired(vs, A), NEW v \in 1 .. Len(vs), NEW i \in 1 .. Len(vs[v]),
           A[v] = (1 .. Len(vs[v])) \ {i},
           NEW ws, ws = WithoutEdge(vs, v, i),
           NEW B, B = [A EXCEPT ![v] = 1 .. Len(vs[v]) - 1]
    PROVE  IsWithout(vs, v, i, ws) /\ Paired(ws, B)
  <1> DEFINE L == Len(vs[v])
             moved == vs[v][L]
             Old(u, j) == IF u = v /\ j = i THEN L ELSE j
             Tell(u, j) == i # L /\ u = moved.to /\ j = moved.rev
  <1>1. L \in Nat /\ L >= 1 /\ i \in 1 .. L
    BY RowFacts
  <1>2. i # L => L \in A[v]
    BY <1>1
  <1>3. i # L => /\ moved.to \in 1 .. Len(vs) /\ moved.to # v /\ moved.rev \in A[moved.to]
                 /\ moved.rev \in 1 .. Len(vs[moved.to])
                 /\ vs[moved.to][moved.rev].to = v /\ vs[moved.to][moved.rev].w = moved.w
                 /\ vs[moved.to][moved.rev].rev = L
    <2>1. i # L => Mate(vs, A, v, L, moved.to, moved.rev)
      BY <1>2, Zenon DEF Paired
    <2> QED
      BY <2>1, Zenon DEF Mate, Paired
  <1>4. IsWithout(vs, v, i, ws)
    BY <1>3, WithoutEdgeFacts
  <1> HIDE DEF L, moved
  <1>5. /\ ws \in Adj /\ Len(ws) = Len(vs) /\ Len(ws[v]) = L - 1
        /\ \A u \in 1 .. Len(vs) : u # v => Len(ws[u]) = Len(vs[u])
        /\ \A j \in 1 .. L - 1 : ws[v][j] = IF j = i THEN moved ELSE vs[v][j]
        /\ \A u \in 1 .. Len(vs) : u # v => \A j \in 1 .. Len(vs[u]) :
              ws[u][j] = IF i # L /\ u = moved.to /\ j = moved.rev
                         THEN WithRev(vs[u][j], i) ELSE vs[u][j]
    BY <1>4, Zenon DEF IsWithout, L, moved
  <1>6. /\ B \in [1 .. Len(vs) -> SUBSET Nat]
        /\ B[v] = 1 .. L - 1 /\ \A u \in 1 .. Len(vs) : u # v => B[u] = A[u]
    BY <1>1 DEF Paired, L
  <1>7. A[v] = (1 .. L) \ {i}
    BY DEF L
  <1>8. ASSUME NEW u \in 1 .. Len(vs), NEW j \in B[u]
        PROVE  /\ Old(u, j) \in A[u] /\ j \in 1 .. Len(ws[u]) /\ j \in Nat
               /\ ws[u][j].to = vs[u][Old(u, j)].to /\ ws[u][j].w = vs[u][Old(u, j)].w
               /\ ws[u][j].rev = IF Tell(u, j) THEN i ELSE vs[u][Old(u, j)].rev
    <2>1. CASE u = v
      <3>1. j \in 1 .. L - 1 /\ Old(u, j) \in A[v]
        BY <1>1, <1>6, <1>7, <2>1
      <3>2. ws[u][j] = vs[v][Old(u, j)]
        BY <1>5, <2>1, <3>1 DEF moved
      <3>3. ~Tell(u, j)
        BY <1>3, <2>1
      <3> QED
        BY <1>5, <2>1, <3>1, <3>2, <3>3
    <2>2. CASE u # v
      <3>1. j \in A[u] /\ j \in 1 .. Len(vs[u]) /\ j \in Nat
        BY <1>6, <2>2 DEF Paired
      <3>2. ws[u][j] = IF Tell(u, j) THEN WithRev(vs[u][j], i) ELSE vs[u][j]
        BY <1>5, <2>2, <3>1, Zenon
      <3>3. vs[u][j] \in Edge /\ i \in Nat
        BY <1>1, <3>1, RowFacts
      <3>4. /\ WithRev(vs[u][j], i).to = vs[u][j].to /\ WithRev(vs[u][j], i).w = vs[u][j].w
            /\ WithRev(vs[u][j], i).rev = i
        BY <3>3, RevFacts, Zenon
      <3> HIDE DEF Tell
      <3> QED
        BY <1>5, <2>2, <3>1, <3>2, <3>4
    <2> QED
      BY <2>1, <2>2
  <1>9. ASSUME NEW u \in 1 .. Len(vs), NEW j \in B[u]
        PROVE  Mate(ws, B, u, j, ws[u][j].to, ws[u][j].rev)
    <2> DEFINE o == Old(u, j)
               t == vs[u][o].to
               r == vs[u][o].rev
               s == ws[u][j].rev
    <2>1. o \in A[u] /\ ws[u][j].to = t /\ ws[u][j].w = vs[u][o].w /\ j \in Nat
      <3> HIDE DEF Old, Tell
      <3> QED
        BY <1>8
    <2>2. /\ t \in 1 .. Len(vs) /\ t # u /\ r \in A[t] /\ r \in 1 .. Len(vs[t])
          /\ vs[t][r].to = u /\ vs[t][r].w = vs[u][o].w /\ vs[t][r].rev = o
          /\ \A k \in A[u] : vs[u][k].to = t => k = o
      <3> HIDE DEF Old
      <3>1. Mate(vs, A, u, o, t, r)
        BY <2>1 DEF Paired
      <3> HIDE DEF o, t, r
      <3> QED
        BY <3>1 DEF Mate, Paired
    <2>3. s = IF Tell(u, j) THEN i ELSE r
      <3> HIDE DEF Old, Tell
      <3> QED
        BY <1>8
    <2>4. u # v => o = j
      OBVIOUS
    <2>5. Tell(u, j) => u # v /\ t = v /\ r = L
      BY <1>3, <2>4
    <2>6. t = v /\ r = L => Tell(u, j)
      BY <1>1, <1>7, <2>2, <2>4 DEF moved
    <2>7. s \in B[t] /\ Old(t, s) = r
      <3>1. CASE Tell(u, j)
        <4>1. t = v /\ r = L /\ s = i /\ i # L
          BY <2>3, <2>5, <3>1
        <4> HIDE DEF Tell, s, t, r
        <4>2. i \in 1 .. L - 1
          BY <1>1, <4>1
        <4> QED
          BY <1>6, <4>1, <4>2, Zenon
      <3>2. CASE ~Tell(u, j)
        <4>1. s = r /\ ~(t = v /\ r = L)
          BY <2>3, <2>6, <3>2
        <4>2. t = v => r # i
          BY <1>7, <2>2
        <4> HIDE DEF Tell, s, t, r, o
        <4>3. CASE t = v
          <5>1. r \in A[v] /\ r # L /\ r # i /\ s = r
            BY <2>2, <4>1, <4>2, <4>3
          <5> HIDE DEF L
          <5>2. r \in 1 .. L - 1
            BY <1>1, <1>7, <5>1
          <5> QED
            BY <1>6, <4>3, <5>1, <5>2, Zenon
        <4>4. CASE t # v
          BY <1>6, <2>2, <4>1, <4>4
        <4> QED
          BY <4>3, <4>4
      <3> QED
        BY <3>1, <3>2
    <2>8. /\ ws[t][s].to = u /\ ws[t][s].w = ws[u][j].w
          /\ ws[t][s].rev = IF Tell(t, s) THEN i ELSE o
      <3>1. /\ ws[t][s].to = vs[t][Old(t, s)].to /\ ws[t][s].w = vs[t][Old(t, s)].w
            /\ ws[t][s].rev = IF Tell(t, s) THEN i ELSE vs[t][Old(t, s)].rev
        <4>1. t \in 1 .. Len(vs) /\ s \in B[t]
          BY <2>2, <2>7
        <4> HIDE DEF Tell, Old, s, t
        <4> QED
          BY <1>8, <4>1
      <3> HIDE DEF Tell, Old, s, t, r, o
      <3> QED
        BY <2>1, <2>2, <2>7, <3>1
    <2>9. ws[t][s].rev = j
      <3>1. CASE Tell(t, s)
        <4>1. t # v /\ Old(t, s) = s /\ s = r
          BY <1>3, <2>7, <3>1
        <4>2. u = v /\ o = L
          BY <1>3, <2>2, <3>1, <4>1
        <4>3. j = i
          BY <1>1, <1>6, <4>2
        <4> HIDE DEF Tell
        <4> QED
          BY <2>8, <3>1, <4>3, Zenon
      <3>2. CASE ~Tell(t, s)
        <4>1. o = j
          <5>1. SUFFICES ASSUME o # j PROVE FALSE
            OBVIOUS
          <5>2. u = v /\ o = L /\ j = i /\ i # L
            BY <5>1
          <5>3. t = moved.to /\ r = moved.rev /\ t # v
            BY <2>2, <5>2 DEF moved
          <5>4. s = r
            BY <2>7, <5>3
          <5> QED
            BY <3>2, <5>2, <5>3, <5>4
        <4> HIDE DEF Tell
        <4> QED
          BY <2>8, <3>2, <4>1, Zenon
      <3> QED
        BY <3>1, <3>2, Zenon
    <2>10. ASSUME NEW k \in B[u], ws[u][k].to = t
           PROVE  k = j
      <3>1. Old(u, k) \in A[u] /\ vs[u][Old(u, k)].to = t
        BY <1>8, <2>10
      <3>2. Old(u, k) = o
        BY <2>2, <3>1
      <3>3. u = v => j # L /\ k # L
        BY <1>1, <1>6
      <3> HIDE DEF t, r
      <3> QED
        BY <3>2, <3>3
    <2> HIDE DEF Tell, Old, s, t, r, o
    <2>11. ws[u][j].to = t /\ ws[u][j].rev = s /\ t \in 1 .. Len(ws) /\ t # u
      BY <1>5, <2>1, <2>2 DEF s
    <2> QED
      BY <2>7, <2>8, <2>9, <2>10, <2>11 DEF Mate
  <1>10. \A u \in 1 .. Len(vs) : B[u] \subseteq 1 .. Len(ws[u])
    BY <1>8
  <1> QED
    BY <1>4, <1>5, <1>6, <1>9, <1>10, Zenon DEF Paired

\* What a live edge and its other end know of each other.
Mated(vs, A, v, i, t, r) ==
    /\ i \in 1 .. Len(vs[v]) /\ i \in Nat /\ vs[v][i] \in Edge
    /\ t \in 1 .. Len(vs) /\ t # v /\ r \in A[t] /\ r \in 1 .. Len(vs[t]) /\ r \in Nat
    /\ vs[t][r] \in Edge
    /\ vs[t][r].to = v /\ vs[t][r].w = vs[v][i].w /\ vs[t][r].rev = i
    /\ \A j \in A[v] : vs[v][j].to = t => j = i
    /\ \A j \in A[t] : vs[t][j].to = v => j = r

\* A live edge knows its other copy, and the other copy knows it.
LEMMA MateFacts ==
    ASSUME NEW vs \in Adj, NEW A, Paired(vs, A), NEW v \in 1 .. Len(vs), NEW i \in A[v]
    PROVE  Mated(vs, A, v, i, vs[v][i].to, vs[v][i].rev)
  <1> DEFINE t == vs[v][i].to
             r == vs[v][i].rev
  <1>1. Mate(vs, A, v, i, t, r)
    BY DEF Paired
  <1> HIDE DEF t, r
  <1>2. /\ t \in 1 .. Len(vs) /\ t # v /\ r \in A[t] /\ vs[t][r].to = v
        /\ vs[t][r].w = vs[v][i].w /\ vs[t][r].rev = i
        /\ \A j \in A[v] : vs[v][j].to = t => j = i
    BY <1>1 DEF Mate
  <1>3. Mate(vs, A, t, r, v, i)
    BY <1>2 DEF Paired
  <1>4. \A j \in A[t] : vs[t][j].to = v => j = r
    BY <1>3 DEF Mate
  <1>5. i \in 1 .. Len(vs[v]) /\ r \in 1 .. Len(vs[t])
    BY <1>2 DEF Paired
  <1>6. vs[v][i] \in Edge /\ vs[t][r] \in Edge /\ i \in Nat /\ r \in Nat
    BY <1>2, <1>5, RowFacts
  <1> QED
    BY <1>2, <1>4, <1>5, <1>6 DEF Mated, t, r

\* A pair of copies stops to count.
Killed(vs, A, v, i, B) ==
    LET t == vs[v][i].to
        r == vs[v][i].rev
    IN  /\ B \in [1 .. Len(vs) -> SUBSET Nat]
        /\ B[v] = A[v] \ {i} /\ B[t] = A[t] \ {r}
        /\ \A u \in 1 .. Len(vs) : u # v /\ u # t => B[u] = A[u]

\* When both copies of an edge stop counting the others stay paired.
LEMMA KilledPaired ==
    ASSUME NEW vs \in Adj, NEW A, Paired(vs, A), NEW v \in 1 .. Len(vs), NEW i \in A[v],
           NEW B, Killed(vs, A, v, i, B)
    PROVE  Paired(vs, B)
  <1> DEFINE t == vs[v][i].to
             r == vs[v][i].rev
  <1>1. /\ t \in 1 .. Len(vs) /\ t # v /\ r \in A[t]
        /\ \A j \in A[v] : vs[v][j].to = t => j = i
        /\ \A j \in A[t] : vs[t][j].to = v => j = r
        /\ vs[t][r].to = v /\ vs[t][r].rev = i
    <2>1. Mated(vs, A, v, i, t, r)
      BY MateFacts
    <2> QED
      BY <2>1, Zenon DEF Mated
  <1>2. /\ B \in [1 .. Len(vs) -> SUBSET Nat]
        /\ B[v] = A[v] \ {i} /\ B[t] = A[t] \ {r}
        /\ \A u \in 1 .. Len(vs) : u # v /\ u # t => B[u] = A[u]
    BY DEF Killed
  <1> HIDE DEF t, r
  <1>3. \A u \in 1 .. Len(vs) : B[u] \subseteq A[u]
    BY <1>2
  <1>4. ASSUME NEW u \in 1 .. Len(vs), NEW j \in B[u]
        PROVE  Mate(vs, B, u, j, vs[u][j].to, vs[u][j].rev)
    <2> DEFINE a == vs[u][j].to
               b == vs[u][j].rev
    <2>1. j \in A[u]
      BY <1>3
    <2>2. /\ a \in 1 .. Len(vs) /\ a # u /\ b \in A[a]
          /\ vs[a][b].to = u /\ vs[a][b].w = vs[u][j].w /\ vs[a][b].rev = j
          /\ \A k \in A[u] : vs[u][k].to = a => k = j
      <3>1. Mated(vs, A, u, j, a, b)
        BY <2>1, MateFacts
      <3> QED
        BY <3>1 DEF Mated
    <2> HIDE DEF a, b
    <2>3. b \in B[a]
      <3>1. CASE a = v /\ b = i
        <4>1. u = t /\ j = r
          BY <2>2, <3>1 DEF t, r
        <4> QED
          BY <1>2, <4>1
      <3>2. CASE a = t /\ b = r
        <4>1. u = v /\ j = i
          BY <1>1, <2>2, <3>2
        <4> QED
          BY <1>2, <4>1
      <3>3. CASE ~(a = v /\ b = i) /\ ~(a = t /\ b = r)
        BY <1>2, <2>2, <3>3
      <3> QED
        BY <3>1, <3>2, <3>3
    <2>4. Mate(vs, B, u, j, a, b)
      BY <1>3, <2>2, <2>3 DEF Mate
    <2> QED
      BY <2>4 DEF a, b
  <1>5. \A u \in 1 .. Len(vs) : B[u] \subseteq 1 .. Len(vs[u])
    BY <1>3 DEF Paired
  <1> QED
    BY <1>2, <1>4, <1>5 DEF Paired

KilledSet(vs, A, v, i) ==
    [u \in 1 .. Len(vs) |-> IF u = v THEN A[v] \ {i}
                            ELSE IF u = vs[v][i].to THEN A[u] \ {vs[v][i].rev} ELSE A[u]]

\* The edges that count when edge i of v and its other copy no longer do.
LEMMA KilledExists ==
    ASSUME NEW vs \in Adj, NEW A, Paired(vs, A), NEW v \in 1 .. Len(vs), NEW i \in A[v]
    PROVE  Killed(vs, A, v, i, KilledSet(vs, A, v, i))
  <1>1. vs[v][i].to \in 1 .. Len(vs) /\ vs[v][i].to # v
    BY MateFacts DEF Mated
  <1>2. A \in [1 .. Len(vs) -> SUBSET Nat]
    BY DEF Paired
  <1> QED
    BY <1>1, <1>2 DEF Killed, KilledSet

\* Weights of live edges may change, at both ends.
Reweighs(vs, A, ws) ==
    /\ ws \in Adj /\ Len(ws) = Len(vs)
    /\ \A u \in 1 .. Len(vs) : A[u] \subseteq 1 .. Len(ws[u])
    /\ \A u \in 1 .. Len(vs) : \A j \in A[u] :
          /\ ws[u][j].to = vs[u][j].to /\ ws[u][j].rev = vs[u][j].rev
          /\ ws[vs[u][j].to][vs[u][j].rev].w = ws[u][j].w

\* New weights keep the pairs if both copies of every edge agree.
LEMMA ReweighedPaired ==
    ASSUME NEW vs \in Adj, NEW A, Paired(vs, A), NEW ws, Reweighs(vs, A, ws)
    PROVE  Paired(ws, A)
  <1>0. /\ ws \in Adj /\ Len(ws) = Len(vs)
        /\ \A u \in 1 .. Len(vs) : A[u] \subseteq 1 .. Len(ws[u])
        /\ \A u \in 1 .. Len(vs) : \A j \in A[u] :
              /\ ws[u][j].to = vs[u][j].to /\ ws[u][j].rev = vs[u][j].rev
              /\ ws[vs[u][j].to][vs[u][j].rev].w = ws[u][j].w
    BY DEF Reweighs
  <1>1. ASSUME NEW u \in 1 .. Len(vs), NEW j \in A[u]
        PROVE  Mate(ws, A, u, j, ws[u][j].to, ws[u][j].rev)
    <2> DEFINE a == vs[u][j].to
               b == vs[u][j].rev
    <2>1. /\ a \in 1 .. Len(vs) /\ a # u /\ b \in A[a]
          /\ vs[a][b].to = u /\ vs[a][b].rev = j
          /\ \A k \in A[u] : vs[u][k].to = a => k = j
      <3>1. Mated(vs, A, u, j, a, b)
        BY MateFacts
      <3> QED
        BY <3>1 DEF Mated
    <2>2. ws[u][j].to = a /\ ws[u][j].rev = b /\ ws[a][b].w = ws[u][j].w
      BY <1>0
    <2> HIDE DEF a, b
    <2>3. ws[a][b].to = u /\ ws[a][b].rev = j
      BY <1>0, <2>1
    <2>4. \A k \in A[u] : ws[u][k].to = a => k = j
      BY <1>0, <2>1, Zenon
    <2>5. a \in 1 .. Len(ws)
      BY <1>0, <2>1
    <2> QED
      BY <2>1, <2>2, <2>3, <2>4, <2>5 DEF Mate
  <1> QED
    BY <1>0, <1>1 DEF Paired

\* Two slots that did not count become the copies of an edge.
Added(n, A, a, i, b, r, B) ==
    /\ B \in [1 .. n -> SUBSET Nat]
    /\ B[a] = A[a] \cup {i} /\ B[b] = A[b] \cup {r}
    /\ \A u \in 1 .. n : u # a /\ u # b => B[u] = A[u]

Keeps(vs, A, ws) ==
    \A u \in 1 .. Len(vs) : \A j \in A[u] : ws[u][j] = vs[u][j] /\ j \in 1 .. Len(ws[u])

\* Two new copies of one edge, between vertices without one, are a pair.
LEMMA AddedPaired ==
    ASSUME NEW vs \in Adj, NEW A, Paired(vs, A), NEW ws \in Adj, Len(ws) = Len(vs),
           NEW a \in 1 .. Len(vs), NEW b \in 1 .. Len(vs), a # b,
           NEW i \in 1 .. Len(ws[a]), i \notin A[a], NEW r \in 1 .. Len(ws[b]), r \notin A[b],
           Keeps(vs, A, ws),
           \A j \in A[a] : vs[a][j].to # b,
           ws[a][i].to = b, ws[a][i].rev = r, ws[b][r].to = a, ws[b][r].rev = i,
           ws[a][i].w = ws[b][r].w,
           NEW B, Added(Len(vs), A, a, i, b, r, B)
    PROVE  Paired(ws, B)
  <1>1. /\ B \in [1 .. Len(vs) -> SUBSET Nat]
        /\ B[a] = A[a] \cup {i} /\ B[b] = A[b] \cup {r}
        /\ \A u \in 1 .. Len(vs) : u # a /\ u # b => B[u] = A[u]
    BY Zenon DEF Added
  <1>2. \A u \in 1 .. Len(vs) : A[u] \subseteq B[u]
    BY <1>1, Zenon
  <1>8. \A u \in 1 .. Len(vs) : \A j \in A[u] : ws[u][j] = vs[u][j] /\ j \in 1 .. Len(ws[u])
    BY Zenon DEF Keeps
  <1>3. \A j \in A[b] : vs[b][j].to # a
    <2> SUFFICES ASSUME NEW j \in A[b], vs[b][j].to = a PROVE FALSE
      OBVIOUS
    <2>0. Mated(vs, A, b, j, vs[b][j].to, vs[b][j].rev)
      BY MateFacts
    <2>1. vs[b][j].rev \in A[a] /\ vs[a][vs[b][j].rev].to = b
      BY <2>0 DEF Mated
    <2> QED
      BY <2>1
  <1>4. ASSUME NEW u \in 1 .. Len(vs), NEW j \in A[u]
        PROVE  Mate(ws, B, u, j, ws[u][j].to, ws[u][j].rev)
    <2> DEFINE t == vs[u][j].to
               s == vs[u][j].rev
    <2>1. /\ t \in 1 .. Len(vs) /\ t # u /\ s \in A[t]
          /\ vs[t][s].to = u /\ vs[t][s].w = vs[u][j].w /\ vs[t][s].rev = j
          /\ \A k \in A[u] : vs[u][k].to = t => k = j
      <3>1. Mated(vs, A, u, j, t, s)
        BY MateFacts
      <3> QED
        BY <3>1, Zenon DEF Mated
    <2>2. ws[u][j] = vs[u][j] /\ ws[t][s] = vs[t][s]
      BY <1>8, <2>1, Zenon
    <2>3. ws[u][j].to = t /\ ws[u][j].rev = s
      BY <2>2
    <2> HIDE DEF t, s
    <2>4. ASSUME NEW k \in B[u], ws[u][k].to = t
          PROVE  k = j
      <3>1. CASE k \in A[u]
        <4>1. ws[u][k] = vs[u][k]
          BY <1>8, <3>1
        <4> QED
          BY <2>1, <2>4, <3>1, <4>1
      <3>2. CASE k \notin A[u]
        <4>1. (u = a /\ k = i) \/ (u = b /\ k = r)
          BY <1>1, <2>4, <3>2
        <4>2. ~(u = a /\ t = b) /\ ~(u = b /\ t = a)
          BY <1>3, Zenon DEF t
        <4> QED
          BY <2>4, <4>1, <4>2, Zenon
      <3> QED
        BY <3>1, <3>2
    <2>5. s \in B[t]
      BY <1>2, <2>1
    <2>6. ws[t][s].to = u /\ ws[t][s].w = ws[u][j].w /\ ws[t][s].rev = j
      BY <2>1, <2>2
    <2> QED
      BY <2>1, <2>3, <2>4, <2>5, <2>6 DEF Mate
  <1>5. Mate(ws, B, a, i, b, r)
    <2>1. \A k \in B[a] : ws[a][k].to = b => k = i
      <3> SUFFICES ASSUME NEW k \in B[a], ws[a][k].to = b, k # i PROVE FALSE
        OBVIOUS
      <3>1. k \in A[a] /\ ws[a][k] = vs[a][k]
        BY <1>1, <1>8
      <3> QED
        BY <3>1, Zenon
    <2> QED
      BY <1>1, <2>1 DEF Mate
  <1>6. Mate(ws, B, b, r, a, i)
    <2>1. \A k \in B[b] : ws[b][k].to = a => k = r
      <3> SUFFICES ASSUME NEW k \in B[b], ws[b][k].to = a, k # r PROVE FALSE
        OBVIOUS
      <3>1. k \in A[b] /\ ws[b][k] = vs[b][k]
        BY <1>1, <1>8
      <3> QED
        BY <1>3, <3>1, Zenon
    <2> QED
      BY <1>1, <2>1 DEF Mate
  <1>7. ASSUME NEW u \in 1 .. Len(vs), NEW j \in B[u]
        PROVE  Mate(ws, B, u, j, ws[u][j].to, ws[u][j].rev) /\ j \in 1 .. Len(ws[u])
    <2>1. CASE j \in A[u]
      BY <1>4, <1>8, <2>1, Zenon
    <2>2. CASE j \notin A[u]
      <3>1. (u = a /\ j = i) \/ (u = b /\ j = r)
        BY <1>1, <1>7, <2>2
      <3> QED
        BY <1>5, <1>6, <3>1, Zenon
    <2> QED
      BY <2>1, <2>2
  <1> QED
    BY <1>1, <1>7, Zenon DEF Paired

-----------------------------------------------------------------------------
(* Sums of weights.                                                          *)

Weight(s) == [i \in DOMAIN s |-> s[i].w]
RowSum(s) == Sum(Weight(s), DOMAIN s)

\* The weights of the edges of a row, and their sum, are integers.
LEMMA WeightFacts ==
    ASSUME NEW s \in Row
    PROVE  /\ IsFiniteSet(DOMAIN s) /\ DOMAIN s = 1 .. Len(s) /\ Len(s) \in Nat
           /\ \A i \in DOMAIN s : Weight(s)[i] = s[i].w /\ Weight(s)[i] \in Int
           /\ RowSum(s) \in Int
  <1>1. DOMAIN s = 1 .. Len(s) /\ Len(s) \in Nat
    BY LenProperties DEF Row
  <1>2. IsFiniteSet(1 .. Len(s))
    BY <1>1, FS_Interval
  <1>3. \A i \in DOMAIN s : Weight(s)[i] = s[i].w /\ Weight(s)[i] \in Int
    <2>1. \A i \in DOMAIN s : s[i] \in Edge
      BY <1>1, ElementOfSeq DEF Row
    <2> QED
      BY <2>1 DEF Weight, Edge
  <1>4. RowSum(s) \in Int
    BY <1>1, <1>2, <1>3, SumInt DEF RowSum
  <1> QED
    BY <1>1, <1>2, <1>3, <1>4

Differs(f, h, S, x) == Sum(h, S) = Sum(f, S) + h[x] - f[x]

\* Two sums that differ in one summand.
LEMMA SumDiffers ==
    ASSUME NEW f, NEW h, NEW S, IsFiniteSet(S), NEW x \in S,
           \A y \in S : f[y] \in Int /\ h[y] \in Int,
           \A y \in S \ {x} : f[y] = h[y]
    PROVE  Differs(f, h, S, x)
  BY SumChanged DEF Differs

\* A row without edges weighs nothing.
LEMMA RowSumEmpty == RowSum(<<>>) = 0
  <1>1. DOMAIN <<>> = {}
    OBVIOUS
  <1> QED
    BY <1>1, SumEmpty DEF RowSum

\* Where edges lead and where their other copies are does not matter.
LEMMA RowSumSame ==
    ASSUME NEW s \in Row, NEW t \in Row, Len(s) = Len(t), \A i \in 1 .. Len(s) : s[i].w = t[i].w
    PROVE  RowSum(t) = RowSum(s)
  <1>1. DOMAIN s = DOMAIN t /\ IsFiniteSet(DOMAIN s)
    BY WeightFacts
  <1>2. \A i \in DOMAIN s : Weight(s)[i] = Weight(t)[i]
    BY <1>1, WeightFacts
  <1> QED
    BY <1>1, <1>2, SumSame DEF RowSum

Gains(s, t) == RowSum(t) = RowSum(s) + t[Len(s) + 1].w
Loses(s, t, k) == RowSum(t) = RowSum(s) - s[k].w
Changes(s, t, k) == RowSum(t) = RowSum(s) + t[k].w - s[k].w

\* The weight of a row with one more edge.
LEMMA RowSumAppend ==
    ASSUME NEW s \in Row, NEW t \in Row, Len(t) = Len(s) + 1,
           \A i \in 1 .. Len(s) : s[i].w = t[i].w
    PROVE  Gains(s, t)
  <1> DEFINE n == Len(s)
             f == Weight(t)
  <1>1. n \in Nat /\ DOMAIN s = 1 .. n /\ DOMAIN t = 1 .. n + 1 /\ IsFiniteSet(DOMAIN s)
    BY WeightFacts
  <1>2. \A i \in 1 .. n : Weight(s)[i] = f[i]
    BY <1>1, WeightFacts
  <1>3. \A i \in 1 .. n + 1 : f[i] \in Int /\ f[i] = t[i].w
    BY <1>1, WeightFacts
  <1> HIDE DEF n, f
  <1>4. 1 .. n + 1 = (1 .. n) \cup {n + 1} /\ n + 1 \notin 1 .. n /\ n + 1 \in 1 .. n + 1
    BY <1>1
  <1>5. Sum(f, (1 .. n) \cup {n + 1}) = f[n + 1] + Sum(f, 1 .. n)
    BY <1>1, <1>3, <1>4, SumInsert, Zenon
  <1>6. Sum(Weight(s), 1 .. n) = Sum(f, 1 .. n)
    BY <1>1, <1>2, SumSame
  <1>7. Sum(f, 1 .. n) = RowSum(s)
    BY <1>1, <1>6 DEF RowSum
  <1>8. RowSum(t) = f[n + 1] + RowSum(s)
    BY <1>1, <1>4, <1>5, <1>7, Zenon DEF RowSum, f
  <1>9. f[n + 1] \in Int /\ f[n + 1] = t[n + 1].w /\ RowSum(s) \in Int
    BY <1>3, <1>4, WeightFacts
  <1> QED
    BY <1>8, <1>9 DEF n, Gains

\* The weight of a row one edge of which changes.
LEMMA RowSumChanged ==
    ASSUME NEW s \in Row, NEW t \in Row, Len(s) = Len(t), NEW k \in 1 .. Len(s),
           \A i \in 1 .. Len(s) : i # k => s[i].w = t[i].w
    PROVE  Changes(s, t, k)
  <1>1. DOMAIN s = DOMAIN t /\ IsFiniteSet(DOMAIN s) /\ k \in DOMAIN s
    BY WeightFacts
  <1>2. \A i \in DOMAIN s : Weight(s)[i] \in Int /\ Weight(t)[i] \in Int
    BY <1>1, WeightFacts
  <1>3. \A i \in DOMAIN s \ {k} : Weight(s)[i] = Weight(t)[i]
    BY <1>1, WeightFacts
  <1>4. Weight(s)[k] = s[k].w /\ Weight(t)[k] = t[k].w
    BY <1>1, WeightFacts
  <1>5. Differs(Weight(s), Weight(t), DOMAIN s, k)
    BY <1>1, <1>2, <1>3, SumDiffers, Zenon
  <1> QED
    BY <1>1, <1>4, <1>5 DEF RowSum, Differs, Changes

\* Slot k is filled with the last edge.
LEMMA RowSumFilled ==
    ASSUME NEW s \in Row, NEW t \in Row, Len(t) = Len(s) - 1, NEW k \in 1 .. Len(s),
           \A i \in 1 .. Len(s) - 1 : t[i].w = IF i = k THEN s[Len(s)].w ELSE s[i].w
    PROVE  Loses(s, t, k)
  <1> DEFINE n == Len(t)
             u == Append(t, s[k])
  <1>0. n \in Nat /\ Len(s) = n + 1 /\ s[k] \in Edge /\ k \in DOMAIN s
    BY WeightFacts, ElementOfSeq DEF Row
  <1>1. u \in Row /\ Len(u) = n + 1 /\ u[n + 1] = s[k] /\ \A i \in 1 .. n : u[i] = t[i]
    BY <1>0, AppendProperties DEF Row
  <1> HIDE DEF n, u
  <1>2. RowSum(u) = RowSum(t) + s[k].w
    <2>1. Gains(t, u)
      BY <1>0, <1>1, RowSumAppend, Zenon DEF n
    <2> QED
      BY <1>1, <2>1 DEF Gains, n
  <1>3. CASE k = n + 1
    <2>1. \A i \in 1 .. Len(s) : s[i].w = u[i].w
      BY <1>0, <1>1, <1>3
    <2>2. RowSum(u) = RowSum(s)
      BY <1>0, <1>1, <2>1, RowSumSame
    <2>3. RowSum(t) \in Int /\ s[k].w \in Int
      BY <1>0, WeightFacts DEF Edge
    <2> QED
      BY <1>2, <2>2, <2>3 DEF Loses
  <1>4. CASE k # n + 1
    \* u is s with elements k and n + 1 exchanged; v differs from each of them in one.
    <2> DEFINE v == [s EXCEPT ![k] = s[n + 1]]
    <2>1. s[n + 1] \in Edge /\ n + 1 \in 1 .. Len(s) /\ k \in 1 .. n
      BY <1>0, <1>4, ElementOfSeq DEF Row
    <2>2. v \in Row /\ Len(v) = n + 1 /\ \A i \in 1 .. n + 1 : v[i] = IF i = k THEN s[n + 1] ELSE s[i]
      BY <1>0, <2>1, ExceptSeq DEF Row
    <2> HIDE DEF v
    <2>3. Changes(s, v, k)
      BY <1>0, <2>2, RowSumChanged
    <2>4. \A i \in 1 .. Len(u) : i # n + 1 => v[i].w = u[i].w
      BY <1>0, <1>1, <2>2
    <2>5. Changes(v, u, n + 1)
      <3>1. Len(v) = Len(u) /\ n + 1 \in 1 .. Len(v)
        BY <1>0, <1>1, <2>2
      <3> QED
        BY <1>1, <2>2, <2>4, <3>1, RowSumChanged
    <2>6. v[k].w = s[n + 1].w /\ v[n + 1].w = s[n + 1].w /\ u[n + 1].w = s[k].w
      BY <1>0, <1>1, <1>4, <2>1, <2>2
    <2>7. s[k].w \in Int /\ s[n + 1].w \in Int
      BY <1>0, <2>1 DEF Edge
    <2>8. RowSum(t) \in Int /\ RowSum(s) \in Int /\ RowSum(v) \in Int
      BY <2>2, WeightFacts
    <2>9. RowSum(v) = RowSum(s) + s[n + 1].w - s[k].w
      BY <2>3, <2>6 DEF Changes
    <2>10. RowSum(u) = RowSum(v) + s[k].w - s[n + 1].w
      BY <2>5, <2>6 DEF Changes
    <2>11. RowSum(t) = RowSum(s) - s[k].w
      <3> DEFINE p == s[k].w
                 q == s[n + 1].w
                 a == RowSum(s)
                 b == RowSum(t)
                 c == RowSum(v)
      <3>1. p \in Int /\ q \in Int /\ a \in Int /\ b \in Int /\ c \in Int
        BY <2>7, <2>8
      <3>2. RowSum(u) = b + p /\ c = a + q - p /\ RowSum(u) = c + p - q
        BY <1>2, <2>9, <2>10
      <3> HIDE DEF p, q, a, b, c
      <3>3. b = a - p
        BY <3>1, <3>2
      <3> QED
        BY <3>3 DEF p, a, b
    <2> QED
      BY <2>11 DEF Loses
  <1> QED
    BY <1>3, <1>4

\* Sums over vertices of which two change.
DifferAt(c, d, n, a, b) ==
    /\ Sum(d, 1 .. n) = Sum(c, 1 .. n) + d[a] - c[a] + d[b] - c[b]
    /\ Sum(c, 1 .. n) \in Int

\* Two sums that differ in two summands.
LEMMA SumTwo ==
    ASSUME NEW n \in Nat, NEW c \in [1 .. n -> Int], NEW d \in [1 .. n -> Int],
           NEW a \in 1 .. n, NEW b \in 1 .. n, a # b,
           \A u \in 1 .. n : u # a /\ u # b => d[u] = c[u]
    PROVE  DifferAt(c, d, n, a, b)
  <1> DEFINE x == [c EXCEPT ![a] = d[a]]
  <1>1. /\ \A u \in 1 .. n : x[u] \in Int /\ c[u] \in Int /\ d[u] \in Int
        /\ x[a] = d[a] /\ x[b] = c[b]
        /\ \A u \in (1 .. n) \ {a} : c[u] = x[u]
        /\ \A u \in (1 .. n) \ {b} : x[u] = d[u]
    OBVIOUS
  <1> HIDE DEF x
  <1>2. IsFiniteSet(1 .. n)
    BY FS_Interval
  <1> DEFINE V == 1 .. n
  <1>6. /\ \A u \in V : c[u] \in Int /\ x[u] \in Int
        /\ \A u \in V : x[u] \in Int /\ d[u] \in Int
        /\ a \in V /\ b \in V /\ IsFiniteSet(V)
        /\ \A u \in V \ {a} : c[u] = x[u]
        /\ \A u \in V \ {b} : x[u] = d[u]
    BY <1>1, <1>2, Zenon
  <1> HIDE DEF V
  <1>7. Sum(x, V) \in Int /\ Sum(c, V) \in Int /\ Sum(d, V) \in Int
    BY <1>6, SumInt, Zenon
  <1>8. Differs(c, x, V, a) /\ Differs(x, d, V, b)
    BY <1>6, SumDiffers, Zenon
  <1>3. Sum(x, V) = Sum(c, V) + x[a] - c[a] /\ Sum(d, V) = Sum(x, V) + d[b] - x[b]
    BY <1>8 DEF Differs
  <1>5. Sum(c, 1 .. n) \in Int /\ c[a] \in Int /\ d[a] \in Int /\ c[b] \in Int /\ d[b] \in Int
    BY <1>1, <1>2, SumInt
  <1> QED
    BY <1>1, <1>3, <1>5 DEF V, DifferAt

\* Deleting an edge takes its weight from one row and none from the others.
Lighter(vs, v, i, ws) ==
    /\ RowSum(ws[v]) = RowSum(vs[v]) - vs[v][i].w
    /\ \A u \in 1 .. Len(vs) : u # v =>
          /\ RowSum(ws[u]) = RowSum(vs[u])
          /\ \A j \in 1 .. Len(vs[u]) : ws[u][j].to = vs[u][j].to /\ ws[u][j].w = vs[u][j].w

\* The weights of the rows when an edge is deleted from one.
LEMMA WithoutSums ==
    ASSUME NEW vs \in Adj, NEW v \in 1 .. Len(vs), NEW i \in 1 .. Len(vs[v]),
           NEW ws, IsWithout(vs, v, i, ws)
    PROVE  Lighter(vs, v, i, ws)
  <1> DEFINE L == Len(vs[v])
             moved == vs[v][L]
             Tell(u, j) == i # L /\ u = moved.to /\ j = moved.rev
  <1>1. /\ ws \in Adj /\ Len(ws) = Len(vs) /\ Len(ws[v]) = L - 1
        /\ \A u \in 1 .. Len(vs) : u # v => Len(ws[u]) = Len(vs[u])
        /\ \A j \in 1 .. L - 1 : ws[v][j] = IF j = i THEN moved ELSE vs[v][j]
        /\ \A u \in 1 .. Len(vs) : u # v => \A j \in 1 .. Len(vs[u]) :
              ws[u][j] = IF Tell(u, j) THEN WithRev(vs[u][j], i) ELSE vs[u][j]
    BY DEF IsWithout
  <1> HIDE DEF Tell
  <1>2. \A u \in 1 .. Len(vs) : vs[u] \in Row /\ ws[u] \in Row
    BY <1>1, RowFacts
  <1>3. RowSum(ws[v]) = RowSum(vs[v]) - vs[v][i].w
    <2> DEFINE s == vs[v]
               t == ws[v]
    <2>1. s \in Row /\ t \in Row /\ Len(t) = Len(s) - 1 /\ i \in 1 .. Len(s)
      BY <1>1, <1>2
    <2>2. \A j \in 1 .. Len(s) - 1 : t[j].w = IF j = i THEN s[Len(s)].w ELSE s[j].w
      BY <1>1
    <2> HIDE DEF s, t
    <2>3. Loses(s, t, i)
      BY <2>1, <2>2, RowSumFilled, Zenon
    <2> QED
      BY <2>3 DEF Loses, s, t
  <1>4. ASSUME NEW u \in 1 .. Len(vs), u # v
        PROVE  /\ RowSum(ws[u]) = RowSum(vs[u])
               /\ \A j \in 1 .. Len(vs[u]) : ws[u][j].to = vs[u][j].to /\ ws[u][j].w = vs[u][j].w
    <2>1. ASSUME NEW j \in 1 .. Len(vs[u])
          PROVE  ws[u][j].to = vs[u][j].to /\ ws[u][j].w = vs[u][j].w
      <3>1. vs[u][j] \in Edge /\ i \in Nat
        BY RowFacts
      <3>2. WithRev(vs[u][j], i).to = vs[u][j].to /\ WithRev(vs[u][j], i).w = vs[u][j].w
        BY <3>1, RevFacts, Zenon
      <3>3. ws[u][j] = IF Tell(u, j) THEN WithRev(vs[u][j], i) ELSE vs[u][j]
        BY <1>1, <1>4, Zenon
      <3> QED
        BY <3>2, <3>3
    <2>2. Len(vs[u]) = Len(ws[u]) /\ \A j \in 1 .. Len(vs[u]) : vs[u][j].w = ws[u][j].w
      BY <1>1, <1>4, <2>1
    <2>3. RowSum(ws[u]) = RowSum(vs[u])
      BY <1>2, <2>2, RowSumSame, Zenon
    <2> QED
      BY <2>1, <2>3, Zenon
  <1> QED
    BY <1>3, <1>4 DEF Lighter

-----------------------------------------------------------------------------
(* Objects while one of their methods runs.                                  *)

\* A has the live edges and c the number of edges of each vertex that num_edges still
\* counts; m is ahead of them by ahead.  The vertices in D are being removed, those in
\* X have edges that are not live.
Live(G, A, c, D, X, ahead) ==
    /\ G \in Objects
    /\ Paired(G.vs, A)
    /\ Len(G.deg) = Len(G.vs)
    /\ c \in [1 .. Len(G.vs) -> Int]
    /\ G.m = Sum(c, 1 .. Len(G.vs)) + ahead
    /\ \A u \in 1 .. Len(G.vs) : u \notin X => A[u] = 1 .. Len(G.vs[u])
    /\ \A u \in 1 .. Len(G.vs) : u \notin D => c[u] = Len(G.vs[u]) /\ G.deg[u] = RowSum(G.vs[u])

SameNames(G, H) ==
    H.cont = G.cont /\ H.pos = G.pos /\ H.last = G.last /\ Len(H.vs) = Len(G.vs)

\* The types of the fields of an object.
LEMMA ObjectFacts ==
    ASSUME NEW G \in Objects
    PROVE  /\ G.vs \in Adj /\ Len(G.vs) \in Nat /\ DOMAIN G.vs = 1 .. Len(G.vs)
           /\ G.deg \in Seq(Int) /\ G.m \in Int /\ G.last \in Int
           /\ G.cont \in Seq(SUBSET Nat) /\ G.pos \in Seq(Nat)
           /\ DOMAIN G.deg = 1 .. Len(G.deg) /\ DOMAIN G.cont = 1 .. Len(G.cont)
           /\ DOMAIN G.pos = 1 .. Len(G.pos)
  BY LenProperties DEF Objects, Adj

Spent(deg, t, w) == [deg EXCEPT ![t] = @ - w]
IsSpent(deg, t, w, new) ==
    /\ new \in Seq(Int) /\ Len(new) = Len(deg) /\ new[t] = deg[t] - w
    /\ \A u \in 1 .. Len(deg) : u # t => new[u] = deg[u]

\* A degree loses the weight of an edge.
LEMMA SpentFacts ==
    ASSUME NEW deg \in Seq(Int), NEW t \in 1 .. Len(deg), NEW w \in Int
    PROVE  IsSpent(deg, t, w, Spent(deg, t, w))
  <1> DEFINE x == deg[t] - w
  <1>1. x \in Int
    BY ElementOfSeq
  <1>2. Spent(deg, t, w) = [deg EXCEPT ![t] = x]
    BY DEF Spent
  <1> HIDE DEF x
  <1> QED
    BY <1>1, <1>2, ExceptSeq DEF x, IsSpent

Put(G, vs, deg, m) == [G EXCEPT !.vs = vs, !.deg = deg, !.m = m]
IsPut(G, vs, deg, m, H) ==
    /\ H \in Objects /\ H.vs = vs /\ H.deg = deg /\ H.m = m
    /\ H.cont = G.cont /\ H.pos = G.pos /\ H.last = G.last

\* An object with other arrays, degrees and number of edges.
LEMMA PutFacts ==
    ASSUME NEW G \in Objects, NEW vs \in Adj, NEW deg \in Seq(Int), NEW m \in Int
    PROVE  IsPut(G, vs, deg, m, Put(G, vs, deg, m))
  BY Zenon DEF Put, IsPut, Objects

EdgeGone(G, t, r, w) ==
    [InternalDeleteEdge(G, t, r) EXCEPT !.m = @ - 2, !.deg[t] = @ - w]

EdgeSpent(G, t, r, w) == Put(G, WithoutEdge(G.vs, t, r), Spent(G.deg, t, w), G.m - 2)

\* Deleting an edge with its weight and its count, written field by field.
LEMMA EdgeSpentIs ==
    ASSUME NEW G \in Objects, NEW t \in 1 .. Len(G.vs), NEW r \in 1 .. Len(G.vs[t]), NEW w
    PROVE  EdgeGone(G, t, r, w) = EdgeSpent(G, t, r, w)
  <1>1. InternalDeleteEdge(G, t, r) = [G EXCEPT !.vs = WithoutEdge(G.vs, t, r)]
    BY InternalDeleteEdgeIs
  <1> QED
    BY <1>1, Zenon DEF EdgeGone, EdgeSpent, Put, Spent, Objects

\* One edge of a vertex that is deleted is removed from the other end.
Unlinked(G, A, c, v, i, H, B, d) ==
    /\ Live(H, B, d, {v}, {v}, 0) /\ SameNames(G, H)
    /\ B[v] = A[v] \ {i} /\ d[v] = c[v] - 1

\* A pass of deleteVertex: the other copy of an edge of v is deleted.
LEMMA UnlinkStep ==
    ASSUME NEW G, NEW A, NEW c, NEW v, Live(G, A, c, {v}, {v}, 0), v \in 1 .. Len(G.vs),
           NEW i \in A[v], NEW H, H = UnlinkPass(G, v, i)
    PROVE  \E B, d : Unlinked(G, A, c, v, i, H, B, d)
  <1> DEFINE vs == G.vs
             n == Len(vs)
             t == vs[v][i].to
             r == vs[v][i].rev
             w == vs[v][i].w
             K == KilledSet(vs, A, v, i)
             ws == WithoutEdge(vs, t, r)
             B == [K EXCEPT ![t] = 1 .. Len(vs[t]) - 1]
             d == [u \in 1 .. n |-> IF u = v \/ u = t THEN c[u] - 1 ELSE c[u]]
             deg == Spent(G.deg, t, w)
  <1>1. /\ G \in Objects /\ vs \in Adj /\ n \in Nat /\ v \in 1 .. n /\ Paired(vs, A)
        /\ Len(G.deg) = n /\ c \in [1 .. n -> Int] /\ G.m = Sum(c, 1 .. n) + 0
        /\ G.deg \in Seq(Int) /\ G.m \in Int
        /\ \A u \in 1 .. n : u # v => A[u] = 1 .. Len(vs[u])
        /\ \A u \in 1 .. n : u # v => c[u] = Len(vs[u]) /\ G.deg[u] = RowSum(vs[u])
    BY ObjectFacts DEF Live
  <1> HIDE DEF vs
  <1>2. Mated(vs, A, v, i, t, r)
    BY <1>1, MateFacts
  <1>3. /\ t \in 1 .. n /\ t # v /\ r \in 1 .. Len(vs[t]) /\ w \in Int
        /\ vs[t][r].w = w
    BY <1>1, <1>2, Zenon DEF Mated, Edge
  <1>4. H = Put(G, ws, deg, G.m - 2)
    <2>1. H = EdgeGone(G, t, r, w)
      BY DEF UnlinkPass, vs, EdgeGone
    <2>2. t \in 1 .. Len(G.vs) /\ r \in 1 .. Len(G.vs[t])
      BY <1>3 DEF vs
    <2> HIDE DEF t, r, w, ws, deg
    <2>3. H = EdgeSpent(G, t, r, w)
      BY <1>1, <2>1, <2>2, EdgeSpentIs, Zenon
    <2> QED
      BY <2>3 DEF EdgeSpent, ws, deg, vs
  <1>5. Killed(vs, A, v, i, K)
    BY <1>1, KilledExists
  <1> HIDE DEF t, r, w, ws, deg
  <1>18. Paired(vs, K)
    BY <1>1, <1>5, KilledPaired
  <1>6. Paired(vs, K) /\ K[v] = A[v] \ {i} /\ K[t] = (1 .. Len(vs[t])) \ {r}
        /\ K \in [1 .. n -> SUBSET Nat] /\ \A u \in 1 .. n : u # v /\ u # t => K[u] = A[u]
    BY <1>1, <1>3, <1>5, <1>18, Zenon DEF Killed, t, r
  <1> HIDE DEF K
  <1>7. IsWithout(vs, t, r, ws) /\ Paired(ws, B)
    BY <1>1, <1>3, <1>6, WithoutKeeps, Zenon DEF ws
  <1>8. Lighter(vs, t, r, ws)
    BY <1>1, <1>3, <1>7, WithoutSums
  <1>9. /\ ws \in Adj /\ Len(ws) = n /\ Len(ws[t]) = Len(vs[t]) - 1
        /\ \A u \in 1 .. n : u # t => Len(ws[u]) = Len(vs[u])
    BY <1>7 DEF IsWithout
  <1>10. /\ deg \in Seq(Int) /\ Len(deg) = n /\ deg[t] = G.deg[t] - w
         /\ \A u \in 1 .. n : u # t => deg[u] = G.deg[u]
    <2>1. IsSpent(G.deg, t, w, deg)
      BY <1>1, <1>3, SpentFacts, Zenon DEF deg
    <2> QED
      BY <1>1, <2>1 DEF IsSpent
  <1>11. /\ H \in Objects /\ H.vs = ws /\ H.deg = deg /\ H.m = G.m - 2
         /\ H.cont = G.cont /\ H.pos = G.pos /\ H.last = G.last
    <2>1. G.m - 2 \in Int
      BY <1>1
    <2>2. IsPut(G, ws, deg, G.m - 2, H)
      BY <1>1, <1>4, <1>9, <1>10, <2>1, PutFacts
    <2> QED
      BY <2>2 DEF IsPut
  <1>12. /\ B[v] = A[v] \ {i} /\ B[t] = 1 .. Len(vs[t]) - 1
         /\ \A u \in 1 .. n : u # v /\ u # t => B[u] = A[u]
    BY <1>1, <1>3, <1>6, Zenon
  <1> HIDE DEF B
  <1>13. /\ d \in [1 .. n -> Int] /\ d[v] = c[v] - 1 /\ d[t] = c[t] - 1
         /\ \A u \in 1 .. n : u # v /\ u # t => d[u] = c[u]
    BY <1>1, <1>3
  <1> HIDE DEF d
  <1>14. H.m = Sum(d, 1 .. n) + 0
    <2>1. DifferAt(c, d, n, v, t)
      BY <1>1, <1>3, <1>13, SumTwo, Zenon
    <2>2. c[v] \in Int /\ c[t] \in Int
      BY <1>1, <1>3
    <2> QED
      BY <1>1, <1>11, <1>13, <2>1, <2>2 DEF DifferAt
  <1>15. ASSUME NEW u \in 1 .. n, u # v
         PROVE  B[u] = 1 .. Len(ws[u]) /\ d[u] = Len(ws[u]) /\ deg[u] = RowSum(ws[u])
    <2>1. CASE u = t
      <3>1. RowSum(ws[t]) = RowSum(vs[t]) - w
        BY <1>3, <1>8 DEF Lighter
      <3> QED
        BY <1>1, <1>3, <1>9, <1>10, <1>12, <1>13, <2>1, <3>1, Zenon
    <2>2. CASE u # t
      <3>1. RowSum(ws[u]) = RowSum(vs[u])
        BY <1>8, <2>2 DEF Lighter, n
      <3> QED
        BY <1>1, <1>9, <1>10, <1>12, <1>13, <1>15, <2>2, <3>1, Zenon
    <2> QED
      BY <2>1, <2>2
  <1>16. Live(H, B, d, {v}, {v}, 0)
    BY <1>7, <1>9, <1>10, <1>11, <1>13, <1>14, <1>15, Zenon DEF Live
  <1>17. SameNames(G, H)
    BY <1>9, <1>11 DEF SameNames, n, vs
  <1> QED
    BY <1>12, <1>13, <1>16, <1>17 DEF Unlinked

-----------------------------------------------------------------------------
(* Changing weights and appending edges.                                     *)

WithWeight(e, w) == [e EXCEPT !.w = w]

\* An edge with another weight.
LEMMA WithWeightFacts ==
    ASSUME NEW e \in Edge, NEW w \in Int
    PROVE  /\ WithWeight(e, w) \in Edge /\ WithWeight(e, w).to = e.to /\ WithWeight(e, w).w = w
           /\ WithWeight(e, w).rev = e.rev
  BY DEF WithWeight, Edge

Weighed(vs, a, b, w) == PutEdge(vs, a, b, WithWeight(vs[a][b], w))
IsWeighed(vs, v, i, t, s, w, ws) ==
    /\ ws \in Adj /\ Len(ws) = Len(vs)
    /\ \A u \in 1 .. Len(vs) : Len(ws[u]) = Len(vs[u])
    /\ \A u \in 1 .. Len(vs) : \A j \in 1 .. Len(vs[u]) :
          /\ ws[u][j].to = vs[u][j].to /\ ws[u][j].rev = vs[u][j].rev
          /\ ws[u][j].w = IF (u = v /\ j = i) \/ (u = t /\ j = s) THEN w ELSE vs[u][j].w

\* Both copies of an edge are given the weight w.
LEMMA WeighedFacts ==
    ASSUME NEW vs \in Adj, NEW v \in 1 .. Len(vs), NEW i \in 1 .. Len(vs[v]),
           NEW t \in 1 .. Len(vs), NEW s \in 1 .. Len(vs[t]), v # t, NEW w \in Int
    PROVE  IsWeighed(vs, v, i, t, s, w, Weighed(Weighed(vs, v, i, w), t, s, w))
  <1> DEFINE x == Weighed(vs, v, i, w)
             y == Weighed(x, t, s, w)
             e == WithWeight(vs[v][i], w)
             f == WithWeight(x[t][s], w)
  <1>1. e \in Edge /\ e.to = vs[v][i].to /\ e.rev = vs[v][i].rev /\ e.w = w
    BY RowFacts, WithWeightFacts, Zenon
  <1>2. x = PutEdge(vs, v, i, e) /\ y = PutEdge(x, t, s, f)
    BY DEF Weighed
  <1> HIDE DEF e, x
  <1>3. IsPutEdge(vs, v, i, e, x)
    BY <1>1, <1>2, EdgeChanged, Zenon
  <1>4. /\ x \in Adj /\ Len(x) = Len(vs)
        /\ \A u \in 1 .. Len(vs) : Len(x[u]) = Len(vs[u])
        /\ \A u \in 1 .. Len(vs) : u # v => x[u] = vs[u]
        /\ x[v][i] = e /\ \A j \in 1 .. Len(vs[v]) : j # i => x[v][j] = vs[v][j]
    BY <1>3 DEF IsPutEdge
  <1>5. x[t] = vs[t] /\ t \in 1 .. Len(x) /\ s \in 1 .. Len(x[t])
    BY <1>4
  <1>6. f \in Edge /\ f.to = vs[t][s].to /\ f.rev = vs[t][s].rev /\ f.w = w
    <2> DEFINE h == vs[t][s]
    <2>1. h \in Edge /\ f = WithWeight(h, w)
      BY <1>5, RowFacts
    <2> HIDE DEF h, f
    <2>2. f \in Edge /\ f.to = h.to /\ f.rev = h.rev /\ f.w = w
      BY <2>1, Zenon DEF WithWeight, Edge
    <2> QED
      BY <2>2 DEF h
  <1> HIDE DEF f, y
  <1>7. IsPutEdge(x, t, s, f, y)
    BY <1>2, <1>4, <1>5, <1>6, EdgeChanged
  <1>8. /\ y \in Adj /\ Len(y) = Len(x)
        /\ \A u \in 1 .. Len(x) : Len(y[u]) = Len(x[u])
        /\ \A u \in 1 .. Len(x) : u # t => y[u] = x[u]
        /\ y[t][s] = f /\ \A j \in 1 .. Len(x[t]) : j # s => y[t][j] = x[t][j]
    BY <1>7 DEF IsPutEdge
  <1>9. ASSUME NEW u \in 1 .. Len(vs), NEW j \in 1 .. Len(vs[u])
        PROVE  /\ y[u][j].to = vs[u][j].to /\ y[u][j].rev = vs[u][j].rev
               /\ y[u][j].w = IF (u = v /\ j = i) \/ (u = t /\ j = s) THEN w ELSE vs[u][j].w
    <2>1. CASE u = t
      BY <1>4, <1>5, <1>6, <1>8, <2>1, Zenon
    <2>2. CASE u # t
      <3>1. y[u] = x[u]
        BY <1>4, <1>8, <2>2
      <3> QED
        BY <1>1, <1>4, <2>2, <3>1, Zenon
    <2> QED
      BY <2>1, <2>2
  <1>10. \A u \in 1 .. Len(vs) : Len(y[u]) = Len(vs[u])
    BY <1>4, <1>8
  <1> QED
    BY <1>4, <1>8, <1>9, <1>10 DEF IsWeighed, x, y

\* What a change of weight makes of the sums.
Heavier(vs, v, i, t, s, w, ws) ==
    /\ RowSum(ws[v]) = RowSum(vs[v]) + w - vs[v][i].w
    /\ RowSum(ws[t]) = RowSum(vs[t]) + w - vs[t][s].w
    /\ \A u \in 1 .. Len(vs) : u # v /\ u # t => RowSum(ws[u]) = RowSum(vs[u])

\* The weights of two rows when both copies of an edge get the weight w.
LEMMA WeighedSums ==
    ASSUME NEW vs \in Adj, NEW v \in 1 .. Len(vs), NEW i \in 1 .. Len(vs[v]),
           NEW t \in 1 .. Len(vs), NEW s \in 1 .. Len(vs[t]), v # t, NEW w \in Int,
           NEW ws, IsWeighed(vs, v, i, t, s, w, ws)
    PROVE  Heavier(vs, v, i, t, s, w, ws)
  <1>1. /\ ws \in Adj /\ Len(ws) = Len(vs)
        /\ \A u \in 1 .. Len(vs) : Len(ws[u]) = Len(vs[u])
        /\ \A u \in 1 .. Len(vs) : \A j \in 1 .. Len(vs[u]) :
              ws[u][j].w = IF (u = v /\ j = i) \/ (u = t /\ j = s) THEN w ELSE vs[u][j].w
    BY Zenon DEF IsWeighed
  <1>2. \A u \in 1 .. Len(vs) : vs[u] \in Row /\ ws[u] \in Row
    BY <1>1, RowFacts, Zenon
  <1>3. Changes(vs[v], ws[v], i) /\ ws[v][i].w = w
    BY <1>1, <1>2, RowSumChanged, Zenon
  <1>4. Changes(vs[t], ws[t], s) /\ ws[t][s].w = w
    BY <1>1, <1>2, RowSumChanged, Zenon
  <1>5. ASSUME NEW u \in 1 .. Len(vs), u # v, u # t
        PROVE  RowSum(ws[u]) = RowSum(vs[u])
    BY <1>1, <1>2, <1>5, RowSumSame, Zenon
  <1> QED
    BY <1>3, <1>4, <1>5, Zenon DEF Changes, Heavier

\* Giving both copies of an edge one weight keeps the pairs.
LEMMA WeighedPaired ==
    ASSUME NEW vs \in Adj, NEW A, Paired(vs, A), NEW v \in 1 .. Len(vs), NEW i \in A[v],
           NEW t, t = vs[v][i].to, NEW s, s = vs[v][i].rev, NEW w \in Int,
           NEW ws, IsWeighed(vs, v, i, t, s, w, ws)
    PROVE  Paired(ws, A)
  <1>1. /\ ws \in Adj /\ Len(ws) = Len(vs)
        /\ \A u \in 1 .. Len(vs) : Len(ws[u]) = Len(vs[u])
        /\ \A u \in 1 .. Len(vs) : \A j \in 1 .. Len(vs[u]) :
              /\ ws[u][j].to = vs[u][j].to /\ ws[u][j].rev = vs[u][j].rev
              /\ ws[u][j].w = IF (u = v /\ j = i) \/ (u = t /\ j = s) THEN w ELSE vs[u][j].w
    BY DEF IsWeighed
  <1>2. \A u \in 1 .. Len(vs) : A[u] \subseteq 1 .. Len(ws[u])
    BY <1>1 DEF Paired
  <1>3. ASSUME NEW u \in 1 .. Len(vs), NEW j \in A[u]
        PROVE  /\ ws[u][j].to = vs[u][j].to /\ ws[u][j].rev = vs[u][j].rev
               /\ ws[vs[u][j].to][vs[u][j].rev].w = ws[u][j].w
    <2> DEFINE a == vs[u][j].to
               b == vs[u][j].rev
    <2>1. Mated(vs, A, u, j, a, b) /\ Mated(vs, A, v, i, t, s)
      BY MateFacts
    <2> HIDE DEF a, b
    <2>2. /\ j \in 1 .. Len(vs[u]) /\ a \in 1 .. Len(vs) /\ b \in 1 .. Len(vs[a])
          /\ vs[a][b].to = u /\ vs[a][b].rev = j /\ vs[a][b].w = vs[u][j].w
      BY <2>1 DEF Mated
    <2>3. vs[t][s].to = v /\ vs[t][s].rev = i
      BY <2>1 DEF Mated
    <2>4. (u = v /\ j = i) \/ (u = t /\ j = s) <=> (a = v /\ b = i) \/ (a = t /\ b = s)
      BY <2>2, <2>3, Zenon DEF a, b
    <2>5. ws[a][b].w = ws[u][j].w
      <3>1. ws[u][j].w = IF (u = v /\ j = i) \/ (u = t /\ j = s) THEN w ELSE vs[u][j].w
        BY <1>1, <2>2, Zenon
      <3>2. ws[a][b].w = IF (a = v /\ b = i) \/ (a = t /\ b = s) THEN w ELSE vs[a][b].w
        BY <1>1, <2>2, Zenon
      <3> QED
        BY <2>2, <2>4, <3>1, <3>2, Zenon
    <2> QED
      BY <1>1, <2>2, <2>5 DEF a, b
  <1> QED
    <2>1. Reweighs(vs, A, ws)
      BY <1>1, <1>2, <1>3 DEF Reweighs
    <2> QED
      BY <2>1, ReweighedPaired

\* An edge is appended to row v, and slot r of row t becomes its other copy.
Joined(vs, v, t, r, w, ws) ==
    LET k == Len(vs[v]) + 1
    IN  /\ ws \in Adj /\ Len(ws) = Len(vs) /\ Len(ws[v]) = k
        /\ \A u \in 1 .. Len(vs) : u # v => Len(ws[u]) = Len(vs[u])
        /\ \A j \in 1 .. Len(vs[v]) : ws[v][j] = vs[v][j]
        /\ ws[v][k].to = t /\ ws[v][k].w = w /\ ws[v][k].rev = r
        /\ ws[t][r].to = v /\ ws[t][r].w = w /\ ws[t][r].rev = k
        /\ \A u \in 1 .. Len(vs) : u # v => \A j \in 1 .. Len(vs[u]) :
              ~(u = t /\ j = r) => ws[u][j] = vs[u][j]

JoinedSums(vs, v, w, ws) ==
    /\ RowSum(ws[v]) = RowSum(vs[v]) + w
    /\ \A u \in 1 .. Len(vs) : u # v => RowSum(ws[u]) = RowSum(vs[u])

\* The weights of the rows when row v gets an edge.
LEMMA JoinedAddsUp ==
    ASSUME NEW vs \in Adj, NEW v \in 1 .. Len(vs), NEW t \in 1 .. Len(vs), v # t,
           NEW r \in 1 .. Len(vs[t]), NEW w \in Int, NEW ws, Joined(vs, v, t, r, w, ws),
           vs[t][r].w = w
    PROVE  JoinedSums(vs, v, w, ws)
  <1> DEFINE k == Len(vs[v]) + 1
  <1>1. /\ ws \in Adj /\ Len(ws) = Len(vs) /\ Len(ws[v]) = k
        /\ \A u \in 1 .. Len(vs) : u # v => Len(ws[u]) = Len(vs[u])
        /\ \A j \in 1 .. Len(vs[v]) : ws[v][j] = vs[v][j]
        /\ ws[v][k].w = w /\ ws[t][r].w = w
        /\ \A u \in 1 .. Len(vs) : u # v => \A j \in 1 .. Len(vs[u]) :
              ~(u = t /\ j = r) => ws[u][j] = vs[u][j]
    BY DEF Joined
  <1>2. \A u \in 1 .. Len(vs) : vs[u] \in Row /\ ws[u] \in Row
    BY <1>1, RowFacts, Zenon
  <1>3. Gains(vs[v], ws[v])
    BY <1>1, <1>2, RowSumAppend, Zenon
  <1>4. ASSUME NEW u \in 1 .. Len(vs), u # v
        PROVE  RowSum(ws[u]) = RowSum(vs[u])
    <2>1. \A j \in 1 .. Len(vs[u]) : vs[u][j].w = ws[u][j].w
      BY <1>1, <1>4, Zenon
    <2> QED
      BY <1>1, <1>2, <1>4, <2>1, RowSumSame, Zenon
  <1> QED
    BY <1>1, <1>3, <1>4 DEF Gains, JoinedSums

AddedSet(n, A, a, i, b, r) ==
    [u \in 1 .. n |-> IF u = a THEN A[u] \cup {i} ELSE IF u = b THEN A[u] \cup {r} ELSE A[u]]

\* The appended edge and the slot of t that points to it are a pair.
LEMMA JoinedPaired ==
    ASSUME NEW vs \in Adj, NEW A, Paired(vs, A), NEW v \in 1 .. Len(vs), NEW t \in 1 .. Len(vs),
           v # t, NEW r \in 1 .. Len(vs[t]), r \notin A[t], NEW w, NEW ws,
           Joined(vs, v, t, r, w, ws), \A j \in A[v] : vs[v][j].to # t,
           NEW k, k = Len(vs[v]) + 1, NEW B, B = AddedSet(Len(vs), A, v, k, t, r)
    PROVE  Paired(ws, B) /\ Added(Len(vs), A, v, k, t, r, B)
  <1>1. /\ ws \in Adj /\ Len(ws) = Len(vs) /\ Len(ws[v]) = k
        /\ \A u \in 1 .. Len(vs) : u # v => Len(ws[u]) = Len(vs[u])
        /\ \A j \in 1 .. Len(vs[v]) : ws[v][j] = vs[v][j]
        /\ ws[v][k].to = t /\ ws[v][k].w = w /\ ws[v][k].rev = r
        /\ ws[t][r].to = v /\ ws[t][r].w = w /\ ws[t][r].rev = k
        /\ \A u \in 1 .. Len(vs) : u # v => \A j \in 1 .. Len(vs[u]) :
              ~(u = t /\ j = r) => ws[u][j] = vs[u][j]
    BY DEF Joined
  <1>2. /\ A \in [1 .. Len(vs) -> SUBSET Nat]
        /\ \A u \in 1 .. Len(vs) : A[u] \subseteq 1 .. Len(vs[u])
    BY DEF Paired
  <1>3. k \in Nat /\ k \in 1 .. Len(ws[v]) /\ k \notin A[v] /\ r \in Nat /\ r \in 1 .. Len(ws[t])
    BY <1>1, <1>2, RowFacts
  <1>4. Added(Len(vs), A, v, k, t, r, B)
    BY <1>2, <1>3, Zenon DEF Added, AddedSet
  <1>5. ASSUME NEW u \in 1 .. Len(vs), NEW j \in A[u]
        PROVE  ws[u][j] = vs[u][j] /\ j \in 1 .. Len(ws[u])
    <2>1. j \in 1 .. Len(vs[u])
      BY <1>2
    <2>2. CASE u = v
      <3>1. j \in 1 .. k
        BY <1>3, <2>1, <2>2, RowFacts
      <3> QED
        BY <1>1, <2>1, <2>2, <3>1
    <2>3. CASE u # v
      BY <1>1, <2>1, <2>3, Zenon
    <2> QED
      BY <2>2, <2>3
  <1>6. Paired(ws, B)
    <2>1. Keeps(vs, A, ws)
      BY <1>5, Zenon DEF Keeps
    <2> QED
      BY <1>1, <1>3, <1>4, <2>1, AddedPaired, Zenon
  <1> QED
    BY <1>4, <1>6

\* Appending an edge to row v while the other copy is there.
Appended(vs, v, e) == PutRow(vs, v, Append(vs[v], e))
IsAppended(vs, v, e, ws) ==
    /\ ws \in Adj /\ Len(ws) = Len(vs) /\ Len(ws[v]) = Len(vs[v]) + 1
    /\ ws[v][Len(vs[v]) + 1] = e
    /\ \A j \in 1 .. Len(vs[v]) : ws[v][j] = vs[v][j]
    /\ \A u \in 1 .. Len(vs) : u # v => ws[u] = vs[u]

\* An edge is appended to row v.
LEMMA AppendedFacts ==
    ASSUME NEW vs \in Adj, NEW v \in 1 .. Len(vs), NEW e \in Edge
    PROVE  IsAppended(vs, v, e, Appended(vs, v, e))
  <1> DEFINE row == Append(vs[v], e)
             ws == PutRow(vs, v, row)
  <1>1. /\ row \in Row /\ Len(row) = Len(vs[v]) + 1 /\ row[Len(vs[v]) + 1] = e
        /\ \A j \in 1 .. Len(vs[v]) : row[j] = vs[v][j]
    BY RowFacts, AppendProperties DEF Row
  <1> HIDE DEF row, ws
  <1>2. IsPutRow(vs, v, row, ws)
    BY <1>1, RowChanged DEF ws
  <1>3. IsAppended(vs, v, e, ws)
    BY <1>1, <1>2 DEF IsPutRow, IsAppended
  <1> QED
    BY <1>3 DEF Appended, ws, row

\* The fields of a new edge.
LEMMA RevEdgeFacts ==
    ASSUME NEW t \in Nat, NEW w \in Int, NEW r \in Nat
    PROVE  /\ RevEdge(t, w, r) \in Edge
           /\ RevEdge(t, w, r).to = t /\ RevEdge(t, w, r).w = w /\ RevEdge(t, w, r).rev = r
  BY DEF RevEdge, Edge

TakenNew(vs, v, t, r, w) ==
    Appended(PutEdge(vs, t, r, RevEdge(v, w, Len(vs[v]) + 1)), v, RevEdge(t, w, r))

\* The edge a merged vertex brings is appended, and its other copy redirected.
LEMMA TakenNewJoins ==
    ASSUME NEW vs \in Adj, NEW v \in 1 .. Len(vs), NEW t \in 1 .. Len(vs), v # t,
           NEW r \in 1 .. Len(vs[t]), NEW w \in Int
    PROVE  Joined(vs, v, t, r, w, TakenNew(vs, v, t, r, w))
  <1> DEFINE k == Len(vs[v]) + 1
             e == RevEdge(v, w, k)
             f == RevEdge(t, w, r)
             x == PutEdge(vs, t, r, e)
             ws == TakenNew(vs, v, t, r, w)
  <1>1. k \in Nat /\ v \in Nat /\ t \in Nat /\ r \in Nat
    BY RowFacts
  <1> HIDE DEF k
  <1>2. /\ e \in Edge /\ e.to = v /\ e.w = w /\ e.rev = k
        /\ f \in Edge /\ f.to = t /\ f.w = w /\ f.rev = r
    <2>1. e \in Edge /\ e.to = v /\ e.w = w /\ e.rev = k
      BY <1>1 DEF RevEdge, Edge
    <2>2. f \in Edge /\ f.to = t /\ f.w = w /\ f.rev = r
      BY <1>1 DEF RevEdge, Edge
    <2> QED
      BY <2>1, <2>2
  <1>9. ws = Appended(x, v, f)
    BY DEF TakenNew, k
  <1> HIDE DEF e, f, x, ws
  <1>3. IsPutEdge(vs, t, r, e, x)
    BY <1>2, EdgeChanged DEF x
  <1>4. /\ x \in Adj /\ Len(x) = Len(vs)
        /\ \A u \in 1 .. Len(vs) : Len(x[u]) = Len(vs[u])
        /\ \A u \in 1 .. Len(vs) : u # t => x[u] = vs[u]
        /\ x[t][r] = e
        /\ \A j \in 1 .. Len(vs[t]) : j # r => x[t][j] = vs[t][j]
    BY <1>3 DEF IsPutEdge
  <1>5. IsAppended(x, v, f, ws)
    BY <1>2, <1>4, <1>9, AppendedFacts
  <1>6. /\ ws \in Adj /\ Len(ws) = Len(x) /\ Len(ws[v]) = Len(x[v]) + 1
        /\ ws[v][Len(x[v]) + 1] = f
        /\ \A j \in 1 .. Len(x[v]) : ws[v][j] = x[v][j]
        /\ \A u \in 1 .. Len(x) : u # v => ws[u] = x[u]
    BY <1>5 DEF IsAppended
  <1>7. x[v] = vs[v] /\ Len(x[v]) + 1 = k /\ ws[t] = x[t]
    BY <1>4, <1>6, Zenon DEF k
  <1>8. \A u \in 1 .. Len(vs) : u # v => \A j \in 1 .. Len(vs[u]) :
              ~(u = t /\ j = r) => ws[u][j] = vs[u][j]
    BY <1>4, <1>6, Zenon
  <1>10. \A u \in 1 .. Len(vs) : u # v => Len(ws[u]) = Len(vs[u])
    BY <1>4, <1>6, Zenon
  <1> QED
    BY <1>2, <1>4, <1>6, <1>7, <1>8, <1>10 DEF Joined, k, ws

TakenKept(vs, v, e) == Told(Appended(vs, v, e), e.to, e.rev, Len(vs[v]) + 1)

\* The edge first keeps is appended, and its other copy told the new index.
LEMMA TakenKeptJoins ==
    ASSUME NEW vs \in Adj, NEW v \in 1 .. Len(vs), NEW e \in Edge, e.to \in 1 .. Len(vs), v # e.to,
           e.rev \in 1 .. Len(vs[e.to]),
           vs[e.to][e.rev].to = v, vs[e.to][e.rev].w = e.w
    PROVE  Joined(vs, v, e.to, e.rev, e.w, TakenKept(vs, v, e))
  <1> DEFINE k == Len(vs[v]) + 1
             t == e.to
             r == e.rev
             x == Appended(vs, v, e)
             f == WithRev(x[t][r], k)
             ws == TakenKept(vs, v, e)
  <1>1. k \in Nat /\ t \in 1 .. Len(vs) /\ t # v /\ r \in 1 .. Len(vs[t])
    BY RowFacts
  <1>2. ws = PutEdge(x, t, r, f)
    BY DEF TakenKept, Told
  <1> HIDE DEF k, t, r, x, f, ws
  <1>3. IsAppended(vs, v, e, x)
    BY AppendedFacts DEF x
  <1>4. /\ x \in Adj /\ Len(x) = Len(vs) /\ Len(x[v]) = k /\ x[v][k] = e
        /\ \A j \in 1 .. Len(vs[v]) : x[v][j] = vs[v][j]
        /\ \A u \in 1 .. Len(vs) : u # v => x[u] = vs[u]
    BY <1>3 DEF IsAppended, k
  <1>5. x[t] = vs[t] /\ t \in 1 .. Len(x) /\ r \in 1 .. Len(x[t]) /\ x[t][r] \in Edge
    BY <1>1, <1>4, RowFacts, Zenon
  <1>6. f \in Edge /\ f.to = v /\ f.w = e.w /\ f.rev = k
    <2>1. x[t][r].to = v /\ x[t][r].w = e.w
      BY <1>5 DEF t, r
    <2> QED
      BY <1>1, <1>5, <2>1, RevFacts, Zenon DEF f
  <1>7. IsPutEdge(x, t, r, f, ws)
    BY <1>2, <1>4, <1>5, <1>6, EdgeChanged
  <1>8. /\ ws \in Adj /\ Len(ws) = Len(x)
        /\ \A u \in 1 .. Len(x) : Len(ws[u]) = Len(x[u])
        /\ \A u \in 1 .. Len(x) : u # t => ws[u] = x[u]
        /\ ws[t][r] = f
        /\ \A j \in 1 .. Len(x[t]) : j # r => ws[t][j] = x[t][j]
    BY <1>7 DEF IsPutEdge
  <1>9. ws[v] = x[v] /\ Len(ws[v]) = k
    BY <1>1, <1>4, <1>8
  <1>10. \A u \in 1 .. Len(vs) : u # v => Len(ws[u]) = Len(vs[u])
    BY <1>4, <1>8
  <1>11. \A u \in 1 .. Len(vs) : u # v => \A j \in 1 .. Len(vs[u]) :
              ~(u = t /\ j = r) => ws[u][j] = vs[u][j]
    BY <1>4, <1>8
  <1> QED
    BY <1>4, <1>6, <1>8, <1>9, <1>10, <1>11 DEF Joined, k, t, r, ws

-----------------------------------------------------------------------------
(* An edge of a vertex that is merged into v.                                *)

Earned(deg, t, w) == [deg EXCEPT ![t] = @ + w]
IsEarned(deg, t, w, new) ==
    /\ new \in Seq(Int) /\ Len(new) = Len(deg) /\ new[t] = deg[t] + w
    /\ \A u \in 1 .. Len(deg) : u # t => new[u] = deg[u]

\* A degree gains the weight of an edge.
LEMMA EarnedFacts ==
    ASSUME NEW deg \in Seq(Int), NEW t \in 1 .. Len(deg), NEW w \in Int
    PROVE  IsEarned(deg, t, w, Earned(deg, t, w))
  <1> DEFINE x == deg[t] + w
  <1>1. x \in Int
    BY ElementOfSeq
  <1>2. Earned(deg, t, w) = [deg EXCEPT ![t] = x]
    BY DEF Earned
  <1> HIDE DEF x
  <1> QED
    BY <1>1, <1>2, ExceptSeq DEF x, IsEarned

TakenEdge(G, v, t, r, w) == Put(G, TakenNew(G.vs, v, t, r, w), Earned(G.deg, v, w), G.m)

\* TakeEdge, when v has no edge to the same end, written field by field.
LEMMA TakenEdgeIs ==
    ASSUME NEW G \in Objects, NEW v \in 1 .. Len(G.vs), NEW f, f.to # v,
           G.vs[f.to][f.rev].w = f.w
    PROVE  TakeEdge(G, v, f, 0, 0) = TakenEdge(G, v, f.to, f.rev, f.w)
  <1> DEFINE P == PutEdge(G.vs, f.to, f.rev, RevEdge(v, f.w, Len(G.vs[v]) + 1))
             Q == [P EXCEPT ![v] = Append(P[v], RevEdge(f.to, f.w, f.rev))]
  <1>1. P[v] = G.vs[v]
    BY ObjectFacts DEF PutEdge, PutRow
  <1>2. TakeEdge(G, v, f, 0, 0) =
           [G EXCEPT !.vs = [P EXCEPT ![v] = Append(G.vs[v], RevEdge(f.to, f.w, f.rev))],
                     !.deg = Earned(G.deg, v, f.w)]
    BY Zenon DEF TakeEdge, Earned, PutEdge, PutRow
  <1>3. TakenNew(G.vs, v, f.to, f.rev, f.w) = Q
    BY DEF TakenNew, Appended, PutRow
  <1> HIDE DEF P
  <1> QED
    BY <1>1, <1>2, <1>3, Zenon DEF TakenEdge, Put, Objects

\* What the step leaves alone and what it takes from the merged vertex.
Took(G, A, c, v, gone, j, t, H, B, d) ==
    /\ SameNames(G, H)
    /\ \A u \in 1 .. Len(G.vs) : u # v /\ u # t =>
          /\ Len(H.vs[u]) = Len(G.vs[u])
          /\ \A k \in 1 .. Len(G.vs[u]) : H.vs[u][k].to = G.vs[u][k].to
    /\ \A u \in 1 .. Len(G.vs) : u # v /\ u # t /\ u # gone => B[u] = A[u] /\ d[u] = c[u]
    /\ B[gone] = A[gone] \ {j} /\ d[gone] = c[gone] - 1

TookNew(G, A, v, f, H, B) ==
    LET L == Len(G.vs[v])
    IN  /\ Len(H.vs[v]) = L + 1 /\ \A k \in 1 .. L : H.vs[v][k] = G.vs[v][k]
        /\ H.vs[v][L + 1].to = f.to /\ H.vs[v][L + 1].rev = f.rev
        /\ B[v] = A[v] \cup {L + 1}

\* An edge to a vertex that v has no edge to: v takes it over.
LEMMA TakeNewStep ==
    ASSUME NEW G, NEW A, NEW c, NEW D, NEW X, NEW ahead, Live(G, A, c, D, X, ahead), ahead \in Int,
           NEW v \in 1 .. Len(G.vs), v \notin D, NEW gone \in D, gone \in X, gone \in 1 .. Len(G.vs),
           NEW j \in A[gone], NEW f, f = G.vs[gone][j], f.to \notin X, f.to \notin D, f.to # v,
           \A k \in A[v] : G.vs[v][k].to # f.to,
           NEW H, H = TakeEdge(G, v, f, 0, 0)
    PROVE  \E B, d : /\ Live(H, B, d, D, X, ahead) /\ Took(G, A, c, v, gone, j, f.to, H, B, d)
                     /\ TookNew(G, A, v, f, H, B)
  <1> DEFINE vs == G.vs
             n == Len(vs)
             t == f.to
             r == f.rev
             w == f.w
             L == Len(vs[v])
             K == KilledSet(vs, A, gone, j)
             ws == TakenNew(vs, v, t, r, w)
             B == AddedSet(n, K, v, L + 1, t, r)
             d == [u \in 1 .. n |-> IF u = gone THEN c[u] - 1 ELSE IF u = v THEN c[u] + 1 ELSE c[u]]
             deg == Earned(G.deg, v, w)
  <1>1. /\ G \in Objects /\ vs \in Adj /\ n \in Nat /\ v \in 1 .. n /\ Paired(vs, A)
        /\ Len(G.deg) = n /\ c \in [1 .. n -> Int] /\ G.m = Sum(c, 1 .. n) + ahead
        /\ G.deg \in Seq(Int) /\ G.m \in Int /\ gone \in 1 .. n /\ f = vs[gone][j]
        /\ \A u \in 1 .. n : u \notin X => A[u] = 1 .. Len(vs[u])
        /\ \A u \in 1 .. n : u \notin D => c[u] = Len(vs[u]) /\ G.deg[u] = RowSum(vs[u])
        /\ gone # v /\ gone \in X
    BY ObjectFacts DEF Live
  <1>a. \A k \in A[v] : vs[v][k].to # t
    OBVIOUS
  <1>b. TakeEdge(G, v, f, 0, 0) = H /\ t \notin X /\ t \notin D /\ t # v
    OBVIOUS
  <1> HIDE DEF vs
  <1>2. Mated(vs, A, gone, j, vs[gone][j].to, vs[gone][j].rev)
    BY <1>1, MateFacts
  <1>c. Mated(vs, A, gone, j, t, r)
    BY <1>1, <1>2
  <1>3. /\ t \in 1 .. n /\ t # gone /\ r \in 1 .. Len(vs[t]) /\ r \in A[t] /\ w \in Int
        /\ vs[t][r].w = w /\ f \in Edge /\ r \in Nat
    BY <1>1, <1>c, Zenon DEF Mated, Edge
  <1> HIDE DEF t, r, w, ws, deg, K
  <1>4. H = Put(G, ws, deg, G.m)
    <2>1. G.vs[f.to][f.rev].w = f.w /\ f.to # v
      BY <1>3, <1>b DEF vs, t, r, w
    <2>2. v \in 1 .. Len(G.vs)
      BY <1>1 DEF vs
    <2>3. H = TakenEdge(G, v, f.to, f.rev, f.w)
      BY <1>1, <1>b, <2>1, <2>2, TakenEdgeIs, Zenon
    <2> QED
      BY <2>3 DEF TakenEdge, ws, deg, vs, t, r, w
  <1>5. Killed(vs, A, gone, j, K) /\ Paired(vs, K)
    <2>1. Killed(vs, A, gone, j, K)
      BY <1>1, KilledExists DEF K
    <2> QED
      BY <1>1, <2>1, KilledPaired, Zenon
  <1>6. /\ K[gone] = A[gone] \ {j} /\ K[t] = A[t] \ {r}
        /\ K \in [1 .. n -> SUBSET Nat] /\ \A u \in 1 .. n : u # gone /\ u # t => K[u] = A[u]
    <2>1. vs[gone][j].to = t /\ vs[gone][j].rev = r
      BY <1>1 DEF t, r
    <2> QED
      BY <1>5, <2>1 DEF Killed
  <1>7. Joined(vs, v, t, r, w, ws)
    BY <1>1, <1>3, <1>b, TakenNewJoins, Zenon DEF ws
  <1>8. JoinedSums(vs, v, w, ws)
    BY <1>1, <1>3, <1>7, <1>b, JoinedAddsUp
  <1>9. Paired(ws, B) /\ Added(n, K, v, L + 1, t, r, B)
    <2>1. r \notin K[t] /\ \A k \in K[v] : vs[v][k].to # t
      BY <1>1, <1>6, <1>a, <1>b, Zenon
    <2> QED
      BY <1>1, <1>3, <1>5, <1>7, <1>b, <2>1, JoinedPaired, Zenon
  <1> HIDE DEF B, d
  <1>10. /\ B[v] = A[v] \cup {L + 1} /\ B[t] = A[t] /\ B[gone] = A[gone] \ {j}
         /\ \A u \in 1 .. n : u # v /\ u # t /\ u # gone => B[u] = A[u]
    <2>1. B[v] = K[v] \cup {L + 1} /\ B[t] = K[t] \cup {r}
      BY <1>9 DEF Added
    <2>2. \A u \in 1 .. n : u # v /\ u # t => B[u] = K[u]
      BY <1>9 DEF Added
    <2>3. B[v] = A[v] \cup {L + 1}
      BY <1>1, <1>6, <1>b, <2>1
    <2>4. B[t] = A[t]
      BY <1>3, <1>6, <2>1
    <2>5. B[gone] = A[gone] \ {j}
      BY <1>1, <1>3, <1>6, <2>2, Zenon
    <2>6. \A u \in 1 .. n : u # v /\ u # t /\ u # gone => B[u] = A[u]
      BY <1>6, <2>2
    <2> QED
      BY <2>3, <2>4, <2>5, <2>6
  <1>11. /\ ws \in Adj /\ Len(ws) = n /\ Len(ws[v]) = L + 1
         /\ \A u \in 1 .. n : u # v => Len(ws[u]) = Len(vs[u])
         /\ \A k \in 1 .. L : ws[v][k] = vs[v][k]
         /\ ws[v][L + 1].to = t /\ ws[v][L + 1].rev = r
         /\ \A u \in 1 .. n : u # v /\ u # t => \A k \in 1 .. Len(vs[u]) : ws[u][k] = vs[u][k]
    BY <1>7 DEF Joined
  <1>12. /\ deg \in Seq(Int) /\ Len(deg) = n /\ deg[v] = G.deg[v] + w
         /\ \A u \in 1 .. n : u # v => deg[u] = G.deg[u]
    <2>1. IsEarned(G.deg, v, w, deg)
      BY <1>1, <1>3, EarnedFacts DEF deg
    <2> QED
      BY <1>1, <2>1, Zenon DEF IsEarned
  <1>13. /\ H \in Objects /\ H.vs = ws /\ H.deg = deg /\ H.m = G.m
         /\ H.cont = G.cont /\ H.pos = G.pos /\ H.last = G.last
    <2>1. IsPut(G, ws, deg, G.m, H)
      BY <1>1, <1>4, <1>11, <1>12, PutFacts
    <2> QED
      BY <2>1 DEF IsPut
  <1>14. /\ d \in [1 .. n -> Int] /\ d[gone] = c[gone] - 1 /\ d[v] = c[v] + 1
         /\ \A u \in 1 .. n : u # v /\ u # gone => d[u] = c[u]
    BY <1>1 DEF d
  <1>15. H.m = Sum(d, 1 .. n) + ahead
    <2>1. DifferAt(c, d, n, v, gone)
      BY <1>1, <1>14, SumTwo, Zenon
    <2>2. c[v] \in Int /\ c[gone] \in Int
      BY <1>1, Zenon
    <2> QED
      BY <1>1, <1>13, <1>14, <2>1, <2>2 DEF DifferAt
  <1>16. \A u \in 1 .. n : u \notin X => B[u] = 1 .. Len(ws[u])
    <2> SUFFICES ASSUME NEW u \in 1 .. n, u \notin X PROVE B[u] = 1 .. Len(ws[u])
      OBVIOUS
    <2>1. CASE u = v
      <3>1. L \in Nat /\ A[v] = 1 .. L
        BY <1>1, <2>1, RowFacts, Zenon
      <3>2. B[v] = A[v] \cup {L + 1} /\ Len(ws[v]) = L + 1
        BY <1>10, <1>11
      <3> HIDE DEF L
      <3>3. (1 .. L) \cup {L + 1} = 1 .. L + 1
        BY <3>1
      <3> QED
        BY <2>1, <3>1, <3>2, <3>3
    <2>2. CASE u # v
      <3>1. A[u] = 1 .. Len(vs[u]) /\ u # gone
        BY <1>1
      <3>2. B[u] = A[u]
        BY <1>10, <2>2, <3>1
      <3>3. Len(ws[u]) = Len(vs[u])
        BY <1>11, <2>2
      <3> QED
        BY <3>1, <3>2, <3>3
    <2> QED
      BY <2>1, <2>2
  <1>17. ASSUME NEW u \in 1 .. n, u \notin D
         PROVE  d[u] = Len(ws[u]) /\ deg[u] = RowSum(ws[u])
    <2>1. u # gone
      BY <1>17
    <2>2. CASE u = v
      <3>1. RowSum(ws[v]) = RowSum(vs[v]) + w
        BY <1>8 DEF JoinedSums
      <3> QED
        BY <1>1, <1>11, <1>12, <1>14, <1>17, <2>2, <3>1, Zenon
    <2>3. CASE u # v
      <3>1. RowSum(ws[u]) = RowSum(vs[u])
        BY <1>8, <2>3 DEF JoinedSums, n
      <3> QED
        BY <1>1, <1>11, <1>12, <1>14, <1>17, <2>1, <2>3, <3>1, Zenon
    <2> QED
      BY <2>2, <2>3
  <1>18. Live(H, B, d, D, X, ahead)
    BY <1>9, <1>11, <1>12, <1>13, <1>14, <1>15, <1>16, <1>17, Zenon DEF Live
  <1>19. Took(G, A, c, v, gone, j, t, H, B, d)
    <2>1. SameNames(G, H)
      BY <1>11, <1>13 DEF SameNames, n, vs
    <2>2. ASSUME NEW u \in 1 .. n, u # v, u # t
          PROVE  /\ Len(H.vs[u]) = Len(vs[u])
                 /\ \A k \in 1 .. Len(vs[u]) : H.vs[u][k].to = vs[u][k].to
      BY <1>11, <1>13, <2>2
    <2>3. \A u \in 1 .. n : u # v /\ u # t /\ u # gone => B[u] = A[u] /\ d[u] = c[u]
      BY <1>10, <1>14
    <2> QED
      BY <1>10, <1>14, <2>1, <2>2, <2>3 DEF Took, vs, n
  <1>20. TookNew(G, A, v, f, H, B)
    BY <1>10, <1>11, <1>13, Zenon DEF TookNew, L, vs, t, r
  <1> QED
    BY <1>18, <1>19, <1>20 DEF t

WeighedTwice(vs, v, i, t, q, x) == Weighed(Weighed(vs, v, i, x), t, q, x)
KnownEdge(G, v, i, t, q, r, w) ==
    Put(G, WithoutEdge(WeighedTwice(G.vs, v, i, t, q, G.vs[v][i].w + w), t, r),
        Earned(G.deg, v, w), G.m - 2)

IsKnown(G, v, f, i, q) ==
    /\ v \in 1 .. Len(G.vs) /\ i \in 1 .. Len(G.vs[v])
    /\ f \in Edge /\ f.to \in 1 .. Len(G.vs) /\ f.to # v
    /\ q \in 1 .. Len(G.vs[f.to]) /\ f.rev \in 1 .. Len(G.vs[f.to])
    /\ G.vs[f.to][q].w = G.vs[v][i].w

TakesKnown(G, v, f, i, q) == TakeEdge(G, v, f, i, q) = KnownEdge(G, v, i, f.to, q, f.rev, f.w)

\* TakeEdge, when v has an edge to the same end, written field by field.
LEMMA KnownEdgeIs ==
    ASSUME NEW G \in Objects, NEW v, NEW f, NEW i, NEW q, IsKnown(G, v, f, i, q)
    PROVE  TakesKnown(G, v, f, i, q)
  <1> DEFINE vs == G.vs
             t == f.to
             r == f.rev
             w == f.w
             x == vs[v][i].w + w
             xs == WeighedTwice(vs, v, i, t, q, x)
             I == [G EXCEPT !.vs = xs]
  <1>0. /\ v \in 1 .. Len(G.vs) /\ i \in 1 .. Len(G.vs[v])
        /\ f \in Edge /\ f.to \in 1 .. Len(G.vs) /\ f.to # v
        /\ q \in 1 .. Len(G.vs[f.to]) /\ f.rev \in 1 .. Len(G.vs[f.to])
        /\ G.vs[f.to][q].w = G.vs[v][i].w
    BY DEF IsKnown
  <1>1. i # 0 /\ vs \in Adj /\ x \in Int /\ w \in Int /\ vs[t][q].w + w = x
    <2>1. vs \in Adj
      BY ObjectFacts
    <2>2. vs[v][i] \in Edge /\ i # 0
      BY <1>0, <2>1, RowFacts
    <2>3. vs[v][i].w \in Int /\ w \in Int
      BY <1>0, <2>2 DEF Edge
    <2> QED
      BY <1>0, <2>1, <2>2, <2>3
  <1>2. [G EXCEPT !.vs[v][i].w = @ + f.w, !.vs[f.to][q].w = @ + f.w] = I
    <2>1. [G EXCEPT !.vs[v][i].w = x, !.vs[t][q].w = x] = I
      <3> HIDE DEF x, t
      <3>1. t # v
        BY <1>0 DEF t
      <3> QED
        BY <3>1, Zenon DEF Weighed, WeighedTwice, PutEdge, PutRow, WithWeight, Objects
    <2> QED
      BY <1>1, <2>1, Zenon
  <1>3. TakeEdge(G, v, f, i, q) =
           [InternalDeleteEdge(I, t, r) EXCEPT !.deg[v] = @ + w, !.m = @ - 2]
    BY <1>1, <1>2, Zenon DEF TakeEdge
  <1>4. IsWeighed(vs, v, i, t, q, x, xs)
    BY <1>0, <1>1, WeighedFacts, Zenon DEF WeighedTwice
  <1> HIDE DEF xs, x
  <1>5. xs \in Adj /\ Len(xs) = Len(vs) /\ Len(xs[t]) = Len(vs[t])
    BY <1>0, <1>4 DEF IsWeighed
  <1>6. I \in Objects /\ Untouched(G, I) /\ I.vs = xs
    BY <1>5, WithVs
  <1> HIDE DEF I
  <1>7. InternalDeleteEdge(I, t, r) = [I EXCEPT !.vs = WithoutEdge(xs, t, r)]
    <2>1. t \in 1 .. Len(I.vs) /\ r \in 1 .. Len(I.vs[t])
      BY <1>0, <1>5, <1>6
    <2> QED
      BY <1>6, <2>1, InternalDeleteEdgeIs
  <1>8. [InternalDeleteEdge(I, t, r) EXCEPT !.deg[v] = @ + w, !.m = @ - 2]
           = Put(G, WithoutEdge(xs, t, r), Earned(G.deg, v, w), G.m - 2)
    BY <1>7, Zenon DEF Put, Earned, Objects, I
  <1> QED
    BY <1>3, <1>8 DEF KnownEdge, TakesKnown, xs, x

\* The edge of v to t gains the weight; its other end may be moved.
TookKnown(G, A, v, i, q, f, H, B) ==
    LET L == Len(G.vs[v])
    IN  /\ Len(H.vs[v]) = L
        /\ \A k \in 1 .. L : H.vs[v][k].to = G.vs[v][k].to
        /\ \A k \in 1 .. L : k # i =>
              H.vs[v][k].rev = G.vs[v][k].rev /\ H.vs[v][k].w = G.vs[v][k].w
        /\ H.vs[v][i].rev = IF q = Len(G.vs[f.to]) THEN f.rev ELSE q
        /\ B[v] = A[v]

\* An edge to a vertex that v has an edge to: the weights are added up.
LEMMA TakeKnownStep ==
    ASSUME NEW G, NEW A, NEW c, NEW D, NEW X, NEW ahead, Live(G, A, c, D, X, ahead), ahead \in Int,
           NEW v \in 1 .. Len(G.vs), v \notin D,
           NEW gone \in D, gone \in X, gone \in 1 .. Len(G.vs),
           NEW j \in A[gone], NEW f, f = G.vs[gone][j], f.to \notin X, f.to \notin D, f.to # v,
           NEW i \in A[v], G.vs[v][i].to = f.to, NEW q, q = G.vs[v][i].rev,
           NEW H, H = TakeEdge(G, v, f, i, q)
    PROVE  \E B, d : /\ Live(H, B, d, D, X, ahead) /\ Took(G, A, c, v, gone, j, f.to, H, B, d)
                     /\ TookKnown(G, A, v, i, q, f, H, B)
  <1> DEFINE vs == G.vs
             n == Len(vs)
             t == f.to
             r == f.rev
             w == f.w
             L == Len(vs[v])
             Lt == Len(vs[t])
             x == vs[v][i].w + w
             xs == WeighedTwice(vs, v, i, t, q, x)
             K == KilledSet(vs, A, gone, j)
             ws == WithoutEdge(xs, t, r)
             B == [K EXCEPT ![t] = 1 .. Lt - 1]
             d == [u \in 1 .. n |-> IF u = gone \/ u = t THEN c[u] - 1 ELSE c[u]]
             deg == Earned(G.deg, v, w)
  <1>1. /\ G \in Objects /\ vs \in Adj /\ n \in Nat /\ v \in 1 .. n /\ Paired(vs, A)
        /\ Len(G.deg) = n /\ c \in [1 .. n -> Int] /\ G.m = Sum(c, 1 .. n) + ahead
        /\ G.deg \in Seq(Int) /\ G.m \in Int /\ gone \in 1 .. n /\ f = vs[gone][j]
        /\ \A u \in 1 .. n : u \notin X => A[u] = 1 .. Len(vs[u])
        /\ \A u \in 1 .. n : u \notin D => c[u] = Len(vs[u]) /\ G.deg[u] = RowSum(vs[u])
        /\ gone # v /\ gone \in X /\ gone \in D
    BY ObjectFacts, Zenon DEF Live
  <1>a. vs[v][i].to = t /\ vs[v][i].rev = q
    OBVIOUS
  <1>b. TakeEdge(G, v, f, i, q) = H /\ t \notin X /\ t \notin D /\ t # v
    OBVIOUS
  <1> HIDE DEF vs
  <1>2. Mated(vs, A, gone, j, vs[gone][j].to, vs[gone][j].rev)
        /\ Mated(vs, A, v, i, vs[v][i].to, vs[v][i].rev)
    BY <1>1, MateFacts
  <1>c. Mated(vs, A, gone, j, t, r) /\ Mated(vs, A, v, i, t, q)
    BY <1>1, <1>2, <1>a
  <1>3. /\ t \in 1 .. n /\ t # gone /\ r \in 1 .. Lt /\ r \in A[t] /\ w \in Int
        /\ vs[t][r].w = w /\ vs[t][r].to = gone /\ f \in Edge /\ r \in Nat
        /\ q \in 1 .. Lt /\ q \in A[t] /\ vs[t][q].w = vs[v][i].w
        /\ vs[t][q].to = v /\ vs[t][q].rev = i /\ q # r
        /\ i \in 1 .. L /\ vs[v][i].w \in Int /\ x \in Int
        /\ \A k \in A[v] : vs[v][k].to = t => k = i
    <2>1. /\ t \in 1 .. n /\ t # gone /\ r \in 1 .. Lt /\ r \in A[t] /\ vs[gone][j] \in Edge
          /\ vs[t][r].w = vs[gone][j].w /\ vs[t][r].to = gone /\ r \in Nat
      BY <1>c, Zenon DEF Mated
    <2>2. /\ q \in 1 .. Lt /\ q \in A[t] /\ vs[t][q].w = vs[v][i].w
          /\ vs[t][q].to = v /\ vs[t][q].rev = i /\ i \in 1 .. L /\ vs[v][i] \in Edge
          /\ \A k \in A[v] : vs[v][k].to = t => k = i
      BY <1>c, Zenon DEF Mated
    <2>3. f \in Edge /\ w \in Int /\ vs[v][i].w \in Int
      BY <1>1, <2>1, <2>2, Zenon DEF Edge
    <2>4. q # r
      BY <1>1, <2>1, <2>2, Zenon
    <2>6. x \in Int
      BY <2>3 DEF x
    <2>5. vs[t][r].w = w
      BY <1>1, <2>1 DEF w
    <2> QED
      BY <2>1, <2>2, <2>3, <2>4, <2>5, <2>6, Zenon
  <1> HIDE DEF t, r, w, ws, deg, K, x, xs
  <1>4. H = Put(G, ws, deg, G.m - 2)
    <2>1. /\ i \in 1 .. Len(G.vs[v]) /\ f.to \in 1 .. Len(G.vs) /\ f.to # v
          /\ q \in 1 .. Len(G.vs[f.to]) /\ f.rev \in 1 .. Len(G.vs[f.to])
          /\ G.vs[f.to][q].w = G.vs[v][i].w
      BY <1>3, <1>b, Zenon DEF vs, t, r, w, n
    <2>3. H = KnownEdge(G, v, i, f.to, q, f.rev, f.w)
      <3>1. v \in 1 .. Len(G.vs) /\ G \in Objects /\ f \in Edge
        BY <1>1, <1>3 DEF vs
      <3>2. IsKnown(G, v, f, i, q)
        BY <2>1, <3>1, Zenon DEF IsKnown
      <3>3. TakesKnown(G, v, f, i, q)
        BY <3>1, <3>2, KnownEdgeIs
      <3> QED
        BY <1>b, <3>3 DEF TakesKnown
    <2> QED
      BY <2>3 DEF KnownEdge, ws, deg, vs, t, r, w, xs, x
  <1>5. Killed(vs, A, gone, j, K) /\ Paired(vs, K)
    <2>1. Killed(vs, A, gone, j, K)
      BY <1>1, KilledExists DEF K
    <2> QED
      BY <1>1, <2>1, KilledPaired, Zenon
  <1>6. /\ K[gone] = A[gone] \ {j} /\ K[t] = A[t] \ {r} /\ K[t] = (1 .. Lt) \ {r}
        /\ K \in [1 .. n -> SUBSET Nat] /\ \A u \in 1 .. n : u # gone /\ u # t => K[u] = A[u]
        /\ K[v] = A[v]
    <2>1. vs[gone][j].to = t /\ vs[gone][j].rev = r
      BY <1>1 DEF t, r
    <2>2. /\ K[gone] = A[gone] \ {j} /\ K[t] = A[t] \ {r} /\ K \in [1 .. n -> SUBSET Nat]
          /\ \A u \in 1 .. n : u # gone /\ u # t => K[u] = A[u]
      BY <1>5, <2>1 DEF Killed
    <2>3. K[v] = A[v]
      BY <1>1, <1>b, <2>2
    <2>4. A[t] = 1 .. Lt
      BY <1>1, <1>3, <1>b
    <2> QED
      BY <2>2, <2>3, <2>4
  <1>7. IsWeighed(vs, v, i, t, q, x, xs) /\ Paired(xs, K) /\ Heavier(vs, v, i, t, q, x, xs)
    <2>1. IsWeighed(vs, v, i, t, q, x, xs)
      BY <1>1, <1>3, <1>b, WeighedFacts, Zenon DEF xs, WeighedTwice
    <2>2. i \in K[v]
      BY <1>6
    <2>3. Paired(xs, K)
      BY <1>1, <1>3, <1>5, <1>a, <2>1, <2>2, WeighedPaired, Zenon
    <2>4. Heavier(vs, v, i, t, q, x, xs)
      BY <1>1, <1>3, <1>b, <2>1, WeighedSums, Zenon
    <2> QED
      BY <2>1, <2>3, <2>4
  <1>8. /\ xs \in Adj /\ Len(xs) = n /\ \A u \in 1 .. n : Len(xs[u]) = Len(vs[u])
        /\ \A u \in 1 .. n : \A k \in 1 .. Len(vs[u]) :
              /\ xs[u][k].to = vs[u][k].to /\ xs[u][k].rev = vs[u][k].rev
              /\ xs[u][k].w = IF (u = v /\ k = i) \/ (u = t /\ k = q) THEN x ELSE vs[u][k].w
    BY <1>7 DEF IsWeighed
  <1>9. IsWithout(xs, t, r, ws) /\ Paired(ws, B)
    <2>1. t \in 1 .. Len(xs) /\ r \in 1 .. Len(xs[t]) /\ Len(xs[t]) = Lt
      BY <1>3, <1>8, Zenon
    <2>2. K[t] = (1 .. Len(xs[t])) \ {r} /\ B = [K EXCEPT ![t] = 1 .. Len(xs[t]) - 1]
      BY <1>6, <2>1
    <2> HIDE DEF B
    <2> QED
      BY <1>7, <1>8, <2>1, <2>2, WithoutKeeps, Zenon DEF ws
  <1>10. Lighter(xs, t, r, ws)
    <2>1. t \in 1 .. Len(xs) /\ r \in 1 .. Len(xs[t])
      BY <1>3, <1>8, Zenon
    <2> QED
      BY <1>8, <1>9, <2>1, WithoutSums, Zenon
  <1>11. /\ ws \in Adj /\ Len(ws) = n /\ Len(ws[t]) = Lt - 1
         /\ \A u \in 1 .. n : u # t => Len(ws[u]) = Len(vs[u])
    <2>1. /\ ws \in Adj /\ Len(ws) = Len(xs) /\ Len(ws[t]) = Len(xs[t]) - 1
          /\ \A u \in 1 .. Len(xs) : u # t => Len(ws[u]) = Len(xs[u])
      BY <1>9 DEF IsWithout
    <2>2. Len(xs) = n /\ Len(xs[t]) = Lt /\ \A u \in 1 .. n : Len(xs[u]) = Len(vs[u])
      BY <1>3, <1>8
    <2> QED
      BY <2>1, <2>2
  <1>12. /\ deg \in Seq(Int) /\ Len(deg) = n /\ deg[v] = G.deg[v] + w
         /\ \A u \in 1 .. n : u # v => deg[u] = G.deg[u]
    <2>1. IsEarned(G.deg, v, w, deg)
      BY <1>1, <1>3, EarnedFacts, Zenon DEF deg
    <2> QED
      BY <1>1, <2>1, Zenon DEF IsEarned
  <1>13. /\ H \in Objects /\ H.vs = ws /\ H.deg = deg /\ H.m = G.m - 2
         /\ H.cont = G.cont /\ H.pos = G.pos /\ H.last = G.last
    <2>1. G.m - 2 \in Int
      BY <1>1
    <2>2. IsPut(G, ws, deg, G.m - 2, H)
      BY <1>1, <1>4, <1>11, <1>12, <2>1, PutFacts
    <2> QED
      BY <2>2 DEF IsPut
  <1>14. /\ B[v] = A[v] /\ B[t] = 1 .. Lt - 1 /\ B[gone] = A[gone] \ {j}
         /\ \A u \in 1 .. n : u # gone /\ u # t => B[u] = A[u]
    BY <1>1, <1>3, <1>6, <1>b, Zenon
  <1> HIDE DEF B
  <1>15. /\ d \in [1 .. n -> Int] /\ d[gone] = c[gone] - 1 /\ d[t] = c[t] - 1
         /\ \A u \in 1 .. n : u # t /\ u # gone => d[u] = c[u]
    <2>1. \A u \in 1 .. n : c[u] \in Int
      BY <1>1, Zenon
    <2> HIDE DEF n
    <2>2. d \in [1 .. n -> Int]
      BY <2>1
    <2> QED
      BY <1>1, <1>3, <2>2, Zenon
  <1> HIDE DEF d
  <1>16. H.m = Sum(d, 1 .. n) + ahead
    <2>1. DifferAt(c, d, n, t, gone)
      BY <1>1, <1>3, <1>15, SumTwo, Zenon
    <2> DEFINE a == Sum(c, 1 .. n)
               b == Sum(d, 1 .. n)
               y == c[t]
               z == c[gone]
    <2>2. y \in Int /\ z \in Int /\ a \in Int /\ b = a + d[t] - y + d[gone] - z
      BY <1>1, <1>3, <2>1, Zenon DEF DifferAt
    <2>3. d[t] = y - 1 /\ d[gone] = z - 1 /\ H.m = G.m - 2 /\ G.m = a + ahead
      BY <1>1, <1>13, <1>15
    <2> HIDE DEF a, b, y, z
    <2>4. H.m = b + ahead
      BY <2>2, <2>3
    <2> QED
      BY <2>4 DEF b
  <1>17. ASSUME NEW u \in 1 .. n, u \notin X
         PROVE  B[u] = 1 .. Len(ws[u])
    <2>1. A[u] = 1 .. Len(vs[u]) /\ u # gone
      BY <1>1, <1>17
    <2>2. CASE u = t
      BY <1>11, <1>14, <2>2, Zenon
    <2>3. CASE u # t
      <3>1. B[u] = A[u] /\ Len(ws[u]) = Len(vs[u])
        BY <1>11, <1>14, <2>1, <2>3
      <3> QED
        BY <2>1, <3>1
    <2> QED
      BY <2>2, <2>3
  <1>18. ASSUME NEW u \in 1 .. n, u \notin D
         PROVE  d[u] = Len(ws[u]) /\ deg[u] = RowSum(ws[u])
    <2>1. u # gone /\ c[u] = Len(vs[u]) /\ G.deg[u] = RowSum(vs[u]) /\ RowSum(vs[u]) \in Int
      <3>1. vs[u] \in Row
        BY <1>1, RowFacts, Zenon
      <3> QED
        BY <1>1, <1>18, <3>1, WeightFacts
    <2>2. /\ RowSum(xs[v]) = RowSum(vs[v]) + x - vs[v][i].w
          /\ RowSum(xs[t]) = RowSum(vs[t]) + x - vs[t][q].w
          /\ u # v /\ u # t => RowSum(xs[u]) = RowSum(vs[u])
      BY <1>7 DEF Heavier, n
    <2>3. /\ RowSum(ws[t]) = RowSum(xs[t]) - xs[t][r].w
          /\ u # t => RowSum(ws[u]) = RowSum(xs[u])
      BY <1>8, <1>10 DEF Lighter
    <2>4. xs[t][r].w = w
      BY <1>3, <1>8, <1>b, Zenon
    <2>5. CASE u = t
      <3>1. d[u] = Len(ws[u])
        BY <1>3, <1>11, <1>15, <2>1, <2>5, Zenon
      <3> DEFINE a == RowSum(vs[t])
                 b == RowSum(xs[t])
                 y == vs[v][i].w
      <3>2. b = a + x - y /\ RowSum(ws[t]) = b - w /\ x = y + w
        BY <1>3, <2>2, <2>3, <2>4 DEF x
      <3>5. w \in Int /\ x \in Int
        BY <1>3
      <3>3. a \in Int /\ deg[t] = a /\ y \in Int
        BY <1>3, <1>12, <1>b, <2>1, <2>5
      <3> HIDE DEF a, b, y
      <3>4. RowSum(ws[t]) = a
        BY <3>2, <3>3, <3>5
      <3> QED
        BY <2>5, <3>1, <3>3, <3>4
    <2>6. CASE u # t
      <3>1. d[u] = Len(ws[u])
        BY <1>11, <1>15, <2>1, <2>6, Zenon
      <3>2. CASE u = v
        <4> DEFINE a == RowSum(vs[v])
                   y == vs[v][i].w
        <4>1. RowSum(ws[v]) = a + x - y /\ x = y + w
          BY <2>2, <2>3, <2>6, <3>2 DEF x
        <4>2. a \in Int /\ deg[v] = a + w /\ y \in Int
          BY <1>3, <1>12, <2>1, <3>2, Zenon
        <4>4. w \in Int /\ x \in Int
          BY <1>3
        <4> HIDE DEF a, y
        <4>3. RowSum(ws[v]) = a + w
          BY <4>1, <4>2, <4>4
        <4> QED
          BY <3>1, <3>2, <4>2, <4>3
      <3>3. CASE u # v
        BY <1>12, <2>1, <2>2, <2>3, <2>6, <3>1, <3>3
      <3> QED
        BY <3>2, <3>3
    <2> QED
      BY <2>5, <2>6
  <1>19. Live(H, B, d, D, X, ahead)
    BY <1>9, <1>11, <1>12, <1>13, <1>15, <1>16, <1>17, <1>18 DEF Live
  <1>20. ASSUME NEW u \in 1 .. n, u # t
         PROVE  /\ Len(H.vs[u]) = Len(vs[u])
                /\ \A k \in 1 .. Len(vs[u]) : H.vs[u][k].to = vs[u][k].to /\ H.vs[u][k].w = xs[u][k].w
    <2>1. \A k \in 1 .. Len(xs[u]) : ws[u][k].to = xs[u][k].to /\ ws[u][k].w = xs[u][k].w
      BY <1>8, <1>10, <1>20 DEF Lighter
    <2>2. Len(ws[u]) = Len(vs[u]) /\ Len(xs[u]) = Len(vs[u]) /\ H.vs = ws
      BY <1>8, <1>11, <1>13, <1>20
    <2>3. \A k \in 1 .. Len(vs[u]) : xs[u][k].to = vs[u][k].to
      BY <1>8
    <2> QED
      BY <2>1, <2>2, <2>3
  <1>21. Took(G, A, c, v, gone, j, t, H, B, d)
    <2>1. SameNames(G, H)
      BY <1>11, <1>13 DEF SameNames, n, vs
    <2>2. \A u \in 1 .. n : u # v /\ u # t /\ u # gone => B[u] = A[u] /\ d[u] = c[u]
      BY <1>14, <1>15
    <2> QED
      BY <1>14, <1>15, <1>20, <2>1, <2>2, Zenon DEF Took, vs, n
  \* Only the edge to t may be told that its other end has moved.
  <1>22. ASSUME NEW k \in 1 .. L
         PROVE  ws[v][k].rev = IF k = i /\ q = Lt THEN r ELSE vs[v][k].rev
    <2> DEFINE moved == xs[t][Lt]
               Tell == r # Lt /\ v = moved.to /\ k = moved.rev
    <2>1. ws[v][k] = IF Tell THEN WithRev(xs[v][k], r) ELSE xs[v][k]
      <3>1. \A u \in 1 .. Len(xs) : u # t => \A l \in 1 .. Len(xs[u]) :
               ws[u][l] = IF r # Len(xs[t]) /\ u = xs[t][Len(xs[t])].to
                             /\ l = xs[t][Len(xs[t])].rev
                          THEN WithRev(xs[u][l], r) ELSE xs[u][l]
        BY <1>9, Zenon DEF IsWithout
      <3>2. Len(xs[t]) = Lt /\ v \in 1 .. Len(xs) /\ k \in 1 .. Len(xs[v])
        BY <1>1, <1>3, <1>8, Zenon
      <3> QED
        BY <1>b, <3>1, <3>2
    <2>2. Lt \in 1 .. Lt /\ moved.to = vs[t][Lt].to /\ moved.rev = vs[t][Lt].rev
      <3>1. Lt \in 1 .. Lt
        <4>1. t \in 1 .. Len(vs) /\ q \in 1 .. Lt
          BY <1>3
        <4>2. Lt \in Nat
          BY <1>1, <4>1, RowFacts
        <4> HIDE DEF Lt
        <4> QED
          BY <4>1, <4>2
      <3>2. t \in 1 .. n /\ Lt \in 1 .. Len(vs[t])
        BY <1>3, <3>1
      <3> HIDE DEF Lt
      <3> QED
        BY <1>8, <3>1, <3>2
    <2> HIDE DEF moved
    <2>3. Tell => k = i /\ q = Lt
      <3> SUFFICES ASSUME Tell PROVE k = i /\ q = Lt
        OBVIOUS
      <3>1. Lt \in K[t] /\ vs[t][Lt].to = v /\ vs[t][Lt].rev = k
        BY <1>6, <2>2, Zenon
      <3>2. Mated(vs, K, t, Lt, vs[t][Lt].to, vs[t][Lt].rev)
        BY <1>1, <1>3, <1>5, <3>1, MateFacts, Zenon
      <3>3. Mated(vs, K, t, Lt, v, k)
        BY <3>1, <3>2
      <3>4. k \in K[v] /\ vs[v][k].to = t /\ vs[v][k].rev = Lt
        BY <3>3 DEF Mated
      <3> QED
        BY <1>3, <1>6, <1>a, <3>4, Zenon
    <2>4. k = i /\ q = Lt => Tell
      BY <1>3, <2>2
    <2> HIDE DEF Tell
    <2>5. xs[v][k] \in Edge /\ xs[v][k].rev = vs[v][k].rev
      <3>1. k \in 1 .. Len(xs[v]) /\ v \in 1 .. Len(xs)
        BY <1>1, <1>8
      <3> QED
        BY <1>1, <1>8, <3>1, RowFacts
    <2>6. WithRev(xs[v][k], r).rev = r
      BY <1>3, <2>5, RevFacts
    <2> QED
      BY <2>1, <2>3, <2>4, <2>5, <2>6
  <1>23. TookKnown(G, A, v, i, q, f, H, B)
    <2>1. Len(ws[v]) = L /\ \A k \in 1 .. L : ws[v][k].to = vs[v][k].to
      BY <1>1, <1>13, <1>20, <1>b, Zenon
    <2>2. \A k \in 1 .. L : k # i => ws[v][k].rev = vs[v][k].rev /\ ws[v][k].w = vs[v][k].w
      <3> SUFFICES ASSUME NEW k \in 1 .. L, k # i
                   PROVE  ws[v][k].rev = vs[v][k].rev /\ ws[v][k].w = vs[v][k].w
        OBVIOUS
      <3>1. xs[v][k].w = vs[v][k].w
        BY <1>1, <1>8, <1>b
      <3>2. ws[v][k].w = xs[v][k].w
        BY <1>1, <1>13, <1>20, <1>b, Zenon
      <3> QED
        BY <1>22, <3>1, <3>2
    <2>3. ws[v][i].rev = IF q = Lt THEN r ELSE q
      BY <1>3, <1>22, <1>a, Zenon
    <2> QED
      BY <1>13, <1>14, <2>1, <2>2, <2>3, Zenon DEF TookKnown, L, Lt, vs, t, r
  <1> QED
    BY <1>19, <1>21, <1>23 DEF t

-----------------------------------------------------------------------------
(* Merging the edges of one vertex into another, one after the other.        *)

\* No edge of gone but skip leads to v, and no two have the same end.
Apart(G, v, gone, skip) ==
    /\ v \in 1 .. Len(G.vs) /\ gone \in 1 .. Len(G.vs) /\ v # gone /\ skip \in Nat
    /\ \A k \in 1 .. Len(G.vs[gone]) : k # skip => G.vs[gone][k].to # v
    /\ \A k, l \in 1 .. Len(G.vs[gone]) : G.vs[gone][k].to = G.vs[gone][l].to => k = l

SameEnds(G, H, u) ==
    Len(H.vs[u]) = Len(G.vs[u]) /\ \A k \in 1 .. Len(G.vs[u]) : H.vs[u][k].to = G.vs[u][k].to

\* The first j edges of gone are merged.  Edge skip of gone and edge hole of v are the
\* edge between the two, if there is one.
Merging(G, H, A, c, v, gone, skip, hole, j) ==
    /\ Live(H, A, c, {gone}, {gone, v}, 0) /\ SameNames(G, H) /\ SameEnds(G, H, gone)
    /\ A[gone] = (j + 1 .. Len(G.vs[gone])) \ {skip}
    /\ c[gone] = Len(G.vs[gone]) - j + (IF skip \in 1 .. j THEN 1 ELSE 0)
    /\ A[v] = (1 .. Len(H.vs[v])) \ {hole}
    /\ hole # 0 => /\ hole \in 1 .. Len(H.vs[v]) /\ H.vs[v][hole].w = G.vs[v][hole].w
                   /\ H.vs[v][hole].to = gone

\* The edge between the two vertices is passed over.
LEMMA SkipStep ==
    ASSUME NEW G, NEW H, NEW A, NEW c, NEW v, NEW gone, NEW skip, NEW hole,
           NEW j \in 1 .. Len(G.vs[gone]), Apart(G, v, gone, skip), skip = j, Len(G.vs[gone]) \in Nat,
           Merging(G, H, A, c, v, gone, skip, hole, j - 1)
    PROVE  Merging(G, H, A, c, v, gone, skip, hole, j)
  <1> DEFINE L == Len(G.vs[gone])
  <1>1. /\ A[gone] = (j - 1 + 1 .. L) \ {j}
        /\ c[gone] = L - (j - 1) + (IF skip \in 1 .. j - 1 THEN 1 ELSE 0)
        /\ L \in Nat /\ j \in 1 .. L
    BY DEF Merging
  <1> HIDE DEF L
  <1>2. A[gone] = (j + 1 .. L) \ {skip}
    BY <1>1
  <1>3. c[gone] = L - j + (IF skip \in 1 .. j THEN 1 ELSE 0)
    BY <1>1
  <1> QED
    BY <1>2, <1>3, Zenon DEF Merging, L

\* How row v changes.
TookAny(G, A, v, f, i, q, H, B) ==
    IF i = 0 THEN TookNew(G, A, v, f, H, B) ELSE TookKnown(G, A, v, i, q, f, H, B)

\* Edge i of v, whose other end is at q, leads where f leads; with i = 0 none does.
Finds(H, A, v, f, i, q) ==
    IF i = 0 THEN q = 0 /\ \A k \in A[v] : H.vs[v][k].to # f.to
    ELSE i \in A[v] /\ H.vs[v][i].to = f.to /\ q = H.vs[v][i].rev

\* Either way, the edge of the vertex that goes is no longer live and v has its weight.
LEMMA TakeStep ==
    ASSUME NEW G, NEW A, NEW c, NEW D, NEW X, NEW ahead, Live(G, A, c, D, X, ahead), ahead \in Int,
           NEW v \in 1 .. Len(G.vs), v \notin D,
           NEW gone \in D, gone \in X, gone \in 1 .. Len(G.vs),
           NEW j \in A[gone], NEW f, f = G.vs[gone][j], f.to \notin X, f.to \notin D, f.to # v,
           NEW i, NEW q, Finds(G, A, v, f, i, q), NEW H, H = TakeEdge(G, v, f, i, q)
    PROVE  \E B, d : /\ Live(H, B, d, D, X, ahead) /\ Took(G, A, c, v, gone, j, f.to, H, B, d)
                     /\ TookAny(G, A, v, f, i, q, H, B)
  <1>1. CASE i = 0
    <2>1. H = TakeEdge(G, v, f, 0, 0) /\ \A k \in A[v] : G.vs[v][k].to # f.to
      BY <1>1 DEF Finds
    <2>2. \E B, d : /\ Live(H, B, d, D, X, ahead) /\ Took(G, A, c, v, gone, j, f.to, H, B, d)
                    /\ TookNew(G, A, v, f, H, B)
      BY <2>1, TakeNewStep
    <2> QED
      BY <1>1, <2>2 DEF TookAny
  <1>2. CASE i # 0
    <2>1. i \in A[v] /\ G.vs[v][i].to = f.to /\ q = G.vs[v][i].rev
      BY <1>2 DEF Finds
    <2>2. \E B, d : /\ Live(H, B, d, D, X, ahead) /\ Took(G, A, c, v, gone, j, f.to, H, B, d)
                    /\ TookKnown(G, A, v, i, q, f, H, B)
      BY <2>1, TakeKnownStep
    <2> QED
      BY <1>2, <2>2 DEF TookAny
  <1> QED
    BY <1>1, <1>2

\* One pass over the edges of the vertex that goes.
LEMMA MergeStep ==
    ASSUME NEW G, NEW H, NEW A, NEW c, NEW v, NEW gone, NEW skip, NEW hole,
           NEW j \in 1 .. Len(G.vs[gone]), Apart(G, v, gone, skip), skip # j, Len(G.vs[gone]) \in Nat,
           Merging(G, H, A, c, v, gone, skip, hole, j - 1), hole \in Nat,
           NEW f, f = H.vs[gone][j], NEW i, NEW q, Finds(H, A, v, f, i, q),
           NEW I, I = TakeEdge(H, v, f, i, q)
    PROVE  \E B, d : Merging(G, I, B, d, v, gone, skip, hole, j) /\ TookAny(H, A, v, f, i, q, I, B)
  <1> DEFINE L == Len(G.vs[gone])
             n == Len(H.vs)
             t == f.to
  <1>1. /\ Live(H, A, c, {gone}, {gone, v}, 0) /\ SameNames(G, H)
        /\ Len(H.vs[gone]) = L /\ \A k \in 1 .. L : H.vs[gone][k].to = G.vs[gone][k].to
        /\ A[gone] = (j - 1 + 1 .. L) \ {skip}
        /\ c[gone] = L - (j - 1) + (IF skip \in 1 .. j - 1 THEN 1 ELSE 0)
        /\ A[v] = (1 .. Len(H.vs[v])) \ {hole}
        /\ hole # 0 => /\ hole \in 1 .. Len(H.vs[v]) /\ H.vs[v][hole].w = G.vs[v][hole].w
                       /\ H.vs[v][hole].to = gone
    BY DEF Merging, SameEnds
  <1>2. /\ v \in 1 .. n /\ gone \in 1 .. n /\ v # gone /\ skip \in Nat /\ Len(G.vs) = n
        /\ \A k \in 1 .. L : k # skip => G.vs[gone][k].to # v
    BY <1>1 DEF Apart, SameNames
  <1>3. L \in Nat /\ j \in 1 .. L /\ j # skip
    OBVIOUS
  <1>4. j \in A[gone]
    <2> HIDE DEF L
    <2> QED
      BY <1>1, <1>3
  <1>5. t \in 1 .. n /\ t # v /\ t # gone
    <2>1. H.vs \in Adj /\ Paired(H.vs, A)
      BY <1>1, ObjectFacts DEF Live
    <2>2. Mated(H.vs, A, gone, j, H.vs[gone][j].to, H.vs[gone][j].rev)
      BY <1>2, <1>4, <2>1, MateFacts
    <2>3. t \in 1 .. n /\ t # gone
      BY <2>2, Zenon DEF Mated
    <2>4. t = G.vs[gone][j].to
      BY <1>1
    <2> QED
      BY <1>2, <2>3, <2>4, Zenon
  <1> HIDE DEF t, n
  <1>6. PICK B, d : /\ Live(I, B, d, {gone}, {gone, v}, 0) /\ Took(H, A, c, v, gone, j, t, I, B, d)
                    /\ TookAny(H, A, v, f, i, q, I, B)
    <2>1. v \in 1 .. Len(H.vs) /\ gone \in 1 .. Len(H.vs)
      BY <1>2 DEF n
    <2>2. f.to \notin {gone, v} /\ f.to \notin {gone} /\ f.to # v
      BY <1>5 DEF t
    <2>3. v \notin {gone} /\ gone \in {gone} /\ gone \in {gone, v} /\ 0 \in Int
      BY <1>2
    <2>4. \E B, d : /\ Live(I, B, d, {gone}, {gone, v}, 0)
                    /\ Took(H, A, c, v, gone, j, f.to, I, B, d)
                    /\ TookAny(H, A, v, f, i, q, I, B)
      BY <1>1, <1>4, <2>1, <2>2, <2>3, TakeStep, Zenon
    <2> QED
      BY <2>4 DEF t
  <1>7. SameNames(G, I)
    BY <1>1, <1>6 DEF SameNames, Took
  <1>8. SameEnds(G, I, gone)
    <2>1. Len(I.vs[gone]) = Len(H.vs[gone]) /\ \A k \in 1 .. L : I.vs[gone][k].to = H.vs[gone][k].to
      BY <1>1, <1>2, <1>5, <1>6 DEF Took, n
    <2> QED
      BY <1>1, <2>1 DEF SameEnds
  <1>9. B[gone] = (j + 1 .. L) \ {skip}
    <2>1. B[gone] = A[gone] \ {j}
      BY <1>6 DEF Took
    <2> HIDE DEF L
    <2> QED
      BY <1>1, <1>3, <2>1
  <1>10. d[gone] = L - j + (IF skip \in 1 .. j THEN 1 ELSE 0)
    <2>1. d[gone] = c[gone] - 1
      BY <1>6 DEF Took
    <2>2. skip \in 1 .. j <=> skip \in 1 .. j - 1
      BY <1>2, <1>3
    <2> HIDE DEF L
    <2> QED
      BY <1>1, <1>3, <2>1, <2>2
  <1>11. /\ B[v] = (1 .. Len(I.vs[v])) \ {hole}
         /\ hole # 0 => /\ hole \in 1 .. Len(I.vs[v]) /\ I.vs[v][hole].w = G.vs[v][hole].w
                        /\ I.vs[v][hole].to = gone
    <2> DEFINE M == Len(H.vs[v])
    <2>0. M \in Nat
      <3>1. H.vs \in Adj
        BY <1>1, ObjectFacts DEF Live
      <3> QED
        BY <1>2, <3>1, RowFacts DEF n
    <2>1. CASE i = 0
      <3>1. /\ Len(I.vs[v]) = M + 1 /\ \A k \in 1 .. M : I.vs[v][k] = H.vs[v][k]
            /\ B[v] = A[v] \cup {M + 1}
        BY <1>6, <2>1, Zenon DEF TookAny, TookNew
      <3>2. hole \in 0 .. M
        BY <1>1
      <3>3. hole # 0 => I.vs[v][hole].w = G.vs[v][hole].w /\ I.vs[v][hole].to = gone
        BY <1>1, <3>1, Zenon
      <3> HIDE DEF M
      <3>4. ((1 .. M) \ {hole}) \cup {M + 1} = (1 .. M + 1) \ {hole}
        BY <2>0, <3>2
      <3>5. hole # 0 => hole \in 1 .. M + 1
        BY <2>0, <3>2
      <3> QED
        BY <1>1, <3>1, <3>3, <3>4, <3>5 DEF M
    <2>2. CASE i # 0
      <3>1. /\ Len(I.vs[v]) = M
            /\ \A k \in 1 .. M : I.vs[v][k].to = H.vs[v][k].to
            /\ \A k \in 1 .. M : k # i => I.vs[v][k].w = H.vs[v][k].w
            /\ B[v] = A[v]
        BY <1>6, <2>2, Zenon DEF TookAny, TookKnown
      <3>2. i # hole
        BY <1>1, <2>2 DEF Finds
      <3> QED
        BY <1>1, <3>1, <3>2
    <2> QED
      BY <2>1, <2>2
  <1>12. Merging(G, I, B, d, v, gone, skip, hole, j)
    BY <1>6, <1>7, <1>8, <1>9, <1>10, <1>11 DEF Merging
  <1> QED
    BY <1>6, <1>12

Indices(n) == [i \in 1 .. n |-> i]

\* The indices a loop goes through.
LEMMA IndicesFacts ==
    ASSUME NEW n \in Nat
    PROVE  DOMAIN Indices(n) = 1 .. n /\ Len(Indices(n)) = n /\ \A i \in 1 .. n : Indices(n)[i] = i
  <1>1. Indices(n) \in Seq(Nat)
    BY IsASeq DEF Indices
  <1>2. DOMAIN Indices(n) = 1 .. n /\ \A i \in 1 .. n : Indices(n)[i] = i
    BY DEF Indices
  <1>3. DOMAIN Indices(n) = 1 .. Len(Indices(n)) /\ Len(Indices(n)) \in Nat
    BY <1>1, LenProperties
  <1>4. Len(Indices(n)) = n
    BY <1>2, <1>3
  <1> QED
    BY <1>2, <1>4

\* The least element of a set of numbers.
LEMMA LeastExists ==
    ASSUME NEW n \in Nat, NEW S \in SUBSET (1 .. n), S # {}
    PROVE  Min(S) \in S /\ \A y \in S : Min(S) <= y
  <1> DEFINE T == {k \in 0 .. n : S \cap (1 .. k) # {} => \E m \in S : \A y \in S : m <= y}
  <1>1. 0 \in T
    OBVIOUS
  <1>2. ASSUME NEW k \in 1 .. n, k - 1 \in T
        PROVE  k \in T
    <2> SUFFICES ASSUME S \cap (1 .. k) # {} PROVE \E m \in S : \A y \in S : m <= y
      OBVIOUS
    <2>1. CASE S \cap (1 .. k - 1) # {}
      BY <1>2, <2>1
    <2>2. CASE S \cap (1 .. k - 1) = {}
      <3>1. k \in S /\ \A y \in S : k <= y
        BY <2>2
      <3> QED
        BY <3>1
    <2> QED
      BY <2>1, <2>2
  <1> HIDE DEF T
  <1>3. \A k \in 0 .. n : k \in T
    BY <1>1, <1>2, UpTo
  <1>4. n \in T
    BY <1>3
  <1>5. S \cap (1 .. n) # {}
    BY Zenon
  <1>6. \E m \in S : \A y \in S : m <= y
    BY <1>4, <1>5 DEF T
  <1> QED
    BY <1>6, Zenon DEF Min

\* The first edge that leads to t, or 0.
LEMMA FirstFound ==
    ASSUME NEW s, NEW t, NEW i, i = SelectInSeq(s, LAMBDA f : f.to = t), Len(s) \in Nat
    PROVE  \/ i = 0 /\ \A k \in 1 .. Len(s) : s[k].to # t
           \/ i \in 1 .. Len(s) /\ s[i].to = t
  <1> DEFINE I == {k \in 1 .. Len(s) : s[k].to = t}
  <1>1. i = IF I # {} THEN Min(I) ELSE 0
    BY DEF SelectInSeq
  <1>2. I # {} => Min(I) \in I
    <2>1. I \in SUBSET (1 .. Len(s))
      OBVIOUS
    <2> HIDE DEF I
    <2> QED
      BY <2>1, LeastExists
  <1> QED
    BY <1>1, <1>2

-----------------------------------------------------------------------------
(* The loops that merge one vertex.                                          *)

Merged(G, H, v, gone, skip, hole, j) == \E A, c : Merging(G, H, A, c, v, gone, skip, hole, j)

\* A pass of contractEdgeSparseTarget, which looks for the edge of v in its array.
LEMMA SparseStep ==
    ASSUME NEW G, NEW H, NEW v, NEW gone, NEW skip, NEW hole \in Nat,
           NEW j \in 1 .. Len(G.vs[gone]), Apart(G, v, gone, skip), skip # j, Len(G.vs[gone]) \in Nat,
           Merged(G, H, v, gone, skip, hole, j - 1),
           NEW I, I = MergeEdgeSparse(H, v, H.vs[gone][j])
    PROVE  Merged(G, I, v, gone, skip, hole, j)
  <1> DEFINE f == H.vs[gone][j]
             i == SelectInSeq(H.vs[v], LAMBDA h : h.to = f.to)
             q == IF i = 0 THEN 0 ELSE H.vs[v][i].rev
  <1>1. PICK A, c : Merging(G, H, A, c, v, gone, skip, hole, j - 1)
    BY DEF Merged
  <1>2. I = TakeEdge(H, v, f, i, q)
    BY DEF MergeEdgeSparse
  <1> HIDE DEF f
  <1>3. /\ A[v] = (1 .. Len(H.vs[v])) \ {hole} /\ A[gone] = (j - 1 + 1 .. Len(G.vs[gone])) \ {skip}
        /\ hole # 0 => H.vs[v][hole].to = gone
        /\ H \in Objects /\ Paired(H.vs, A) /\ H.vs \in Adj /\ Len(H.vs) = Len(G.vs)
    BY <1>1, ObjectFacts DEF Merging, Live, SameNames
  <1>4. v \in 1 .. Len(H.vs) /\ gone \in 1 .. Len(H.vs) /\ v # gone /\ Len(H.vs[v]) \in Nat
    BY <1>3, RowFacts DEF Apart
  <1>5. f.to # gone
    <2>1. j \in A[gone]
      BY <1>3
    <2>2. Mated(H.vs, A, gone, j, H.vs[gone][j].to, H.vs[gone][j].rev)
      BY <1>3, <1>4, <2>1, MateFacts, Zenon
    <2> QED
      BY <2>2, Zenon DEF Mated, f
  <1>6. \/ i = 0 /\ \A k \in 1 .. Len(H.vs[v]) : H.vs[v][k].to # f.to
        \/ i \in 1 .. Len(H.vs[v]) /\ H.vs[v][i].to = f.to
    BY <1>4, FirstFound, Zenon
  <1> HIDE DEF i, q
  <1>7. Finds(H, A, v, f, i, q)
    <2>1. CASE i = 0
      <3>1. q = 0 /\ \A k \in A[v] : H.vs[v][k].to # f.to
        BY <1>3, <1>6, <2>1 DEF q
      <3> QED
        BY <2>1, <3>1 DEF Finds
    <2>2. CASE i # 0
      <3>1. i \in A[v] /\ H.vs[v][i].to = f.to /\ q = H.vs[v][i].rev
        BY <1>3, <1>5, <1>6, <2>2, Zenon DEF q
      <3> QED
        BY <2>2, <3>1 DEF Finds
    <2> QED
      BY <2>1, <2>2
  <1>8. \E B, d : Merging(G, I, B, d, v, gone, skip, hole, j) /\ TookAny(H, A, v, f, i, q, I, B)
    BY <1>1, <1>2, <1>7, MergeStep, Zenon DEF f
  <1> QED
    BY <1>8 DEF Merged

SparseRun(G, v, e, n, r) ==
    /\ r[0] = G /\ \A i \in 1 .. n : r[i] = SparsePass(r[i - 1], v, e, i)
    /\ SparseLoop(v, e, G, Indices(n)) = r[n]

\* The run of the loop of contractEdgeSparseTarget.
LEMMA SparseLoopRuns ==
    ASSUME NEW G, NEW v, NEW e, NEW n \in Nat
    PROVE  \E r : SparseRun(G, v, e, n, r)
  <1>1. DOMAIN Indices(n) = 1 .. n /\ Len(Indices(n)) = n /\ \A i \in 1 .. n : Indices(n)[i] = i
    BY IndicesFacts
  <1>2. \E r : IsRun(r, "Sparse", <<v, e>>, G, Indices(n)) /\ SparseLoop(v, e, G, Indices(n)) = r[n]
    BY <1>1, SparseRuns
  <1> QED
    BY <1>1, <1>2 DEF IsRun, Pass, SparseRun

\* After that loop every edge of the vertex that goes, but skip, is v's.
LEMMA SparseMerges ==
    ASSUME NEW G, NEW v, NEW e, NEW hole \in Nat, Apart(G, v, e.to, e.rev), NEW L \in Nat,
           L = Len(G.vs[e.to]), Merged(G, G, v, e.to, e.rev, hole, 0)
    PROVE  Merged(G, SparseLoop(v, e, G, Indices(L)), v, e.to, e.rev, hole, L)
  <1> DEFINE gone == e.to
             skip == e.rev
  <1>1. PICK r : SparseRun(G, v, e, L, r)
    BY SparseLoopRuns, Zenon
  <1>2. /\ r[0] = G /\ \A i \in 1 .. L : r[i] = SparsePass(r[i - 1], v, e, i)
        /\ SparseLoop(v, e, G, Indices(L)) = r[L]
    BY <1>1 DEF SparseRun
  <1> DEFINE T == {j \in 0 .. L : Merged(G, r[j], v, gone, skip, hole, j)}
  <1>4. 0 \in T
    BY <1>2
  <1>5. ASSUME NEW j \in 1 .. L, j - 1 \in T
        PROVE  j \in T
    <2> DEFINE P == r[j - 1]
    <2>1. Merged(G, P, v, gone, skip, hole, j - 1) /\ j \in 1 .. Len(G.vs[gone])
      BY <1>5
    <2>2. r[j] = IF j = skip THEN P ELSE MergeEdgeSparse(P, v, P.vs[gone][j])
      BY <1>2 DEF SparsePass
    <2> HIDE DEF P
    <2>3. Merged(G, r[j], v, gone, skip, hole, j)
      <3>1. CASE j = skip
        <4>1. r[j] = P
          BY <2>2, <3>1
        <4>2. PICK A, c : Merging(G, P, A, c, v, gone, skip, hole, j - 1)
          BY <2>1 DEF Merged
        <4>3. Merging(G, P, A, c, v, gone, skip, hole, j)
          BY <2>1, <3>1, <4>2, SkipStep
        <4> QED
          BY <4>1, <4>3 DEF Merged
      <3>2. CASE j # skip
        <4>1. r[j] = MergeEdgeSparse(P, v, P.vs[gone][j])
          BY <2>2, <3>2
        <4> QED
          BY <2>1, <3>2, <4>1, SparseStep, Zenon
      <3> QED
        BY <3>1, <3>2
    <2> QED
      BY <2>3
  <1> HIDE DEF T
  <1>6. \A j \in 0 .. L : j \in T
    BY <1>4, <1>5, UpTo, Zenon
  <1>7. L \in T
    BY <1>6
  <1> QED
    BY <1>2, <1>7 DEF T

NoEdgeRun(G, v, target, n, r) ==
    /\ r[0] = G /\ \A i \in 1 .. n : r[i] = NoEdgePass(r[i - 1], v, target, i)
    /\ NoEdgeLoop(v, target, G, Indices(n)) = r[n]

\* The run of the loop of contractSparseTargetNoEdge.
LEMMA NoEdgeLoopRuns ==
    ASSUME NEW G, NEW v, NEW target, NEW n \in Nat
    PROVE  \E r : NoEdgeRun(G, v, target, n, r)
  <1>1. DOMAIN Indices(n) = 1 .. n /\ Len(Indices(n)) = n /\ \A i \in 1 .. n : Indices(n)[i] = i
    BY IndicesFacts
  <1>2. \E r : IsRun(r, "NoEdge", <<v, target>>, G, Indices(n)) /\ NoEdgeLoop(v, target, G, Indices(n)) = r[n]
    BY <1>1, NoEdgeRuns
  <1> QED
    BY <1>1, <1>2 DEF IsRun, Pass, NoEdgeRun

\* After that loop every edge of the vertex that goes is v's.
LEMMA NoEdgeMerges ==
    ASSUME NEW G, NEW v, NEW gone, Apart(G, v, gone, 0), NEW L \in Nat,
           L = Len(G.vs[gone]), Merged(G, G, v, gone, 0, 0, 0)
    PROVE  Merged(G, NoEdgeLoop(v, gone, G, Indices(L)), v, gone, 0, 0, L)
  <1>1. PICK r : NoEdgeRun(G, v, gone, L, r)
    BY NoEdgeLoopRuns, Zenon
  <1>2. /\ r[0] = G /\ \A i \in 1 .. L : r[i] = NoEdgePass(r[i - 1], v, gone, i)
        /\ NoEdgeLoop(v, gone, G, Indices(L)) = r[L]
    BY <1>1 DEF NoEdgeRun
  <1> DEFINE T == {j \in 0 .. L : Merged(G, r[j], v, gone, 0, 0, j)}
  <1>4. 0 \in T
    BY <1>2
  <1>5. ASSUME NEW j \in 1 .. L, j - 1 \in T
        PROVE  j \in T
    <2>1. Merged(G, r[j - 1], v, gone, 0, 0, j - 1) /\ j \in 1 .. Len(G.vs[gone]) /\ j # 0
      BY <1>5
    <2>2. r[j] = MergeEdgeSparse(r[j - 1], v, r[j - 1].vs[gone][j])
      BY <1>2 DEF NoEdgePass
    <2>3. Merged(G, r[j], v, gone, 0, 0, j)
      BY <2>1, <2>2, SparseStep, Zenon
    <2> QED
      BY <2>3
  <1> HIDE DEF T
  <1>6. \A j \in 0 .. L : j \in T
    BY <1>4, <1>5, UpTo, Zenon
  <1>7. L \in T
    BY <1>6
  <1> QED
    BY <1>2, <1>7 DEF T

-----------------------------------------------------------------------------
(* Beginning to merge.                                                       *)

\* Between calls every edge in the arrays is live.
Alive(G) == \E A, c : Live(G, A, c, {}, {}, 0)

\* More vertices may be excepted.
LEMMA LiveWeaker ==
    ASSUME NEW G, NEW A, NEW c, NEW D, NEW X, NEW a, Live(G, A, c, D, X, a),
           NEW E, D \subseteq E, NEW Y, X \subseteq Y
    PROVE  Live(G, A, c, E, Y, a)
  BY DEF Live

\* A vertex whose edges are all live need not be excepted.
LEMMA LiveStronger ==
    ASSUME NEW G, NEW A, NEW c, NEW D, NEW X, NEW a, Live(G, A, c, D, X, a),
           NEW v, NEW Y, v \in 1 .. Len(G.vs) => A[v] = 1 .. Len(G.vs[v]), X \subseteq Y \cup {v}
    PROVE  Live(G, A, c, D, Y, a)
  BY DEF Live

\* Names do not matter.
LEMMA LiveRenamed ==
    ASSUME NEW G, NEW A, NEW c, NEW D, NEW X, NEW a, Live(G, A, c, D, X, a),
           NEW H, H \in Objects, H.vs = G.vs, H.deg = G.deg, H.m = G.m
    PROVE  Live(H, A, c, D, X, a)
  BY DEF Live

\* Between calls every edge counts, and every degree is the weight of its row.
LEMMA AliveFacts ==
    ASSUME NEW G, NEW A, NEW c, Live(G, A, c, {}, {}, 0)
    PROVE  /\ G \in Objects /\ G.vs \in Adj /\ Paired(G.vs, A) /\ Len(G.vs) \in Nat
           /\ Len(G.deg) = Len(G.vs) /\ DOMAIN G.vs = 1 .. Len(G.vs)
           /\ \A u \in 1 .. Len(G.vs) :
                 /\ A[u] = 1 .. Len(G.vs[u]) /\ c[u] = Len(G.vs[u]) /\ Len(G.vs[u]) \in Nat
                 /\ G.deg[u] = RowSum(G.vs[u]) /\ DOMAIN G.vs[u] = 1 .. Len(G.vs[u])
  <1>1. G \in Objects /\ G.vs \in Adj /\ Paired(G.vs, A) /\ Len(G.vs) \in Nat
    BY ObjectFacts DEF Live
  <1>2. \A u \in 1 .. Len(G.vs) : Len(G.vs[u]) \in Nat /\ DOMAIN G.vs[u] = 1 .. Len(G.vs[u])
    BY <1>1, RowFacts
  <1>3. DOMAIN G.vs = 1 .. Len(G.vs)
    BY <1>1, ObjectFacts
  <1> QED
    BY <1>1, <1>2, <1>3 DEF Live

\* No edge of gone but that with index skip leads to v.
Only(vs, v, gone, skip) == \A k \in 1 .. Len(vs[gone]) : k # skip => vs[gone][k].to # v

\* An object between calls may be merged.
LEMMA AliveApart ==
    ASSUME NEW G, Alive(G), NEW v \in 1 .. Len(G.vs), NEW gone \in 1 .. Len(G.vs), v # gone,
           NEW skip \in Nat, Only(G.vs, v, gone, skip)
    PROVE  Apart(G, v, gone, skip)
  <1>1. PICK A, c : Live(G, A, c, {}, {}, 0)
    BY DEF Alive
  <1>2. G.vs \in Adj /\ Paired(G.vs, A) /\ A[gone] = 1 .. Len(G.vs[gone])
    BY <1>1, AliveFacts
  <1>3. ASSUME NEW k \in 1 .. Len(G.vs[gone]), NEW l \in 1 .. Len(G.vs[gone]),
               G.vs[gone][k].to = G.vs[gone][l].to
        PROVE  k = l
    <2>1. k \in A[gone] /\ l \in A[gone]
      BY <1>2
    <2>2. Mated(G.vs, A, gone, l, G.vs[gone][l].to, G.vs[gone][l].rev)
      BY <1>2, <2>1, MateFacts
    <2> QED
      BY <1>3, <2>1, <2>2, Zenon DEF Mated
  <1> QED
    BY <1>3 DEF Apart, Only

\* Two vertices without an edge between them.
LEMMA MergeStartApart ==
    ASSUME NEW G, Alive(G), NEW v \in 1 .. Len(G.vs), NEW gone \in 1 .. Len(G.vs), v # gone,
           Only(G.vs, v, gone, 0)
    PROVE  Apart(G, v, gone, 0) /\ Merged(G, G, v, gone, 0, 0, 0) /\ Len(G.vs[gone]) \in Nat
  <1>1. PICK A, c : Live(G, A, c, {}, {}, 0)
    BY DEF Alive
  <1>2. /\ A[gone] = 1 .. Len(G.vs[gone]) /\ A[v] = 1 .. Len(G.vs[v]) /\ c[gone] = Len(G.vs[gone])
        /\ Len(G.vs[gone]) \in Nat
    BY <1>1, AliveFacts
  <1>3. Live(G, A, c, {gone}, {gone, v}, 0)
    BY <1>1, LiveWeaker
  <1>4. SameNames(G, G) /\ SameEnds(G, G, gone)
    BY DEF SameNames, SameEnds
  <1>5. Merging(G, G, A, c, v, gone, 0, 0, 0)
    BY <1>2, <1>3, <1>4 DEF Merging
  <1> QED
    BY <1>2, <1>5, AliveApart DEF Merged

\* The two ends of edge i of v.
EdgeStarts(G, v, i, e) ==
    /\ Apart(G, v, e.to, e.rev) /\ Merged(G, G, v, e.to, e.rev, i, 0)
    /\ e.to \in 1 .. Len(G.vs) /\ e.to # v /\ Len(G.vs[e.to]) \in Nat
    /\ e.rev \in 1 .. Len(G.vs[e.to]) /\ e.w \in Int
    /\ G.vs[e.to][e.rev].to = v /\ G.vs[e.to][e.rev].rev = i

\* The vertices of an edge are about to be merged.
LEMMA MergeStartEdge ==
    ASSUME NEW G, Alive(G), NEW v \in 1 .. Len(G.vs), NEW i \in 1 .. Len(G.vs[v]),
           NEW e, e = G.vs[v][i]
    PROVE  EdgeStarts(G, v, i, e)
  <1>1. PICK A, c : Live(G, A, c, {}, {}, 0)
    BY DEF Alive
  <1> DEFINE t == e.to
             r == e.rev
             B == KilledSet(G.vs, A, v, i)
  <1>2. G.vs \in Adj /\ Paired(G.vs, A) /\ i \in A[v] /\ Len(G.vs) \in Nat
    BY <1>1, AliveFacts
  <1>3. Mated(G.vs, A, v, i, t, r)
    BY <1>2, MateFacts
  <1>4. /\ t \in 1 .. Len(G.vs) /\ t # v /\ r \in 1 .. Len(G.vs[t]) /\ r \in Nat
        /\ \A j \in A[t] : G.vs[t][j].to = v => j = r
        /\ e.w \in Int /\ G.vs[t][r].to = v /\ G.vs[t][r].rev = i
    BY <1>3, Zenon DEF Mated, Edge
  <1>5. Killed(G.vs, A, v, i, B)
    BY <1>2, KilledExists
  <1>6. Paired(G.vs, B)
    BY <1>2, <1>5, KilledPaired
  <1>7. /\ B[v] = A[v] \ {i} /\ B[t] = A[t] \ {r}
        /\ \A u \in 1 .. Len(G.vs) : u # v /\ u # t => B[u] = A[u]
    BY <1>5 DEF Killed
  <1>8. /\ A[t] = 1 .. Len(G.vs[t]) /\ A[v] = 1 .. Len(G.vs[v]) /\ c[t] = Len(G.vs[t])
        /\ Len(G.vs[t]) \in Nat
    <2>1. \A u \in 1 .. Len(G.vs) :
             A[u] = 1 .. Len(G.vs[u]) /\ c[u] = Len(G.vs[u]) /\ Len(G.vs[u]) \in Nat
      BY <1>1, AliveFacts
    <2> QED
      BY <1>4, <2>1, Zenon
  <1> HIDE DEF B
  <1>9. Live(G, B, c, {t}, {t, v}, 0)
    BY <1>1, <1>6, <1>7 DEF Live
  <1>10. SameNames(G, G) /\ SameEnds(G, G, t)
    BY DEF SameNames, SameEnds
  <1>11. Merging(G, G, B, c, v, t, r, i, 0)
    <2>1. B[t] = (0 + 1 .. Len(G.vs[t])) \ {r} /\ B[v] = (1 .. Len(G.vs[v])) \ {i}
      BY <1>7, <1>8
    <2>2. c[t] = Len(G.vs[t]) - 0 + (IF r \in 1 .. 0 THEN 1 ELSE 0)
      BY <1>8
    <2>3. i # 0 => i \in 1 .. Len(G.vs[v]) /\ G.vs[v][i].w = G.vs[v][i].w /\ G.vs[v][i].to = t
      OBVIOUS
    <2> HIDE DEF t, r
    <2> QED
      BY <1>9, <1>10, <2>1, <2>2, <2>3 DEF Merging
  <1>12. Only(G.vs, v, t, r)
    BY <1>4, <1>8, Zenon DEF Only
  <1>13. Apart(G, v, t, r)
    BY <1>4, <1>12, AliveApart, Zenon
  <1> QED
    BY <1>4, <1>8, <1>11, <1>13, Zenon DEF Merged, EdgeStarts

-----------------------------------------------------------------------------
(* The last vertex takes the index of a removed one.                         *)

WithTo(e, v) == [e EXCEPT !.to = v]

\* An edge that leads elsewhere.
LEMMA WithToFacts ==
    ASSUME NEW e \in Edge, NEW v \in Nat
    PROVE  /\ WithTo(e, v) \in Edge /\ WithTo(e, v).to = v /\ WithTo(e, v).w = e.w
           /\ WithTo(e, v).rev = e.rev /\ WithTo(WithTo(e, v), v) = WithTo(e, v)
  BY Zenon DEF WithTo, Edge

\* The first i of the edges of row have told the other ends that they are now at gone.
Names(row, i, u, j) == \E x \in 1 .. i : row[x].to = u /\ row[x].rev = j
Telling(vs, row, gone, i, ws) ==
    /\ ws \in Adj /\ Len(ws) = Len(vs)
    /\ \A u \in 1 .. Len(vs) : Len(ws[u]) = Len(vs[u])
    /\ \A u \in 1 .. Len(vs) : \A j \in 1 .. Len(vs[u]) :
          ws[u][j] = IF Names(row, i, u, j) THEN WithTo(vs[u][j], gone) ELSE vs[u][j]

\* One neighbour of the moved vertex is told its new index.
LEMMA TellStep ==
    ASSUME NEW vs \in Adj, NEW row, NEW gone \in Nat, NEW i \in Nat \ {0}, NEW ws,
           Telling(vs, row, gone, i - 1, ws),
           row[i].to \in 1 .. Len(vs), row[i].rev \in 1 .. Len(vs[row[i].to]),
           NEW xs, xs = PutEdge(ws, row[i].to, row[i].rev, WithTo(ws[row[i].to][row[i].rev], gone))
    PROVE  Telling(vs, row, gone, i, xs)
  <1> DEFINE a == row[i].to
             b == row[i].rev
             e == WithTo(ws[a][b], gone)
  <1>1. /\ ws \in Adj /\ Len(ws) = Len(vs) /\ a \in 1 .. Len(ws) /\ b \in 1 .. Len(ws[a])
        /\ ws[a][b] = IF Names(row, i - 1, a, b) THEN WithTo(vs[a][b], gone) ELSE vs[a][b]
    BY Zenon DEF Telling
  <1>2. vs[a][b] \in Edge /\ ws[a][b] \in Edge
    BY <1>1, RowFacts, Zenon
  <1>3. e \in Edge /\ e = WithTo(vs[a][b], gone)
    <2> DEFINE f == vs[a][b]
    <2>1. WithTo(f, gone) \in Edge /\ WithTo(WithTo(f, gone), gone) = WithTo(f, gone)
      BY <1>2, WithToFacts, Zenon
    <2>2. ws[a][b] = WithTo(f, gone) \/ ws[a][b] = f
      BY <1>1
    <2> HIDE DEF f
    <2> QED
      BY <2>1, <2>2 DEF f
  <1>4. xs = PutEdge(ws, a, b, e)
    OBVIOUS
  <1>5. \A u, j : Names(row, i, u, j) <=> Names(row, i - 1, u, j) \/ (u = a /\ j = b)
    <2>1. 1 .. i = (1 .. i - 1) \cup {i}
      OBVIOUS
    <2> QED
      BY <2>1 DEF Names
  <1> HIDE DEF a, b, e
  <1>6. IsPutEdge(ws, a, b, e, xs)
    BY <1>1, <1>3, <1>4, EdgeChanged
  <1>7. ASSUME NEW u \in 1 .. Len(vs), NEW j \in 1 .. Len(vs[u])
        PROVE  xs[u][j] = IF Names(row, i, u, j) THEN WithTo(vs[u][j], gone) ELSE vs[u][j]
    <2>1. j \in 1 .. Len(ws[u]) /\ u \in 1 .. Len(ws)
          /\ ws[u][j] = IF Names(row, i - 1, u, j) THEN WithTo(vs[u][j], gone) ELSE vs[u][j]
      BY DEF Telling
    <2>2. CASE u = a /\ j = b
      BY <1>3, <1>5, <1>6, <2>2, Zenon DEF IsPutEdge
    <2>3. CASE ~(u = a /\ j = b)
      <3>1. xs[u][j] = ws[u][j]
        BY <1>6, <2>1, <2>3, Zenon DEF IsPutEdge
      <3> QED
        BY <1>5, <2>1, <2>3, <3>1
    <2> QED
      BY <2>2, <2>3
  <1> QED
    BY <1>6, <1>7, Zenon DEF IsPutEdge, Telling

Reaches(vs, row) ==
    \A i \in 1 .. Len(row) : row[i].to \in 1 .. Len(vs) /\ row[i].rev \in 1 .. Len(vs[row[i].to])

\* All neighbours of the moved vertex are told its new index.
LEMMA TellLoopTells ==
    ASSUME NEW G \in Objects, NEW row \in Row, Reaches(G.vs, row), NEW gone \in Nat
    PROVE  LET H == TellLoop(gone, G, row)
           IN  H \in Objects /\ Untouched(G, H) /\ Telling(G.vs, row, gone, Len(row), H.vs)
  <1> DEFINE n == Len(row)
  <1>1. n \in Nat /\ DOMAIN row = 1 .. n
    BY DEF Row
  <1>2. PICK r : IsRun(r, "Tell", <<gone>>, G, row) /\ TellLoop(gone, G, row) = r[n]
    BY <1>1, TellRuns
  <1>3. r[0] = G /\ \A i \in 1 .. n : r[i] = TellPass(r[i - 1], gone, row[i])
    BY <1>2 DEF IsRun, Pass
  <1> DEFINE Told1(i) == r[i] \in Objects /\ Untouched(G, r[i]) /\ Telling(G.vs, row, gone, i, r[i].vs)
             T == {i \in 0 .. n : Told1(i)}
  <1>4. 0 \in T
    <2>1. \A u, j : ~ Names(row, 0, u, j)
      BY DEF Names
    <2>2. Untouched(G, G) /\ G.vs \in Adj
      BY ObjectFacts DEF Untouched
    <2> QED
      BY <1>1, <1>3, <2>1, <2>2 DEF Telling
  <1>5. ASSUME NEW i \in 1 .. n, i - 1 \in T
        PROVE  i \in T
    <2> DEFINE H == r[i - 1]
               a == row[i].to
               b == row[i].rev
               xs == PutEdge(H.vs, a, b, WithTo(H.vs[a][b], gone))
    <2>1. H \in Objects /\ Untouched(G, H) /\ Telling(G.vs, row, gone, i - 1, H.vs)
      BY <1>5
    <2>2. G.vs \in Adj /\ i \in Nat \ {0} /\ a \in 1 .. Len(G.vs) /\ b \in 1 .. Len(G.vs[a])
      BY <1>1, ObjectFacts DEF Reaches
    <2>3. r[i] = TellPass(H, gone, row[i])
      BY <1>3
    <2> HIDE DEF H
    <2>4. Telling(G.vs, row, gone, i, xs)
      BY <2>1, <2>2, TellStep, Zenon
    <2>5. xs \in Adj
      BY <2>4, Zenon DEF Telling
    <2>6. H.vs \in Adj /\ a \in 1 .. Len(H.vs)
      BY <2>1, <2>2, ObjectFacts DEF Telling
    <2>7. r[i] = [H EXCEPT !.vs = xs]
      BY <2>1, <2>3 DEF TellPass, PutEdge, PutRow, WithTo, Objects
    <2> HIDE DEF xs
    <2>8. r[i] \in Objects /\ Untouched(H, r[i]) /\ r[i].vs = xs
      BY <2>1, <2>5, <2>7, WithVs
    <2>9. Untouched(G, r[i])
      BY <2>1, <2>8 DEF Untouched
    <2> QED
      BY <2>4, <2>8, <2>9
  <1> HIDE DEF T
  <1>6. \A i \in 0 .. n : i \in T
    BY <1>1, <1>4, <1>5, UpTo, Zenon
  <1>7. n \in T
    BY <1>1, <1>6
  <1> QED
    BY <1>2, <1>7 DEF T

\* The vertex that has index u afterwards.
Source(k, gone, u) == IF u = gone THEN k ELSE u
Moved(vs, A, gone, ws) ==
    LET k == Len(vs)
    IN  /\ ws \in Adj /\ Len(ws) = k - 1
        /\ \A u \in 1 .. k - 1 : Len(ws[u]) = Len(vs[Source(k, gone, u)])
        /\ \A u \in 1 .. k - 1 : \A j \in 1 .. Len(vs[Source(k, gone, u)]) :
              LET e == vs[Source(k, gone, u)][j]
              IN  /\ ws[u][j].w = e.w /\ ws[u][j].rev = e.rev
                  /\ ws[u][j].to = IF u # gone /\ j \in A[u] /\ e.to = k THEN gone ELSE e.to

MovedSet(n, A, k, gone) == [u \in 1 .. n |-> A[Source(k, gone, u)]]

\* The pairs when the last vertex has taken the index gone.
LEMMA MovedPaired ==
    ASSUME NEW vs \in Adj, NEW A, Paired(vs, A), NEW k, k = Len(vs), NEW gone \in 1 .. k,
           A[gone] = {}, NEW ws, Moved(vs, A, gone, ws), NEW B, B = MovedSet(k - 1, A, k, gone)
    PROVE  Paired(ws, B)
  <1> DEFINE S(u) == Source(k, gone, u)
  <1>1. k \in Nat \ {0} /\ Len(ws) = k - 1 /\ ws \in Adj
    BY DEF Moved, Adj
  <1>2. \A u \in 1 .. k - 1 : S(u) \in 1 .. k /\ S(u) # gone /\ B[u] = A[S(u)]
    BY <1>1 DEF Source, MovedSet
  <1>3. B \in [1 .. Len(ws) -> SUBSET Nat]
    BY <1>1, <1>2 DEF Paired, MovedSet
  <1>4. \A u \in 1 .. k - 1 : B[u] \subseteq 1 .. Len(ws[u])
    BY <1>1, <1>2 DEF Paired, Moved
  <1>5. ASSUME NEW u \in 1 .. k - 1, NEW i \in B[u]
        PROVE  Mate(ws, B, u, i, ws[u][i].to, ws[u][i].rev)
    <2> DEFINE s == S(u)
               t == vs[s][i].to
               r == vs[s][i].rev
               p == ws[u][i].to
    <2>1. s \in 1 .. k /\ s # gone /\ i \in A[s] /\ (u # gone => s = u)
      BY <1>2, <1>5 DEF Source
    <2>2. Mated(vs, A, s, i, t, r)
      BY <2>1, MateFacts
    <2>3. /\ t \in 1 .. k /\ t # s /\ r \in A[t] /\ r \in 1 .. Len(vs[t]) /\ i \in 1 .. Len(vs[s])
          /\ vs[t][r].to = s /\ vs[t][r].w = vs[s][i].w /\ vs[t][r].rev = i
          /\ \A j \in A[s] : vs[s][j].to = t => j = i
      BY <2>2, Zenon DEF Mated
    <2>4. t # gone
      BY <2>3
    <2>5. /\ ws[u][i].w = vs[s][i].w /\ ws[u][i].rev = r
          /\ p = IF t = k THEN gone ELSE t
      <3>1. /\ ws[u][i].w = vs[s][i].w /\ ws[u][i].rev = r
            /\ p = IF u # gone /\ i \in A[u] /\ t = k THEN gone ELSE t
        BY <2>3, Zenon DEF Moved
      <3>2. u = gone => s = k
        BY DEF Source
      <3> QED
        BY <2>1, <2>3, <3>1, <3>2
    <2>6. p \in 1 .. k - 1 /\ S(p) = t /\ p # u /\ (p # gone => p = t)
      <3>1. CASE t = k
        <4>1. p = gone /\ S(p) = k
          BY <2>5, <3>1 DEF Source
        <4>2. gone # k
          BY <2>4, <3>1
        <4>3. u # gone
          BY <2>3, <3>1 DEF Source
        <4> HIDE DEF S, p, t, s, r
        <4> QED
          BY <1>1, <3>1, <4>1, <4>2, <4>3
      <3>2. CASE t # k
        <4>1. p = t /\ S(p) = t
          BY <2>4, <2>5, <3>2 DEF Source
        <4>2. t # u
          BY <2>1, <2>3, <2>4
        <4> HIDE DEF S, p, t, s, r
        <4> QED
          BY <1>1, <2>3, <3>2, <4>1, <4>2
      <3> QED
        BY <3>1, <3>2
    <2>7. r \in B[p]
      BY <1>2, <2>3, <2>6, Zenon
    <2>8. ws[p][r].to = u /\ ws[p][r].w = ws[u][i].w /\ ws[p][r].rev = i
      <3>1. /\ ws[p][r].w = vs[t][r].w /\ ws[p][r].rev = vs[t][r].rev
            /\ ws[p][r].to = IF p # gone /\ r \in A[p] /\ vs[t][r].to = k THEN gone ELSE vs[t][r].to
        <4> HIDE DEF p, r, t, s
        <4>1. \A x \in 1 .. k - 1 : S(x) = t =>
                 /\ ws[x][r].w = vs[t][r].w /\ ws[x][r].rev = vs[t][r].rev
                 /\ ws[x][r].to = IF x # gone /\ r \in A[x] /\ vs[t][r].to = k THEN gone ELSE vs[t][r].to
          <5> SUFFICES ASSUME NEW x \in 1 .. k - 1, S(x) = t
                       PROVE  LET e == vs[S(x)][r]
                              IN  /\ ws[x][r].w = e.w /\ ws[x][r].rev = e.rev
                                  /\ ws[x][r].to = IF x # gone /\ r \in A[x] /\ e.to = k
                                                  THEN gone ELSE e.to
            OBVIOUS
          <5>1. r \in 1 .. Len(vs[S(x)])
            BY <2>3
          <5> QED
            BY <5>1, Zenon DEF Moved
        <4> QED
          BY <2>6, <4>1
      <3>2. ws[p][r].to = u
        <4>1. CASE u = gone
          <5>1. s = k /\ p # gone /\ p = t
            BY <2>6, <4>1 DEF Source
          <5> QED
            BY <2>3, <3>1, <4>1, <5>1
        <4>2. CASE u # gone
          <5>1. s = u /\ s # k
            BY <1>1, <2>1, <4>2
          <5> QED
            BY <2>3, <3>1, <5>1, Zenon
        <4> QED
          BY <4>1, <4>2, Zenon
      <3> QED
        BY <2>3, <2>5, <3>1, <3>2, Zenon
    <2>9. ASSUME NEW j \in B[u], ws[u][j].to = p
          PROVE  j = i
      <3>1. j \in A[s] /\ j \in 1 .. Len(vs[s])
        BY <1>2, <2>1, <2>9 DEF Paired
      <3>2. vs[s][j].to # gone
        <4>1. Mated(vs, A, s, j, vs[s][j].to, vs[s][j].rev)
          BY <2>1, <3>1, MateFacts
        <4> QED
          BY <4>1, Zenon DEF Mated
      <3>3. ws[u][j].to = IF u # gone /\ j \in A[u] /\ vs[s][j].to = k THEN gone ELSE vs[s][j].to
        BY <3>1 DEF Moved
      <3>4. vs[s][j].to = t
        <4>1. CASE t = k
          <5>1. p = gone
            BY <2>5, <4>1
          <5> QED
            BY <2>9, <3>2, <3>3, <4>1, <5>1, Zenon
        <4>2. CASE t # k
          <5>1. p = t
            BY <2>5, <4>2
          <5> QED
            BY <2>4, <2>9, <3>3, <5>1, Zenon
        <4> QED
          BY <4>1, <4>2
      <3> QED
        BY <2>3, <3>1, <3>4
    <2> HIDE DEF S, t, r, p, s
    <2>10. ws[u][i].rev = r /\ ws[u][i].to = p
      BY <2>5 DEF p
    <2>11. Mate(ws, B, u, i, p, r)
      BY <1>1, <2>6, <2>7, <2>8, <2>9 DEF Mate
    <2> QED
      BY <2>10, <2>11
  <1> HIDE DEF S
  <1> QED
    BY <1>1, <1>3, <1>4, <1>5 DEF Paired

\* The counts of the vertices that remain.
MovedSum(c, d, k, gone) == Sum(d, 1 .. k - 1) = Sum(c, 1 .. k) - c[gone]

\* A sum over the vertices when the last takes an index whose summand goes.
LEMMA SumMoved ==
    ASSUME NEW k \in Nat \ {0}, NEW c \in [1 .. k -> Int], NEW gone \in 1 .. k,
           NEW d, d = MovedSet(k - 1, c, k, gone)
    PROVE  MovedSum(c, d, k, gone) /\ d \in [1 .. k - 1 -> Int]
  <1> DEFINE N == 1 .. k - 1
  <1>1. IsFiniteSet(N)
    BY FS_Interval
  <1>2. 1 .. k = N \cup {k} /\ k \notin N
    OBVIOUS
  <1>3. d \in [N -> Int] /\ \A u \in N : d[u] = c[Source(k, gone, u)]
    BY <1>2 DEF MovedSet, Source
  <1>4. \A u \in N : c[u] \in Int /\ d[u] \in Int
    BY <1>2, <1>3
  <1>5. c[k] \in Int /\ c[gone] \in Int
    BY <1>2
  <1> HIDE DEF N
  <1>6. Sum(c, N \cup {k}) = c[k] + Sum(c, N)
    BY <1>1, <1>2, <1>4, <1>5, SumInsert
  <1>7. Sum(c, N) \in Int
    BY <1>1, <1>4, SumInt
  <1>8. gone = k => Sum(d, N) = Sum(c, N \cup {k}) - c[gone]
    <2> HAVE gone = k
    <2>1. \A u \in N : d[u] = c[u]
      BY <1>2, <1>3 DEF Source
    <2>2. Sum(d, N) = Sum(c, N)
      BY <1>1, <2>1, SumSame
    <2> QED
      BY <1>5, <1>6, <1>7, <2>2
  <1>9. gone # k => Sum(d, N) = Sum(c, N \cup {k}) - c[gone]
    <2> HAVE gone # k
    <2>1. gone \in N
      BY <1>2
    <2>2. \A u \in N \ {gone} : c[u] = d[u]
      BY <1>3 DEF Source
    <2>3. d[gone] = c[k]
      BY <1>3, <2>1 DEF Source
    <2>4. Sum(d, N) = Sum(c, N) + d[gone] - c[gone]
      <3>1. Differs(c, d, N, gone)
        BY <1>1, <1>4, <2>1, <2>2, SumDiffers, Zenon
      <3> QED
        BY <3>1 DEF Differs
    <2> QED
      BY <1>5, <1>6, <1>7, <2>3, <2>4
  <1> QED
    BY <1>2, <1>3, <1>8, <1>9, Zenon DEF MovedSum, N

IsCut(vs, k, gone, cut) ==
    /\ cut \in Adj /\ Len(cut) = k - 1
    /\ \A u \in 1 .. k - 1 : cut[u] = vs[Source(k, gone, u)]

\* The last row takes the place of row gone.
LEMMA FilledMoved ==
    ASSUME NEW vs \in Adj, NEW k \in Nat \ {0}, k = Len(vs), NEW gone \in 1 .. k
    PROVE  IsCut(vs, k, gone, Filled(vs, gone, vs[k]))
  <1> DEFINE e == vs[k]
             cut == Filled(vs, gone, e)
  <1>1. vs \in Seq(Row) /\ e \in Row /\ gone \in 1 .. Len(vs)
    BY DEF Adj
  <1> HIDE DEF e
  <1>2. FilledIs(Row, vs, gone, e, cut)
    BY <1>1, FilledSeq
  <1> HIDE DEF cut
  <1>3. IsCut(vs, k, gone, cut)
    BY <1>2 DEF Adj, Source, IsCut, FilledIs, e
  <1> QED
    BY <1>3 DEF cut, e

\* Nothing leads to the last vertex when it is the one to be removed.
LEMMA CutMoved ==
    ASSUME NEW vs \in Adj, NEW A, Paired(vs, A), NEW k \in Nat \ {0}, k = Len(vs), A[k] = {}
    PROVE  Moved(vs, A, k, Filled(vs, k, vs[k]))
  <1> DEFINE ws == Filled(vs, k, vs[k])
  <1>1. IsCut(vs, k, k, ws)
    BY FilledMoved
  <1>2. /\ ws \in Adj /\ Len(ws) = k - 1
        /\ \A u \in 1 .. k - 1 : Source(k, k, u) = u /\ ws[u] = vs[u]
    <2> HIDE DEF ws
    <2> QED
      BY <1>1 DEF IsCut, Source
  <1>3. ASSUME NEW u \in 1 .. k - 1, NEW j \in A[u]
        PROVE  vs[u][j].to # k
    <2>0. u \in 1 .. Len(vs)
      OBVIOUS
    <2>1. Mated(vs, A, u, j, vs[u][j].to, vs[u][j].rev)
      BY <2>0, MateFacts
    <2> QED
      BY <2>1 DEF Mated
  <1> HIDE DEF ws
  <1>4. Moved(vs, A, k, ws)
    BY <1>2, <1>3, Zenon DEF Moved
  <1> QED
    BY <1>4 DEF ws

\* When its neighbours are told, the last vertex has moved to gone.
LEMMA TellMoved ==
    ASSUME NEW vs \in Adj, NEW A, Paired(vs, A), NEW k \in Nat \ {0}, k = Len(vs),
           NEW gone \in 1 .. k, gone # k, A[gone] = {}, A[k] = 1 .. Len(vs[k]),
           NEW cut, cut = Filled(vs, gone, vs[k])
    PROVE  /\ Reaches(cut, vs[k])
           /\ \A ws : Telling(cut, vs[k], gone, Len(vs[k]), ws) => Moved(vs, A, gone, ws)
  <1> DEFINE row == vs[k]
             L == Len(row)
             S(u) == Source(k, gone, u)
  <1>0. IsCut(vs, k, gone, cut)
    BY FilledMoved
  <1>1. cut \in Adj /\ Len(cut) = k - 1 /\ \A u \in 1 .. k - 1 : cut[u] = vs[S(u)]
    BY <1>0 DEF IsCut
  <1>2. ASSUME NEW x \in 1 .. L
        PROVE  /\ row[x].to \in 1 .. k - 1 /\ row[x].to # gone /\ row[x].rev \in A[row[x].to]
               /\ row[x].rev \in 1 .. Len(vs[row[x].to]) /\ vs[row[x].to][row[x].rev].to = k
    <2> DEFINE t == row[x].to
               r == row[x].rev
    <2>0. k \in 1 .. Len(vs) /\ x \in A[k]
      OBVIOUS
    <2>1. Mated(vs, A, k, x, t, r)
      BY <2>0, MateFacts
    <2> HIDE DEF t, r
    <2>2. t \in 1 .. k /\ t # k /\ r \in A[t] /\ r \in 1 .. Len(vs[t]) /\ vs[t][r].to = k
      BY <2>1 DEF Mated
    <2>3. t \in 1 .. k - 1 /\ t # gone
      BY <2>2
    <2> QED
      BY <2>2, <2>3 DEF t, r
  <1>3. \A u \in 1 .. k - 1 : u # gone => cut[u] = vs[u]
    BY <1>1 DEF Source
  <1> HIDE DEF S
  <1>4. Reaches(cut, row)
    BY <1>1, <1>2, <1>3, Zenon DEF Reaches
  <1>5. ASSUME NEW u \in 1 .. k - 1, NEW j \in 1 .. Len(cut[u])
        PROVE  Names(row, L, u, j) <=> u # gone /\ j \in A[u] /\ cut[u][j].to = k
    <2>1. ASSUME Names(row, L, u, j)
          PROVE  u # gone /\ j \in A[u] /\ cut[u][j].to = k
      <3>1. PICK x \in 1 .. L : row[x].to = u /\ row[x].rev = j
        BY <2>1 DEF Names
      <3>2. u # gone /\ j \in A[u] /\ vs[u][j].to = k
        BY <1>2, <3>1, Zenon
      <3> QED
        BY <1>3, <3>2
    <2>2. ASSUME u # gone, j \in A[u], cut[u][j].to = k
          PROVE  Names(row, L, u, j)
      <3>0. u \in 1 .. Len(vs) /\ vs[u][j].to = k
        BY <1>1, <1>3, <2>2
      <3>1. Mated(vs, A, u, j, vs[u][j].to, vs[u][j].rev)
        BY <2>2, <3>0, MateFacts
      <3> DEFINE x == vs[u][j].rev
      <3>2. Mated(vs, A, u, j, k, x)
        BY <3>0, <3>1
      <3> HIDE DEF x
      <3>3. x \in 1 .. L /\ row[x].to = u /\ row[x].rev = j
        BY <3>2 DEF Mated
      <3> QED
        BY <3>3, Zenon DEF Names
    <2> QED
      BY <2>1, <2>2
  <1>6. ASSUME NEW ws, Telling(cut, row, gone, L, ws)
        PROVE  Moved(vs, A, gone, ws)
    <2>1. /\ ws \in Adj /\ Len(ws) = k - 1
          /\ \A u \in 1 .. k - 1 : Len(ws[u]) = Len(vs[S(u)])
      BY <1>1, <1>6 DEF Telling
    <2>2. ASSUME NEW u \in 1 .. k - 1, NEW j \in 1 .. Len(vs[S(u)])
          PROVE  LET e == vs[S(u)][j]
                 IN  /\ ws[u][j].w = e.w /\ ws[u][j].rev = e.rev
                     /\ ws[u][j].to = IF u # gone /\ j \in A[u] /\ e.to = k THEN gone ELSE e.to
      <3> DEFINE e == vs[S(u)][j]
      <3>1. cut[u] = vs[S(u)] /\ j \in 1 .. Len(cut[u]) /\ u \in 1 .. Len(cut)
        BY <1>1 DEF S
      <3>6. gone \in Nat
        OBVIOUS
      <3>2. e \in Edge
        BY <1>1, <3>1, RowFacts, Zenon
      <3>3. ws[u][j] = IF Names(row, L, u, j) THEN WithTo(e, gone) ELSE e
        BY <1>6, <3>1 DEF Telling
      <3>4. Names(row, L, u, j) <=> u # gone /\ j \in A[u] /\ e.to = k
        <4>1. Names(row, L, u, j) <=> u # gone /\ j \in A[u] /\ cut[u][j].to = k
          BY <1>5, <3>1, Zenon
        <4>2. cut[u][j] = e
          BY <3>1
        <4> QED
          BY <4>1, <4>2
      <3>5. WithTo(e, gone).to = gone /\ WithTo(e, gone).w = e.w /\ WithTo(e, gone).rev = e.rev
        BY <3>2, <3>6, WithToFacts, Zenon
      <3> HIDE DEF e
      <3> QED
        BY <3>3, <3>4, <3>5 DEF e
    <2> QED
      <3>1. k - 1 = Len(vs) - 1
        OBVIOUS
      <3> HIDE DEF row, L
      <3> QED
        BY <2>1, <2>2, <3>1 DEF Moved, S
  <1> QED
    BY <1>4, <1>6

-----------------------------------------------------------------------------
LastTaken(G, gone) ==
    [G EXCEPT !.vs = Filled(G.vs, gone, G.vs[Len(G.vs)]),
              !.deg = Filled(G.deg, gone, G.deg[Len(G.vs)]), !.last = @ - 1]

\* The two cases of the move: the vertex that goes is the last, or it is not.
LEMMA MoveLastIs ==
    ASSUME NEW G, NEW gone
    PROVE  MoveLast(G, gone) =
              IF gone = Len(G.vs) THEN LastTaken(G, gone)
              ELSE TellLoop(gone, LastTaken(G, gone), LastTaken(G, gone).vs[gone])
  BY DEF MoveLast, TellLoop, TellPass, LastTaken, Filled

IsMoved(G, A, gone, H) ==
    /\ H \in Objects /\ H.m = G.m /\ H.last = G.last - 1 /\ H.cont = G.cont /\ H.pos = G.pos
    /\ H.deg = Filled(G.deg, gone, G.deg[Len(G.vs)]) /\ Moved(G.vs, A, gone, H.vs)

\* The object after the last vertex has taken the index gone.
LEMMA MoveLastMoves ==
    ASSUME NEW G \in Objects, NEW A, Paired(G.vs, A), Len(G.deg) = Len(G.vs),
           NEW gone \in 1 .. Len(G.vs), A[gone] = {},
           gone # Len(G.vs) => A[Len(G.vs)] = 1 .. Len(G.vs[Len(G.vs)])
    PROVE  IsMoved(G, A, gone, MoveLast(G, gone))
  <1> DEFINE k == Len(G.vs)
             cut == Filled(G.vs, gone, G.vs[k])
             deg == Filled(G.deg, gone, G.deg[k])
             M == LastTaken(G, gone)
  <1>1. k \in Nat \ {0} /\ G.vs \in Adj /\ G.vs[k] \in Row
    BY ObjectFacts, RowFacts
  <1>0. IsCut(G.vs, k, gone, cut)
    BY <1>1, FilledMoved
  <1>2. cut \in Adj /\ Len(cut) = k - 1 /\ \A u \in 1 .. k - 1 : cut[u] = G.vs[Source(k, gone, u)]
    BY <1>0 DEF IsCut
  <1>3. deg \in Seq(Int)
    <2>1. G.deg \in Seq(Int) /\ G.deg[k] \in Int /\ gone \in 1 .. Len(G.deg)
      BY <1>1, ObjectFacts
    <2> QED
      BY <2>1, FilledFacts, Zenon
  <1> HIDE DEF cut, deg
  <1>4. /\ M \in Objects /\ M.vs = cut /\ M.deg = deg /\ M.m = G.m /\ M.last = G.last - 1
        /\ M.cont = G.cont /\ M.pos = G.pos
    <2>1. M = [G EXCEPT !.vs = cut, !.deg = deg, !.last = @ - 1]
      BY DEF LastTaken, cut, deg
    <2> HIDE DEF M
    <2>2. /\ M.vs = cut /\ M.deg = deg /\ M.m = G.m /\ M.last = G.last - 1
          /\ M.cont = G.cont /\ M.pos = G.pos
      BY <2>1 DEF Objects
    <2>3. M \in Objects
      <3>1. G.last - 1 \in Int
        BY ObjectFacts
      <3> DEFINE p == G.last - 1
      <3>2. M = [G EXCEPT !.vs = cut, !.deg = deg, !.last = p]
        BY <2>1
      <3> HIDE DEF p
      <3> QED
        BY <1>2, <1>3, <3>1, <3>2, Zenon DEF Objects, p
    <2> QED
      BY <2>2, <2>3
  <1> HIDE DEF M
  <1>5. CASE gone = k
    <2>1. MoveLast(G, gone) = M
      BY <1>5, MoveLastIs DEF M
    <2>2. Moved(G.vs, A, gone, cut)
      BY <1>1, <1>5, CutMoved DEF cut
    <2> QED
      BY <1>4, <2>1, <2>2 DEF IsMoved, deg
  <1>6. CASE gone # k
    <2> DEFINE row == G.vs[k]
               R == TellLoop(gone, M, row)
    <2>1. M.vs[gone] = row
      BY <1>1, <1>2, <1>4, <1>6 DEF Source
    <2>2. MoveLast(G, gone) = R
      BY <1>6, <2>1, MoveLastIs DEF M
    <2>3. /\ Reaches(cut, row)
          /\ \A ws : Telling(cut, row, gone, Len(row), ws) => Moved(G.vs, A, gone, ws)
      BY <1>1, <1>6, TellMoved DEF cut
    <2>4. R \in Objects /\ Untouched(M, R) /\ Telling(M.vs, row, gone, Len(row), R.vs)
      BY <1>1, <1>4, <2>3, TellLoopTells
    <2> HIDE DEF R
    <2> QED
      BY <1>4, <2>2, <2>3, <2>4 DEF IsMoved, Untouched, deg
  <1> QED
    BY <1>5, <1>6

\* A vertex without live edges is removed.
Departed(G, A, c, D, X, a, gone, H, B, d) ==
    /\ Live(H, B, d, D \ {gone}, X \ {gone}, a + c[gone])
    /\ Len(H.vs) = Len(G.vs) - 1 /\ H.last = G.last - 1 /\ H.cont = G.cont /\ H.pos = G.pos
    /\ B = MovedSet(Len(G.vs) - 1, A, Len(G.vs), gone)
    /\ d = MovedSet(Len(G.vs) - 1, c, Len(G.vs), gone)
    /\ Moved(G.vs, A, gone, H.vs)

\* A vertex none of whose edges counts is removed, and the last takes its index.
LEMMA MoveLastStep ==
    ASSUME NEW G, NEW A, NEW c, NEW D, NEW X, NEW a \in Int, Live(G, A, c, D, X, a),
           NEW gone \in 1 .. Len(G.vs), A[gone] = {},
           gone # Len(G.vs) => Len(G.vs) \notin X \cup D,
           NEW H, H = MoveLast(G, gone)
    PROVE  \E B, d : Departed(G, A, c, D, X, a, gone, H, B, d)
  <1> DEFINE k == Len(G.vs)
             B == MovedSet(k - 1, A, k, gone)
             d == MovedSet(k - 1, c, k, gone)
             S(u) == Source(k, gone, u)
  <1>1. /\ G \in Objects /\ Paired(G.vs, A) /\ Len(G.deg) = k /\ c \in [1 .. k -> Int]
        /\ G.m = Sum(c, 1 .. k) + a
        /\ \A u \in 1 .. k : u \notin X => A[u] = 1 .. Len(G.vs[u])
        /\ \A u \in 1 .. k : u \notin D => c[u] = Len(G.vs[u]) /\ G.deg[u] = RowSum(G.vs[u])
    BY DEF Live
  <1>2. k \in Nat \ {0} /\ G.vs \in Adj /\ G.deg \in Seq(Int) /\ k \in 1 .. k
    BY <1>1, ObjectFacts
  <1>3. IsMoved(G, A, gone, H)
    BY <1>1, <1>2, MoveLastMoves, Zenon
  <1>4. /\ H \in Objects /\ H.m = G.m /\ H.last = G.last - 1 /\ H.cont = G.cont /\ H.pos = G.pos
        /\ H.deg = Filled(G.deg, gone, G.deg[k]) /\ Moved(G.vs, A, gone, H.vs)
    BY <1>3 DEF IsMoved
  <1>5. H.vs \in Adj /\ Len(H.vs) = k - 1 /\ \A u \in 1 .. k - 1 : Len(H.vs[u]) = Len(G.vs[S(u)])
    BY <1>4 DEF Moved
  <1>6. Paired(H.vs, B)
    BY <1>1, <1>2, <1>4, MovedPaired, Zenon
  <1>7. MovedSum(c, d, k, gone) /\ d \in [1 .. k - 1 -> Int]
    BY <1>1, <1>2, SumMoved, Zenon
  <1>8. H.m = Sum(d, 1 .. k - 1) + (a + c[gone])
    <2>1. Sum(d, 1 .. k - 1) = Sum(c, 1 .. k) - c[gone] /\ c[gone] \in Int
      BY <1>1, <1>7 DEF MovedSum
    <2>2. Sum(c, 1 .. k) \in Int
      <3>1. IsFiniteSet(1 .. k)
        BY <1>2, FS_Interval
      <3>2. \A u \in 1 .. k : c[u] \in Int
        BY <1>1
      <3> QED
        BY <3>1, <3>2, SumInt
    <2> HIDE DEF k, d
    <2> QED
      BY <1>1, <1>4, <2>1, <2>2
  <1>9. /\ Len(H.deg) = k - 1
        /\ \A u \in 1 .. k - 1 : H.deg[u] = G.deg[S(u)]
    <2>1. G.deg[k] \in Int /\ gone \in 1 .. Len(G.deg)
      BY <1>1, <1>2
    <2>2. FilledIs(Int, G.deg, gone, G.deg[k], H.deg)
      BY <1>2, <1>4, <2>1, FilledSeq
    <2> QED
      BY <1>1, <2>2 DEF Source, FilledIs
  <1>10. \A u \in 1 .. k - 1 : S(u) \in 1 .. k /\ B[u] = A[S(u)] /\ d[u] = c[S(u)]
    BY <1>2 DEF Source, MovedSet
  <1>11. \A u \in 1 .. k - 1 : /\ u \notin X \ {gone} => S(u) \notin X
                               /\ u \notin D \ {gone} => S(u) \notin D
    BY <1>2 DEF Source
  <1>12. \A u \in 1 .. k - 1 : u \notin X \ {gone} => B[u] = 1 .. Len(H.vs[u])
    <2> SUFFICES ASSUME NEW u \in 1 .. k - 1, u \notin X \ {gone}
                 PROVE  B[u] = 1 .. Len(H.vs[u])
      OBVIOUS
    <2> HIDE DEF B, d, S, k
    <2>1. S(u) \in 1 .. k /\ S(u) \notin X /\ B[u] = A[S(u)]
      BY <1>10, <1>11
    <2> QED
      BY <1>1, <1>5, <2>1, Zenon
  <1>13. ASSUME NEW u \in 1 .. k - 1
         PROVE  RowSum(H.vs[u]) = RowSum(G.vs[S(u)])
    <2>1. G.vs[S(u)] \in Row /\ H.vs[u] \in Row
      BY <1>2, <1>5, <1>10, RowFacts, Zenon
    <2>2. Len(H.vs[u]) = Len(G.vs[S(u)]) /\ \A j \in 1 .. Len(G.vs[S(u)]) : G.vs[S(u)][j].w = H.vs[u][j].w
      BY <1>4, <1>5 DEF Moved
    <2> QED
      BY <2>1, <2>2, RowSumSame, Zenon
  <1>14. \A u \in 1 .. k - 1 : u \notin D \ {gone} => d[u] = Len(H.vs[u]) /\ H.deg[u] = RowSum(H.vs[u])
    <2> SUFFICES ASSUME NEW u \in 1 .. k - 1, u \notin D \ {gone}
                 PROVE  d[u] = Len(H.vs[u]) /\ H.deg[u] = RowSum(H.vs[u])
      OBVIOUS
    <2> HIDE DEF B, d, S, k
    <2>1. S(u) \in 1 .. k /\ S(u) \notin D /\ d[u] = c[S(u)]
      BY <1>10, <1>11
    <2>2. c[S(u)] = Len(G.vs[S(u)]) /\ G.deg[S(u)] = RowSum(G.vs[S(u)])
      BY <1>1, <2>1
    <2> QED
      BY <1>5, <1>9, <1>13, <2>1, <2>2
  <1> HIDE DEF B, d, S
  <1>15. Live(H, B, d, D \ {gone}, X \ {gone}, a + c[gone])
    BY <1>4, <1>5, <1>6, <1>7, <1>8, <1>9, <1>12, <1>14 DEF Live
  <1> QED
    BY <1>4, <1>5, <1>15 DEF Departed, B, d

\* The edge between the merged vertices, which is no longer live, is deleted.
Mended(G, A, c, D, X, a, v, H, B, d) ==
    /\ Live(H, B, d, D, X \ {v}, a - 1) /\ SameNames(G, H)
    /\ \A u \in 1 .. Len(G.vs) : u # v => B[u] = A[u] /\ d[u] = c[u]

\* Deleting the edge v kept to the merged vertex leaves every edge of v live.
LEMMA HoleStep ==
    ASSUME NEW G, NEW A, NEW c, NEW D, NEW X, NEW a \in Int, Live(G, A, c, D, X, a),
           NEW v \in 1 .. Len(G.vs), v \notin D, NEW i \in 1 .. Len(G.vs[v]),
           A[v] = (1 .. Len(G.vs[v])) \ {i}, NEW w, w = G.vs[v][i].w,
           NEW H, H = EdgeGone(G, v, i, w)
    PROVE  \E B, d : Mended(G, A, c, D, X, a, v, H, B, d)
  <1> DEFINE n == Len(G.vs)
             L == Len(G.vs[v])
             ws == WithoutEdge(G.vs, v, i)
             deg == Spent(G.deg, v, w)
             B == [A EXCEPT ![v] = 1 .. L - 1]
             d == [c EXCEPT ![v] = @ - 1]
  <1>1. /\ G \in Objects /\ Paired(G.vs, A) /\ Len(G.deg) = n /\ c \in [1 .. n -> Int]
        /\ G.m = Sum(c, 1 .. n) + a
        /\ \A u \in 1 .. n : u \notin X => A[u] = 1 .. Len(G.vs[u])
        /\ \A u \in 1 .. n : u \notin D => c[u] = Len(G.vs[u]) /\ G.deg[u] = RowSum(G.vs[u])
    BY Zenon DEF Live
  <1>2. G.vs \in Adj /\ n \in Nat /\ G.deg \in Seq(Int) /\ G.m \in Int
    BY <1>1, ObjectFacts, Zenon
  <1>3. L \in Nat /\ i \in 1 .. L /\ G.vs[v][i] \in Edge /\ w \in Int
    BY <1>2, RowFacts DEF Edge
  <1>4. H = Put(G, ws, deg, G.m - 2)
    BY <1>1, EdgeSpentIs, Zenon DEF EdgeSpent
  <1>5. IsWithout(G.vs, v, i, ws) /\ Paired(ws, B)
    BY <1>1, <1>2, WithoutKeeps, Zenon
  <1>6. Lighter(G.vs, v, i, ws)
    BY <1>2, <1>5, WithoutSums, Zenon
  <1>7. IsSpent(G.deg, v, w, deg)
    BY <1>1, <1>2, <1>3, SpentFacts, Zenon
  <1> HIDE DEF ws, deg
  <1>8. ws \in Adj /\ deg \in Seq(Int) /\ Len(ws) = n /\ Len(deg) = n
    BY <1>1, <1>5, <1>7 DEF IsWithout, IsSpent
  <1>9. IsPut(G, ws, deg, G.m - 2, H)
    BY <1>1, <1>2, <1>4, <1>8, PutFacts
  <1>10. /\ Len(ws[v]) = L - 1 /\ B[v] = 1 .. L - 1 /\ d[v] = c[v] - 1 /\ deg[v] = RowSum(ws[v])
         /\ c[v] = L
    <2>1. deg[v] = G.deg[v] - w /\ G.deg[v] = RowSum(G.vs[v])
      BY <1>1, <1>7 DEF IsSpent
    <2>2. RowSum(ws[v]) = RowSum(G.vs[v]) - w
      BY <1>6 DEF Lighter
    <2> QED
      BY <1>1, <1>5, <2>1, <2>2 DEF IsWithout, Paired
  <1>11. ASSUME NEW u \in 1 .. n, u # v
         PROVE  /\ Len(ws[u]) = Len(G.vs[u]) /\ B[u] = A[u] /\ d[u] = c[u] /\ deg[u] = G.deg[u]
                /\ RowSum(ws[u]) = RowSum(G.vs[u])
    BY <1>1, <1>5, <1>6, <1>7, <1>11 DEF IsWithout, IsSpent, Lighter, Paired
  <1>12. d \in [1 .. n -> Int]
    BY <1>1
  <1>13. G.m - 2 = Sum(d, 1 .. n) + (a - 1)
    <2>1. IsFiniteSet(1 .. n)
      BY <1>2, FS_Interval
    <2>2. \A y \in 1 .. n : c[y] \in Int /\ d[y] \in Int
      BY <1>1, <1>12
    <2>3. \A y \in (1 .. n) \ {v} : c[y] = d[y]
      BY <1>11
    <2> HIDE DEF d
    <2>4. Differs(c, d, 1 .. n, v)
      BY <2>1, <2>2, <2>3, SumDiffers, Zenon
    <2>5. Sum(c, 1 .. n) \in Int
      BY <2>1, <2>2, SumInt
    <2>6. Sum(d, 1 .. n) = Sum(c, 1 .. n) + d[v] - c[v] /\ d[v] \in Int /\ c[v] \in Int
      BY <2>2, <2>4 DEF Differs
    <2> HIDE DEF n
    <2> QED
      BY <1>1, <1>2, <1>10, <2>5, <2>6
  <1> HIDE DEF B, d
  <1>14. \A u \in 1 .. n : u \notin X \ {v} => B[u] = 1 .. Len(ws[u])
    BY <1>1, <1>10, <1>11, Zenon
  <1>15. \A u \in 1 .. n : u \notin D => d[u] = Len(ws[u]) /\ deg[u] = RowSum(ws[u])
    BY <1>1, <1>10, <1>11, Zenon
  <1>16. /\ H \in Objects /\ H.vs = ws /\ H.deg = deg /\ H.m = G.m - 2
         /\ H.cont = G.cont /\ H.pos = G.pos /\ H.last = G.last
    BY <1>9 DEF IsPut
  <1>17. Live(H, B, d, D, X \ {v}, a - 1)
    BY <1>5, <1>8, <1>12, <1>13, <1>14, <1>15, <1>16, Zenon DEF Live
  <1>18. SameNames(G, H)
    BY <1>8, <1>16 DEF SameNames
  <1> QED
    BY <1>11, <1>17, <1>18 DEF Mended

-----------------------------------------------------------------------------
(* Names.                                                                    *)

\* The vertices of a set of names are overwritten.
LEMMA PlaceFacts ==
    ASSUME NEW G \in Objects, NEW S, NEW v \in Nat
    PROVE  /\ Place(G, S, v) \in Seq(Nat) /\ Len(Place(G, S, v)) = Len(G.pos)
           /\ \A x \in 1 .. Len(G.pos) : Place(G, S, v)[x] = IF x \in S THEN v ELSE G.pos[x]
  <1> DEFINE n == Len(G.pos)
             p == [x \in 1 .. n |-> IF x \in S THEN v ELSE G.pos[x]]
  <1>1. n \in Nat /\ \A x \in 1 .. n : G.pos[x] \in Nat
    BY DEF Objects
  <1>2. p \in Seq(Nat)
    BY <1>1, IsASeq
  <1>3. Len(p) = n
    BY <1>1, <1>2, LenProperties
  <1>4. Place(G, S, v) = SubSeq(p, 1, n)
    BY DEF Place, Sequence
  <1>5. SubSeq(p, 1, n) = p
    BY <1>1, <1>2, <1>3, SubSeqFull
  <1> QED
    BY <1>2, <1>3, <1>4, <1>5

FrontIs(X, s, t) == t \in Seq(X) /\ Len(t) = Len(s) - 1 /\ \A j \in 1 .. Len(s) - 1 : t[j] = s[j]

\* A sequence without its last element.
LEMMA FrontSeq ==
    ASSUME NEW X, NEW s \in Seq(X), Len(s) # 0
    PROVE  FrontIs(X, s, Front(s))
  BY LastFacts DEF FrontIs

Renamed(G, pos, cont) == [G EXCEPT !.pos = pos, !.cont = cont]
With(cont, v, S) == Front([cont EXCEPT ![v] = cont[v] \cup S])

Bereft(G, v, gone) ==
    [G EXCEPT !.pos = Place(G, G.cont[gone], v), !.cont[v] = @ \cup G.cont[gone], !.cont[gone] = {}]

\* Absorb: v gets the names of gone, and gone those of the last vertex.
LEMMA AbsorbIs ==
    ASSUME NEW G, NEW v, NEW gone, NEW n, n = Len(G.vs), NEW K, K = Bereft(G, v, gone)
    PROVE  Absorb(G, v, gone) = Renamed(K, Place(K, K.cont[n], gone), With(K.cont, gone, K.cont[n]))
  BY DEF Absorb, Renamed, With, Bereft

\* Who contains what while the names of gone go to v, and who is behind.
Gathered(G, v, gone, u) ==
    IF u = gone THEN {} ELSE IF u = v THEN G.cont[v] \cup G.cont[gone] ELSE G.cont[u]

Behind(G, v, gone) == Gathered(G, v, gone, Len(G.vs))
IsAbsorbed(G, v, gone, H) ==
    /\ H \in Objects /\ H.vs = G.vs /\ H.deg = G.deg /\ H.m = G.m /\ H.last = G.last
    /\ Len(H.pos) = Len(G.pos)
    /\ \A x \in 1 .. Len(G.pos) :
          H.pos[x] = IF x \in Behind(G, v, gone) THEN gone
                     ELSE IF x \in G.cont[gone] THEN v ELSE G.pos[x]
    /\ Len(H.cont) = Len(G.cont) - 1
    /\ \A u \in 1 .. Len(G.cont) - 1 :
          H.cont[u] = IF u = gone THEN Behind(G, v, gone) ELSE Gathered(G, v, gone, u)

\* The blocks and positions after Absorb.
LEMMA AbsorbFacts ==
    ASSUME NEW G \in Objects, NEW v \in 1 .. Len(G.vs), NEW gone \in 1 .. Len(G.vs), v # gone,
           Len(G.vs) <= Len(G.cont)
    PROVE  IsAbsorbed(G, v, gone, Absorb(G, v, gone))
  <1> DEFINE n == Len(G.vs)
             C == Len(G.cont)
             b == Behind(G, v, gone)
             pos == Place(G, G.cont[gone], v)
             cont == [[G.cont EXCEPT ![v] = @ \cup G.cont[gone]] EXCEPT ![gone] = {}]
             K == [G EXCEPT !.pos = pos, !.cont = cont]
             end == Place(K, b, gone)
             new == [cont EXCEPT ![gone] = cont[gone] \cup b]
             H == Absorb(G, v, gone)
  <1>1. n \in Nat /\ C \in Nat /\ v \in Nat /\ gone \in Nat /\ v \in 1 .. C /\ gone \in 1 .. C /\ n \in 1 .. C
    BY ObjectFacts
  <1>2. G.cont \in Seq(SUBSET Nat) /\ DOMAIN G.cont = 1 .. C
    BY ObjectFacts
  <1>3. \A u \in 1 .. C : G.cont[u] \in SUBSET Nat
    BY <1>2
  <1>4. /\ pos \in Seq(Nat) /\ Len(pos) = Len(G.pos)
        /\ \A x \in 1 .. Len(G.pos) : pos[x] = IF x \in G.cont[gone] THEN v ELSE G.pos[x]
    BY <1>1, PlaceFacts
  <1> HIDE DEF pos
  <1>5. /\ cont \in Seq(SUBSET Nat) /\ Len(cont) = C /\ DOMAIN cont = 1 .. C
        /\ \A u \in 1 .. C : cont[u] = Gathered(G, v, gone, u)
    <2> DEFINE mid == [G.cont EXCEPT ![v] = @ \cup G.cont[gone]]
    <2>1. G.cont[v] \cup G.cont[gone] \in SUBSET Nat
      BY <1>1, <1>3
    <2>2. /\ mid \in Seq(SUBSET Nat) /\ Len(mid) = C /\ DOMAIN mid = 1 .. C
          /\ \A u \in 1 .. C : mid[u] = IF u = v THEN G.cont[v] \cup G.cont[gone] ELSE G.cont[u]
      BY <1>1, <1>2, <2>1
    <2> HIDE DEF mid
    <2>3. cont = [mid EXCEPT ![gone] = {}]
      BY DEF mid
    <2>4. /\ cont \in Seq(SUBSET Nat) /\ Len(cont) = C /\ DOMAIN cont = 1 .. C
          /\ \A u \in 1 .. C : cont[u] = IF u = gone THEN {} ELSE mid[u]
      <3> HIDE DEF cont
      <3> QED
        BY <1>1, <2>2, <2>3
    <2> HIDE DEF cont
    <2> QED
      BY <2>2, <2>4, Zenon DEF Gathered
  <1> HIDE DEF cont
  <1>6. K \in Objects /\ K.vs = G.vs /\ K.pos = pos /\ K.cont = cont
    BY <1>4, <1>5, Zenon DEF Objects
  <1>7. b \in SUBSET Nat /\ cont[n] = b
    BY <1>1, <1>5 DEF Behind
  <1>8. K = [G EXCEPT !.pos = pos, !.cont = cont]
    OBVIOUS
  <1>9. H = [K EXCEPT !.pos = end, !.cont = Front(new)]
    <2>1. H = Renamed(K, Place(K, K.cont[n], gone), With(K.cont, gone, K.cont[n]))
      <3>1. K = Bereft(G, v, gone)
        BY Zenon DEF Objects, pos, cont, Bereft
      <3> HIDE DEF K
      <3> QED
        BY <3>1, AbsorbIs
    <2> HIDE DEF K
    <2>2. K.cont[n] = b /\ K.cont = cont
      BY <1>6, <1>7
    <2> HIDE DEF b, H
    <2>3. H = Renamed(K, Place(K, b, gone), With(cont, gone, b))
      BY <2>1, <2>2
    <2> QED
      BY <2>3 DEF Renamed, With
  <1> HIDE DEF K, b
  <1>10. /\ end \in Seq(Nat) /\ Len(end) = Len(G.pos)
         /\ \A x \in 1 .. Len(G.pos) : end[x] = IF x \in b THEN gone ELSE pos[x]
    BY <1>1, <1>4, <1>6, PlaceFacts
  <1>11. /\ new \in Seq(SUBSET Nat) /\ Len(new) = C /\ DOMAIN new = 1 .. C
         /\ \A u \in 1 .. C : new[u] = IF u = gone THEN b ELSE cont[u]
    <2>1. cont[gone] = {}
      BY <1>1, <1>5 DEF Gathered
    <2> QED
      BY <1>1, <1>5, <1>7, <2>1
  <1> HIDE DEF end, new
  <1>12. /\ Front(new) \in Seq(SUBSET Nat) /\ Len(Front(new)) = C - 1
         /\ \A u \in 1 .. C - 1 : Front(new)[u] = new[u]
    <2>1. FrontIs(SUBSET Nat, new, Front(new))
      BY <1>1, <1>11, FrontSeq
    <2> QED
      BY <1>11, <2>1 DEF FrontIs
  <1>13. K.vs = G.vs /\ K.deg = G.deg /\ K.m = G.m /\ K.last = G.last
    BY <1>8 DEF Objects
  <1> HIDE DEF H
  <1>14. /\ H \in Objects /\ H.vs = G.vs /\ H.deg = G.deg /\ H.m = G.m /\ H.last = G.last
         /\ H.pos = end /\ H.cont = Front(new)
    BY <1>6, <1>9, <1>10, <1>12, <1>13, Zenon DEF Objects
  <1>15. \A x \in 1 .. Len(G.pos) :
            H.pos[x] = IF x \in b THEN gone ELSE IF x \in G.cont[gone] THEN v ELSE G.pos[x]
    BY <1>4, <1>10, <1>14, Zenon
  <1>16. \A u \in 1 .. C - 1 : H.cont[u] = IF u = gone THEN b ELSE Gathered(G, v, gone, u)
    BY <1>1, <1>5, <1>11, <1>12, <1>14
  <1>17. Len(H.pos) = Len(G.pos) /\ Len(H.cont) = C - 1
    BY <1>10, <1>12, <1>14
  <1>18. IsAbsorbed(G, v, gone, H)
    BY <1>14, <1>15, <1>16, <1>17 DEF IsAbsorbed, b
  <1> QED
    BY <1>18 DEF H

\* Of n vertices and R, the stack of deleted blocks.  What was in a deleted block points
\* the farther behind the last vertex the earlier it was deleted, and the vertex next
\* to it is in the graph or was deleted later.
Below(n, cont, pos, R) ==
    \A k \in 1 .. Len(R) :
        /\ \A x \in R[k].cont : x \in 1 .. Len(pos) /\ pos[x] >= n + Len(R) - k + 1
        /\ R[k].near \in 1 .. Len(pos)
        /\ \/ pos[R[k].near] \in 1 .. n
           \/ \E j \in k + 1 .. Len(R) : R[k].near \in R[j].cont

Inverse2(n, cont, pos) ==
    /\ \A u \in 1 .. n : cont[u] \subseteq 1 .. Len(pos)
    /\ \A x \in 1 .. Len(pos) : \A u \in 1 .. n : x \in cont[u] <=> pos[x] = u

\* The names that are in no vertex are in the deleted blocks, each in one.
Away(n, pos, R) ==
    /\ \A x \in 1 .. Len(pos) : pos[x] \in 1 .. n \/ \E k \in 1 .. Len(R) : x \in R[k].cont
    /\ \A k \in 1 .. Len(R) : \A j \in 1 .. k - 1 : \A x \in R[k].cont : x \notin R[j].cont

Named(n, last, cont, pos, R) ==
    /\ n \in Nat /\ last = n /\ n <= Len(cont) /\ cont \in Seq(SUBSET Nat) /\ pos \in Seq(Nat)
    /\ Inverse2(n, cont, pos) /\ Below(n, cont, pos, R) /\ Away(n, pos, R)

\* One vertex takes the names of another.
LEMMA AbsorbNamed ==
    ASSUME NEW G \in Objects, NEW R, Len(R) \in Nat, NEW n, n = Len(G.vs),
           Named(n, G.last, G.cont, G.pos, R),
           NEW v \in 1 .. n, NEW gone \in 1 .. n, v # gone,
           NEW H, IsAbsorbed(G, v, gone, H)
    PROVE  Named(n - 1, G.last - 1, H.cont, H.pos, R)
  <1> DEFINE P == 1 .. Len(G.pos)
             b == Behind(G, v, gone)
  <1>1. /\ n \in Nat /\ G.last = n /\ n <= Len(G.cont)
        /\ \A u \in 1 .. n : G.cont[u] \subseteq P
        /\ \A x \in P : \A u \in 1 .. n : x \in G.cont[u] <=> G.pos[x] = u
        /\ Len(G.cont) \in Nat /\ \A x \in P : G.pos[x] \in Nat
    <2>1. \A x \in P : G.pos[x] \in Nat
      <3>1. G.pos \in Seq(Nat)
        BY DEF Objects
      <3> QED
        BY <3>1
    <2>2. Len(G.cont) \in Nat
      BY DEF Objects
    <2> QED
      BY <2>1, <2>2 DEF Named, Inverse2
  <1>2. /\ H.cont \in Seq(SUBSET Nat) /\ H.pos \in Seq(Nat) /\ Len(H.pos) = Len(G.pos)
        /\ \A x \in P : H.pos[x] = IF x \in b THEN gone ELSE IF x \in G.cont[gone] THEN v ELSE G.pos[x]
        /\ Len(H.cont) = Len(G.cont) - 1
        /\ \A u \in 1 .. Len(G.cont) - 1 : H.cont[u] = IF u = gone THEN b ELSE Gathered(G, v, gone, u)
    BY DEF IsAbsorbed, Objects
  <1>3. n - 1 \in Nat /\ n - 1 <= Len(H.cont) /\ 1 .. n - 1 \subseteq 1 .. Len(G.cont) - 1
    <2>1. n - 1 \in Nat
      BY <1>1
    <2>2. n - 1 <= Len(H.cont)
      BY <1>1, <1>2
    <2> QED
      BY <1>1, <2>1, <2>2
  <1>4. b \subseteq P
    BY <1>1 DEF Behind, Gathered
  <1>5. ASSUME NEW u \in 1 .. n - 1
        PROVE  H.cont[u] \subseteq P
    <2>1. H.cont[u] = b \/ H.cont[u] = Gathered(G, v, gone, u)
      BY <1>2, <1>3, Zenon
    <2>2. Gathered(G, v, gone, u) \subseteq P
      BY <1>1 DEF Gathered
    <2> QED
      BY <1>4, <2>1, <2>2
  <1>6. ASSUME NEW x \in P, NEW u \in 1 .. n - 1
        PROVE  x \in H.cont[u] <=> H.pos[x] = u
    <2>1. H.cont[u] = IF u = gone THEN b ELSE Gathered(G, v, gone, u)
      BY <1>2, <1>3, Zenon
    <2>2. \A y \in 1 .. n : x \in G.cont[y] <=> G.pos[x] = y
      BY <1>1, Zenon
    <2>3. x \in b <=> gone # n /\ (G.pos[x] = n \/ (v = n /\ G.pos[x] = gone))
      <3>1. b = IF n = gone THEN {} ELSE IF n = v THEN G.cont[v] \cup G.cont[gone] ELSE G.cont[n]
        BY DEF Behind, Gathered
      <3>2. x \in G.cont[n] <=> G.pos[x] = n
        BY <2>2
      <3> HIDE DEF b
      <3> QED
        BY <2>2, <3>1, <3>2
    <2>4. H.pos[x] = IF x \in b THEN gone ELSE IF G.pos[x] = gone THEN v ELSE G.pos[x]
      BY <1>2, <2>2, Zenon
    <2> HIDE DEF b
    <2>5. CASE u = gone
      BY <1>1, <2>1, <2>2, <2>3, <2>4, <2>5
    <2>6. CASE u # gone
      <3>1. x \in H.cont[u] <=> G.pos[x] = u \/ (u = v /\ G.pos[x] = gone)
        BY <2>1, <2>2, <2>6 DEF Gathered
      <3> QED
        BY <1>1, <2>2, <2>3, <2>4, <2>6, <3>1
    <2> QED
      BY <2>5, <2>6
  <1>7. ASSUME NEW x \in P, G.pos[x] \in 1 .. n
        PROVE  H.pos[x] \in 1 .. n - 1
    <2>1. \A y \in 1 .. n : x \in G.cont[y] <=> G.pos[x] = y
      BY <1>1, Zenon
    <2>2. x \in b <=> gone # n /\ (G.pos[x] = n \/ (v = n /\ G.pos[x] = gone))
      <3>1. b = IF n = gone THEN {} ELSE IF n = v THEN G.cont[v] \cup G.cont[gone] ELSE G.cont[n]
        BY DEF Behind, Gathered
      <3>2. x \in G.cont[n] <=> G.pos[x] = n
        BY <2>1
      <3> HIDE DEF b
      <3> QED
        BY <2>1, <3>1, <3>2
    <2>3. H.pos[x] = IF x \in b THEN gone ELSE IF G.pos[x] = gone THEN v ELSE G.pos[x]
      BY <1>2, <2>1, Zenon
    <2> HIDE DEF b
    <2> QED
      BY <1>1, <1>7, <2>2, <2>3
  <1>8. ASSUME NEW x \in P, G.pos[x] > n
        PROVE  H.pos[x] = G.pos[x]
    <2>0. \A y \in 1 .. n : x \notin G.cont[y]
      BY <1>1, <1>8
    <2>1. x \notin b /\ x \notin G.cont[gone]
      BY <1>1, <2>0 DEF Behind, Gathered
    <2> QED
      BY <1>2, <2>1, Zenon
  <1>9. ASSUME NEW k \in 1 .. Len(R), NEW x \in R[k].cont
        PROVE  x \in P /\ H.pos[x] >= n - 1 + Len(R) - k + 1
    <2>1. x \in P /\ G.pos[x] >= n + Len(R) - k + 1
      BY Zenon DEF Named, Below
    <2>2. G.pos[x] \in Nat
      BY <1>1, <2>1
    <2>3. G.pos[x] > n
      BY <1>1, <2>1, <2>2
    <2> QED
      BY <1>1, <1>8, <2>1, <2>2, <2>3
  <1>10. ASSUME NEW k \in 1 .. Len(R)
         PROVE  /\ R[k].near \in P
                /\ \/ H.pos[R[k].near] \in 1 .. n - 1
                   \/ \E j \in k + 1 .. Len(R) : R[k].near \in R[j].cont
    BY <1>7, Zenon DEF Named, Below
  <1>13. Away(n - 1, H.pos, R)
    <2>1. \A x \in P : G.pos[x] \in 1 .. n \/ \E k \in 1 .. Len(R) : x \in R[k].cont
      BY Zenon DEF Named, Away
    <2>2. \A k \in 1 .. Len(R) : \A j \in 1 .. k - 1 : \A x \in R[k].cont : x \notin R[j].cont
      BY DEF Named, Away
    <2>3. \A x \in P : H.pos[x] \in 1 .. n - 1 \/ \E k \in 1 .. Len(R) : x \in R[k].cont
      BY <1>7, <2>1
    <2> QED
      BY <1>2, <2>2, <2>3 DEF Away
  <1> HIDE DEF P
  <1>11. Inverse2(n - 1, H.cont, H.pos)
    BY <1>2, <1>5, <1>6, Zenon DEF Inverse2, P
  <1>12. Below(n - 1, H.cont, H.pos, R)
    BY <1>2, <1>9, <1>10, Zenon DEF Below, P
  <1> QED
    BY <1>1, <1>2, <1>3, <1>11, <1>12, <1>13 DEF Named

-----------------------------------------------------------------------------
(* Contraction without the map.                                              *)

\* What holds between calls.
Sound(G, R) == Alive(G) /\ Named(Len(G.vs), G.last, G.cont, G.pos, R)

\* A vertex without live edges gives its names to v, and is removed.
Removed(G, A, c, D, X, a, gone, H, B, d, R) ==
    /\ Live(H, B, d, D \ {gone}, X \ {gone}, a + c[gone])
    /\ Len(H.vs) = Len(G.vs) - 1
    /\ B = MovedSet(Len(G.vs) - 1, A, Len(G.vs), gone)
    /\ d = MovedSet(Len(G.vs) - 1, c, Len(G.vs), gone)
    /\ Moved(G.vs, A, gone, H.vs)
    /\ Named(Len(H.vs), H.last, H.cont, H.pos, R)

\* Names are moved before the vertex is.
Renaming(G, v, gone, H, R) ==
    /\ H \in Objects /\ H.vs = G.vs /\ H.deg = G.deg /\ H.m = G.m
    /\ Named(Len(G.vs) - 1, H.last - 1, H.cont, H.pos, R)

\* Absorb keeps the names, as seen when the last vertex has moved.
LEMMA AbsorbStep ==
    ASSUME NEW G \in Objects, NEW R, Len(R) \in Nat, Named(Len(G.vs), G.last, G.cont, G.pos, R),
           NEW v \in 1 .. Len(G.vs), NEW gone \in 1 .. Len(G.vs), v # gone
    PROVE  Renaming(G, v, gone, Absorb(G, v, gone), R)
  <1> DEFINE H == Absorb(G, v, gone)
  <1>1. Len(G.vs) <= Len(G.cont)
    BY DEF Named
  <1>2. IsAbsorbed(G, v, gone, H)
    BY <1>1, AbsorbFacts
  <1> HIDE DEF H
  <1>3. Named(Len(G.vs) - 1, G.last - 1, H.cont, H.pos, R)
    BY <1>2, AbsorbNamed
  <1>4. H \in Objects /\ H.vs = G.vs /\ H.deg = G.deg /\ H.m = G.m /\ H.last = G.last
    BY <1>2 DEF IsAbsorbed
  <1>5. Renaming(G, v, gone, H, R)
    BY <1>3, <1>4 DEF Renaming
  <1> QED
    BY <1>5 DEF H

\* gone hands its names to v and is removed.
LEMMA RemoveStep ==
    ASSUME NEW G, NEW A, NEW c, NEW D, NEW X, NEW a \in Int, Live(G, A, c, D, X, a),
           NEW R, Len(R) \in Nat, Named(Len(G.vs), G.last, G.cont, G.pos, R),
           NEW v \in 1 .. Len(G.vs), NEW gone \in 1 .. Len(G.vs), v # gone, A[gone] = {},
           gone # Len(G.vs) => Len(G.vs) \notin X \cup D,
           NEW H, H = MoveLast(Absorb(G, v, gone), gone)
    PROVE  \E B, d : Removed(G, A, c, D, X, a, gone, H, B, d, R)
  <1> DEFINE K == Absorb(G, v, gone)
  <1>1. G \in Objects
    BY DEF Live
  <1>2. Renaming(G, v, gone, K, R)
    BY <1>1, AbsorbStep
  <1>3. H = MoveLast(K, gone)
    OBVIOUS
  <1> HIDE DEF K
  <1>4. /\ K \in Objects /\ K.vs = G.vs /\ K.deg = G.deg /\ K.m = G.m
        /\ Named(Len(G.vs) - 1, K.last - 1, K.cont, K.pos, R)
    BY <1>2 DEF Renaming
  <1>5. Live(K, A, c, D, X, a)
    BY <1>4, LiveRenamed
  <1>6. gone \in 1 .. Len(K.vs) /\ (gone # Len(K.vs) => Len(K.vs) \notin X \cup D)
    BY <1>4
  <1>7. PICK B, d : Departed(K, A, c, D, X, a, gone, H, B, d)
    BY <1>3, <1>5, <1>6, MoveLastStep
  <1>8. /\ Live(H, B, d, D \ {gone}, X \ {gone}, a + c[gone])
        /\ Len(H.vs) = Len(G.vs) - 1 /\ H.last = K.last - 1 /\ H.cont = K.cont /\ H.pos = K.pos
        /\ B = MovedSet(Len(G.vs) - 1, A, Len(G.vs), gone)
        /\ d = MovedSet(Len(G.vs) - 1, c, Len(G.vs), gone)
        /\ Moved(G.vs, A, gone, H.vs)
    BY <1>4, <1>7 DEF Departed
  <1>9. Named(Len(H.vs), H.last, H.cont, H.pos, R)
    BY <1>4, <1>8
  <1> QED
    BY <1>8, <1>9 DEF Removed

-----------------------------------------------------------------------------

\* The indices of a row.
LEMMA IndicesAre ==
    ASSUME NEW s \in Row
    PROVE  [i \in DOMAIN s |-> i] = Indices(Len(s))
  BY DEF Indices, Row

\* The two have no edge between them.
LEMMA NoEdgeContracts ==
    ASSUME NEW G, NEW R, Len(R) \in Nat, Sound(G, R),
           NEW v \in 1 .. Len(G.vs), NEW gone \in 1 .. Len(G.vs), v # gone,
           \A k \in 1 .. Len(G.vs[gone]) : G.vs[gone][k].to # v, v # gone + 1
    PROVE  Sound(ContractSparseTargetNoEdge(G, v, gone), R)
  <1> DEFINE L == Len(G.vs[gone])
             T == NoEdgeLoop(v, gone, G, Indices(L))
             H == MoveLast(Absorb(T, v, gone), gone)
  <1>1. Alive(G) /\ Named(Len(G.vs), G.last, G.cont, G.pos, R) /\ Only(G.vs, v, gone, 0)
    BY DEF Sound, Only
  <1>2. Apart(G, v, gone, 0) /\ Merged(G, G, v, gone, 0, 0, 0) /\ L \in Nat
    BY <1>1, MergeStartApart
  <1>3. G.vs[gone] \in Row
    <2>1. G \in Objects
      BY <1>1 DEF Alive, Live
    <2> QED
      BY <2>1, ObjectFacts, RowFacts
  <1>4. ContractSparseTargetNoEdge(G, v, gone) = H
    <2>1. [i \in DOMAIN G.vs[gone] |-> i] = Indices(L)
      BY <1>3, IndicesAre
    <2> QED
      BY <2>1, Zenon DEF ContractSparseTargetNoEdge, FoldLeftDomain, NoEdgeLoop, NoEdgePass
  <1>5. Merged(G, T, v, gone, 0, 0, L)
    BY <1>2, NoEdgeMerges
  <1> HIDE DEF T
  <1>6. PICK A, c : Merging(G, T, A, c, v, gone, 0, 0, L)
    BY <1>5 DEF Merged
  <1>7. /\ Live(T, A, c, {gone}, {gone, v}, 0) /\ SameNames(G, T)
        /\ A[gone] = (L + 1 .. L) \ {0} /\ c[gone] = L - L + (IF 0 \in 1 .. L THEN 1 ELSE 0)
        /\ A[v] = (1 .. Len(T.vs[v])) \ {0}
    BY <1>6 DEF Merging
  <1>8. A[gone] = {} /\ c[gone] = 0 /\ A[v] = 1 .. Len(T.vs[v])
    <2> HIDE DEF L
    <2> QED
      BY <1>2, <1>7
  <1>9. Live(T, A, c, {gone}, {gone}, 0)
    BY <1>7, <1>8, LiveStronger
  <1>10. Len(T.vs) = Len(G.vs) /\ Named(Len(T.vs), T.last, T.cont, T.pos, R)
    BY <1>1, <1>7 DEF SameNames
  <1>11. v \in 1 .. Len(T.vs) /\ gone \in 1 .. Len(T.vs)
         /\ (gone # Len(T.vs) => Len(T.vs) \notin {gone} \cup {gone})
    BY <1>10
  <1>12. PICK B, d : Removed(T, A, c, {gone}, {gone}, 0, gone, H, B, d, R)
    BY <1>8, <1>9, <1>10, <1>11, RemoveStep
  <1> HIDE DEF H
  <1>13. Live(H, B, d, {gone} \ {gone}, {gone} \ {gone}, 0 + c[gone])
         /\ Named(Len(H.vs), H.last, H.cont, H.pos, R)
    BY <1>12 DEF Removed
  <1>14. {gone} \ {gone} = {} /\ 0 + c[gone] = 0
    BY <1>8
  <1>15. Live(H, B, d, {}, {}, 0)
    BY <1>13, <1>14, Zenon
  <1> QED
    BY <1>4, <1>13, <1>15 DEF Sound, Alive

\* An edge, of which the end that is not v goes.
LEMMA SparseContracts ==
    ASSUME NEW G, NEW R, Len(R) \in Nat, Sound(G, R), NEW v \in 1 .. Len(G.vs),
           NEW i \in 1 .. Len(G.vs[v]), v # G.vs[v][i].to + 1
    PROVE  Sound(ContractEdgeSparseTarget(G, v, i), R)
  <1> DEFINE e == G.vs[v][i]
             gone == e.to
             L == Len(G.vs[gone])
             T == SparseLoop(v, e, G, Indices(L))
             K == Absorb(T, v, gone)
             U == EdgeGone(K, v, i, e.w)
             H == MoveLast(U, gone)
  <1>1. Alive(G) /\ Named(Len(G.vs), G.last, G.cont, G.pos, R)
    BY DEF Sound
  <1>2. /\ Apart(G, v, gone, e.rev) /\ Merged(G, G, v, gone, e.rev, i, 0)
        /\ gone \in 1 .. Len(G.vs) /\ gone # v /\ L \in Nat /\ e.rev \in 1 .. L /\ e.w \in Int
    <2>1. EdgeStarts(G, v, i, e)
      BY <1>1, MergeStartEdge, Zenon
    <2> HIDE DEF e
    <2> QED
      BY <2>1 DEF EdgeStarts
  <1>3. G \in Objects /\ G.vs[gone] \in Row /\ i \in Nat \ {0}
    <2>1. G \in Objects
      BY <1>1 DEF Alive, Live
    <2>2. G.vs \in Adj
      BY <2>1, ObjectFacts
    <2> QED
      BY <1>2, <2>1, <2>2, RowFacts
  <1>4. ContractEdgeSparseTarget(G, v, i) = H
    <2>1. [j \in DOMAIN G.vs[gone] |-> j] = Indices(L)
      BY <1>3, IndicesAre, Zenon
    <2>2. v # e.to + 1
      OBVIOUS
    <2> QED
      BY <2>1, <2>2, Zenon DEF ContractEdgeSparseTarget, FoldLeftDomain, SparseLoop, SparsePass, EdgeGone
  <1> HIDE DEF e
  <1>5. Merged(G, T, v, gone, e.rev, i, L)
    BY <1>2, <1>3, SparseMerges
  <1> HIDE DEF T
  <1>6. PICK A, c : Merging(G, T, A, c, v, gone, e.rev, i, L)
    BY <1>5 DEF Merged
  <1>7. /\ Live(T, A, c, {gone}, {gone, v}, 0) /\ SameNames(G, T)
        /\ A[gone] = (L + 1 .. L) \ {e.rev} /\ c[gone] = L - L + (IF e.rev \in 1 .. L THEN 1 ELSE 0)
        /\ A[v] = (1 .. Len(T.vs[v])) \ {i} /\ i \in 1 .. Len(T.vs[v])
        /\ T.vs[v][i].w = G.vs[v][i].w
    BY <1>3, <1>6 DEF Merging
  <1>8. A[gone] = {} /\ c[gone] = 1
    <2> HIDE DEF L
    <2> QED
      BY <1>2, <1>7
  <1>9. /\ Len(T.vs) = Len(G.vs) /\ Named(Len(T.vs), T.last, T.cont, T.pos, R) /\ T \in Objects
    BY <1>1, <1>7 DEF SameNames, Live
  <1>10. v \in 1 .. Len(T.vs) /\ gone \in 1 .. Len(T.vs) /\ v # gone
    BY <1>2, <1>9
  <1> HIDE DEF gone
  <1>11. Renaming(T, v, gone, K, R)
    BY <1>9, <1>10, AbsorbStep
  <1> HIDE DEF K
  <1>12. /\ K \in Objects /\ K.vs = T.vs /\ K.deg = T.deg /\ K.m = T.m
         /\ Named(Len(T.vs) - 1, K.last - 1, K.cont, K.pos, R)
    BY <1>11 DEF Renaming
  <1>13. Live(K, A, c, {gone}, {gone, v}, 0)
    BY <1>7, <1>12, LiveRenamed
  <1>14. PICK B, d : Mended(K, A, c, {gone}, {gone, v}, 0, v, U, B, d)
    <2>1. /\ v \in 1 .. Len(K.vs) /\ v \notin {gone} /\ i \in 1 .. Len(K.vs[v])
          /\ A[v] = (1 .. Len(K.vs[v])) \ {i} /\ e.w = K.vs[v][i].w
      BY <1>7, <1>10, <1>12 DEF e
    <2> HIDE DEF U
    <2>2. U = EdgeGone(K, v, i, e.w) /\ 0 \in Int
      BY DEF U
    <2> QED
      BY <1>13, <2>1, <2>2, HoleStep, Zenon
  <1> HIDE DEF U
  <1>15. /\ Live(U, B, d, {gone}, {gone, v} \ {v}, 0 - 1) /\ SameNames(K, U)
         /\ B[gone] = A[gone] /\ d[gone] = c[gone]
    BY <1>10, <1>12, <1>14 DEF Mended
  <1>16. {gone, v} \ {v} = {gone} /\ 0 - 1 \in Int /\ 0 - 1 + d[gone] = 0 /\ B[gone] = {}
    BY <1>8, <1>10, <1>15
  <1>17. /\ Len(U.vs) = Len(T.vs) /\ U.last = K.last /\ U.cont = K.cont /\ U.pos = K.pos
    BY <1>12, <1>15 DEF SameNames
  <1>18. Live(U, B, d, {gone}, {gone}, 0 - 1)
    BY <1>15, <1>16, Zenon
  <1>19. gone \in 1 .. Len(U.vs) /\ (gone # Len(U.vs) => Len(U.vs) \notin {gone} \cup {gone})
    BY <1>10, <1>17
  <1>20. PICK C, f : Departed(U, B, d, {gone}, {gone}, 0 - 1, gone, H, C, f)
    BY <1>16, <1>18, <1>19, MoveLastStep, Zenon
  <1> HIDE DEF H
  <1>21. /\ Live(H, C, f, {gone} \ {gone}, {gone} \ {gone}, 0 - 1 + d[gone])
         /\ Len(H.vs) = Len(U.vs) - 1 /\ H.last = U.last - 1 /\ H.cont = U.cont /\ H.pos = U.pos
    BY <1>20 DEF Departed
  <1>22. {gone} \ {gone} = {}
    OBVIOUS
  <1>23. Live(H, C, f, {}, {}, 0)
    BY <1>16, <1>21, <1>22, Zenon
  <1>24. Named(Len(H.vs), H.last, H.cont, H.pos, R)
    BY <1>12, <1>17, <1>21
  <1> QED
    BY <1>4, <1>23, <1>24 DEF Sound, Alive

-----------------------------------------------------------------------------
(* Contraction with the map.                                                 *)

\* What the map says of the edge of v that leads to t.
Knows(H, A, v, map, t) ==
    IF t \in DOMAIN map
    THEN /\ map[t].i \in A[v] /\ H.vs[v][map[t].i].to = t
         /\ H.vs[v][map[t].i].rev = map[t].rev
    ELSE \A k \in A[v] : H.vs[v][k].to # t

Indexed(s, I, map, t) ==
    IF t \in DOMAIN map THEN map[t].i \in I /\ s[map[t].i].to = t /\ s[map[t].i].rev = map[t].rev
    ELSE \A k \in I : s[k].to # t

\* The map has the index and the other end of an edge of v, by where it leads.
LEMMA IndexEdgesFacts ==
    ASSUME NEW s, NEW n \in Nat, NEW I \in SUBSET (1 .. n), NEW map, map = IndexEdges(s, I)
    PROVE  \A t : Indexed(s, I, map, t)
  <1>1. DOMAIN map = {s[i].to : i \in I}
    BY DEF IndexEdges
  <1>2. ASSUME NEW t, t \in DOMAIN map
        PROVE  map[t].i \in I /\ s[map[t].i].to = t /\ s[map[t].i].rev = map[t].rev
    <2> DEFINE K == {j \in I : s[j].to = t}
               i == Min(K)
    <2>1. K # {} /\ K \in SUBSET (1 .. n)
      BY <1>1, <1>2, Zenon
    <2>2. map[t] = [i |-> i, rev |-> s[i].rev]
      BY <1>1, <1>2 DEF IndexEdges
    <2> HIDE DEF K
    <2>3. i \in K
      BY <2>1, LeastExists
    <2> HIDE DEF i
    <2>4. i \in I /\ s[i].to = t
      BY <2>3 DEF K
    <2> QED
      BY <2>2, <2>4
  <1>3. ASSUME NEW t, t \notin DOMAIN map
        PROVE  \A k \in I : s[k].to # t
    BY <1>1, <1>3
  <1> QED
    BY <1>2, <1>3 DEF Indexed

\* A merged edge with another end changes nothing of that.
LEMMA KnowsKept ==
    ASSUME NEW H, NEW A, NEW v, NEW map, NEW t, Knows(H, A, v, map, t),
           Len(H.vs[v]) \in Nat, A[v] \subseteq 1 .. Len(H.vs[v]),
           NEW f, f.to # t, NEW i, NEW q, Finds(H, A, v, f, i, q),
           NEW I, NEW B, TookAny(H, A, v, f, i, q, I, B)
    PROVE  Knows(I, B, v, map, t)
  <1>1. CASE i = 0
    <2>1. TookNew(H, A, v, f, I, B)
      BY <1>1 DEF TookAny
    <2> QED
      BY <2>1, Zenon DEF TookNew, Knows
  <1>2. CASE i # 0
    <2>1. TookKnown(H, A, v, i, q, f, I, B) /\ H.vs[v][i].to = f.to
      BY <1>2 DEF TookAny, Finds
    <2> QED
      BY <2>1, Zenon DEF TookKnown, Knows
  <1> QED
    BY <1>1, <1>2

MapRight(G, H, A, v, map, gone, skip, j) ==
    \A k \in j + 1 .. Len(G.vs[gone]) : k # skip => Knows(H, A, v, map, G.vs[gone][k].to)

Charted(G, H, v, map, gone, skip, hole, j) ==
    \E A, c : Merging(G, H, A, c, v, gone, skip, hole, j) /\ MapRight(G, H, A, v, map, gone, skip, j)

\* A pass of contractEdge, which looks the edge of v up in the map.
LEMMA KnownStep ==
    ASSUME NEW G, NEW H, NEW v, NEW map, NEW gone, NEW skip, NEW hole \in Nat,
           NEW j \in 1 .. Len(G.vs[gone]), Apart(G, v, gone, skip), skip # j, Len(G.vs[gone]) \in Nat,
           Charted(G, H, v, map, gone, skip, hole, j - 1),
           NEW f, f = H.vs[gone][j], NEW I,
           I = IF f.to \in DOMAIN map THEN TakeEdge(H, v, f, map[f.to].i, map[f.to].rev)
               ELSE TakeEdge(H, v, f, 0, 0)
    PROVE  Charted(G, I, v, map, gone, skip, hole, j)
  <1> DEFINE L == Len(G.vs[gone])
             i == IF f.to \in DOMAIN map THEN map[f.to].i ELSE 0
             q == IF f.to \in DOMAIN map THEN map[f.to].rev ELSE 0
  <1>1. PICK A, c : /\ Merging(G, H, A, c, v, gone, skip, hole, j - 1)
                    /\ MapRight(G, H, A, v, map, gone, skip, j - 1)
    BY DEF Charted
  <1>2. I = TakeEdge(H, v, f, i, q)
    OBVIOUS
  <1>3. f.to = G.vs[gone][j].to
    BY <1>1 DEF Merging, SameEnds
  <1>4. Knows(H, A, v, map, f.to)
    <2>1. j \in j - 1 + 1 .. L
      OBVIOUS
    <2> QED
      BY <1>1, <1>3, <2>1 DEF MapRight
  <1>5. H.vs \in Adj /\ Paired(H.vs, A) /\ v \in 1 .. Len(H.vs)
    BY <1>1, ObjectFacts DEF Merging, Live, SameNames, Apart
  <1>6. Len(H.vs[v]) \in Nat /\ A[v] \subseteq 1 .. Len(H.vs[v])
    BY <1>5, RowFacts DEF Paired
  <1>7. Finds(H, A, v, f, i, q)
    <2>1. CASE f.to \in DOMAIN map
      <3>1. /\ map[f.to].i \in A[v] /\ H.vs[v][map[f.to].i].to = f.to
            /\ H.vs[v][map[f.to].i].rev = map[f.to].rev
        BY <1>4, <2>1, Zenon DEF Knows
      <3>2. i = map[f.to].i /\ q = map[f.to].rev
        BY <2>1
      <3> HIDE DEF i, q
      <3>3. i # 0 /\ i \in A[v] /\ H.vs[v][i].to = f.to /\ H.vs[v][i].rev = q
        <4>1. i \in A[v] /\ H.vs[v][i].to = f.to /\ H.vs[v][i].rev = q
          BY <3>1, <3>2, Zenon
        <4>2. i \in 1 .. Len(H.vs[v])
          BY <1>6, <4>1
        <4> QED
          BY <1>6, <4>1, <4>2
      <3> QED
        BY <3>3 DEF Finds
    <2>2. CASE f.to \notin DOMAIN map
      <3>1. \A k \in A[v] : H.vs[v][k].to # f.to
        BY <1>4, <2>2 DEF Knows
      <3>2. i = 0 /\ q = 0
        BY <2>2
      <3> HIDE DEF i, q
      <3> QED
        BY <3>1, <3>2 DEF Finds
    <2> QED
      BY <2>1, <2>2
  <1> HIDE DEF i, q
  <1>8. PICK B, d : Merging(G, I, B, d, v, gone, skip, hole, j) /\ TookAny(H, A, v, f, i, q, I, B)
    BY <1>1, <1>2, <1>7, MergeStep
  <1>9. ASSUME NEW k \in j + 1 .. L, k # skip
        PROVE  Knows(I, B, v, map, G.vs[gone][k].to)
    <2>1. k \in j - 1 + 1 .. L /\ k # j /\ k \in 1 .. L
      BY <1>9
    <2>2. Knows(H, A, v, map, G.vs[gone][k].to)
      BY <1>1, <1>9, <2>1 DEF MapRight
    <2>3. f.to # G.vs[gone][k].to
      BY <1>3, <2>1 DEF Apart
    <2> QED
      BY <1>6, <1>7, <1>8, <2>2, <2>3, KnowsKept, Zenon
  <1> QED
    BY <1>8, <1>9, Zenon DEF Charted, MapRight

KnownRun(G, v, e, map, n, r) ==
    /\ r[0] = G /\ \A i \in 1 .. n : r[i] = KnownPass(r[i - 1], v, e, map, i)
    /\ KnownLoop(v, e, map, G, Indices(n)) = r[n]

\* The run of the loop of contractEdge.
LEMMA KnownLoopRuns ==
    ASSUME NEW G, NEW v, NEW e, NEW map, NEW n \in Nat
    PROVE  \E r : KnownRun(G, v, e, map, n, r)
  <1>1. DOMAIN Indices(n) = 1 .. n /\ Len(Indices(n)) = n /\ \A i \in 1 .. n : Indices(n)[i] = i
    BY IndicesFacts
  <1>2. \E r : IsRun(r, "Known", <<v, e, map>>, G, Indices(n)) /\ KnownLoop(v, e, map, G, Indices(n)) = r[n]
    BY <1>1, KnownRuns
  <1> QED
    BY <1>1, <1>2 DEF IsRun, Pass, KnownRun

\* After that loop every edge of the vertex that goes, but skip, is v's.
LEMMA KnownMerges ==
    ASSUME NEW G, NEW v, NEW e, NEW map, NEW hole \in Nat, Apart(G, v, e.to, e.rev), NEW L \in Nat,
           L = Len(G.vs[e.to]), Charted(G, G, v, map, e.to, e.rev, hole, 0)
    PROVE  Charted(G, KnownLoop(v, e, map, G, Indices(L)), v, map, e.to, e.rev, hole, L)
  <1> DEFINE gone == e.to
             skip == e.rev
  <1>1. PICK r : KnownRun(G, v, e, map, L, r)
    BY KnownLoopRuns, Zenon
  <1>2. /\ r[0] = G /\ \A i \in 1 .. L : r[i] = KnownPass(r[i - 1], v, e, map, i)
        /\ KnownLoop(v, e, map, G, Indices(L)) = r[L]
    BY <1>1 DEF KnownRun
  <1> DEFINE T == {j \in 0 .. L : Charted(G, r[j], v, map, gone, skip, hole, j)}
  <1>4. 0 \in T
    BY <1>2
  <1>5. ASSUME NEW j \in 1 .. L, j - 1 \in T
        PROVE  j \in T
    <2> DEFINE P == r[j - 1]
               f == P.vs[gone][j]
    <2>1. Charted(G, P, v, map, gone, skip, hole, j - 1) /\ j \in 1 .. Len(G.vs[gone])
      BY <1>5
    <2>2. r[j] = IF j = skip THEN P
                 ELSE IF f.to \in DOMAIN map THEN TakeEdge(P, v, f, map[f.to].i, map[f.to].rev)
                 ELSE TakeEdge(P, v, f, 0, 0)
      BY <1>2 DEF KnownPass
    <2> HIDE DEF P
    <2>3. Charted(G, r[j], v, map, gone, skip, hole, j)
      <3>1. CASE j = skip
        <4>1. r[j] = P
          BY <2>2, <3>1
        <4>2. PICK A, c : /\ Merging(G, P, A, c, v, gone, skip, hole, j - 1)
                          /\ MapRight(G, P, A, v, map, gone, skip, j - 1)
          BY <2>1 DEF Charted
        <4>3. Merging(G, P, A, c, v, gone, skip, hole, j)
          BY <2>1, <3>1, <4>2, SkipStep
        <4>4. MapRight(G, P, A, v, map, gone, skip, j)
          BY <2>1, <4>2 DEF MapRight
        <4> QED
          BY <4>1, <4>3, <4>4 DEF Charted
      <3>2. CASE j # skip
        <4>1. r[j] = IF f.to \in DOMAIN map THEN TakeEdge(P, v, f, map[f.to].i, map[f.to].rev)
                     ELSE TakeEdge(P, v, f, 0, 0)
          BY <2>2, <3>2
        <4> HIDE DEF f
        <4>2. f = P.vs[gone][j]
          BY DEF f
        <4> QED
          BY <2>1, <3>2, <4>1, <4>2, KnownStep, Zenon
      <3> QED
        BY <3>1, <3>2
    <2> QED
      BY <2>3
  <1> HIDE DEF T
  <1>6. \A j \in 0 .. L : j \in T
    BY <1>4, <1>5, UpTo, Zenon
  <1>7. L \in T
    BY <1>6
  <1> QED
    BY <1>2, <1>7 DEF T

\* The map of the edges of v is right when the loop starts.
LEMMA ChartStarts ==
    ASSUME NEW G, Alive(G), NEW v \in 1 .. Len(G.vs), NEW i \in 1 .. Len(G.vs[v]),
           NEW e, EdgeStarts(G, v, i, e),
           NEW map, map = IndexEdges(G.vs[v], (1 .. Len(G.vs[v])) \ {i})
    PROVE  Charted(G, G, v, map, e.to, e.rev, i, 0)
  <1> DEFINE n == Len(G.vs[v])
             K == (1 .. n) \ {i}
  <1>1. PICK A, c : Merging(G, G, A, c, v, e.to, e.rev, i, 0)
    BY DEF EdgeStarts, Merged
  <1>2. n \in Nat
    <2>1. G.vs \in Adj
      BY AliveFacts DEF Alive
    <2> QED
      BY <2>1, RowFacts
  <1>3. A[v] = K
    BY <1>1 DEF Merging
  <1>4. map = IndexEdges(G.vs[v], K) /\ K \in SUBSET (1 .. n)
    OBVIOUS
  <1> HIDE DEF K
  <1>5. \A t : Indexed(G.vs[v], K, map, t)
    BY <1>2, <1>4, IndexEdgesFacts, Zenon
  <1>6. \A t : Knows(G, A, v, map, t)
    BY <1>3, <1>5, Zenon DEF Knows, Indexed
  <1>7. MapRight(G, G, A, v, map, e.to, e.rev, 0)
    BY <1>6, Zenon DEF MapRight
  <1> QED
    BY <1>1, <1>7 DEF Charted

\* ContractEdge from the end that stays.
Contracted1(G, v, i, e) ==
    LET map == IndexEdges(G.vs[v], DOMAIN G.vs[v] \ {i})
        taken == KnownLoop(v, e, map, G, [j \in DOMAIN G.vs[e.to] |-> j])
    IN  EdgeGone(MoveLast(Absorb(taken, v, e.to), e.to), v, i, e.w)

\* contractEdge begins at the end with the smaller index.
LEMMA ContractEdgeIs ==
    ASSUME NEW G, NEW v, NEW i, NEW e, e = G.vs[v][i], NEW f, f = G.vs[e.to][e.rev]
    PROVE  ContractEdge(G, v, i) = IF e.to < v THEN Contracted1(G, e.to, e.rev, f)
                                   ELSE Contracted1(G, v, i, e)
  <1> DEFINE a == IF e.to < v THEN e.to ELSE v
             b == IF e.to < v THEN e.rev ELSE i
  <1>1. ContractEdge(G, v, i) = Contracted1(G, a, b, G.vs[a][b])
    BY DEF ContractEdge, Contracted1, FoldLeftDomain, KnownLoop, KnownPass, EdgeGone
  <1>2. e.to < v => a = e.to /\ b = e.rev
    OBVIOUS
  <1>3. ~(e.to < v) => a = v /\ b = i
    OBVIOUS
  <1> HIDE DEF a, b
  <1> QED
    BY <1>1, <1>2, <1>3

\* contractEdge from the smaller end.
LEMMA KnownContracts ==
    ASSUME NEW G, NEW R, Len(R) \in Nat, Sound(G, R), NEW v \in 1 .. Len(G.vs),
           NEW i \in 1 .. Len(G.vs[v]), NEW e, e = G.vs[v][i], v < e.to
    PROVE  Sound(Contracted1(G, v, i, e), R)
  <1> DEFINE gone == e.to
             n == Len(G.vs)
             L == Len(G.vs[gone])
             map == IndexEdges(G.vs[v], (1 .. Len(G.vs[v])) \ {i})
             T == KnownLoop(v, e, map, G, Indices(L))
             M == MoveLast(Absorb(T, v, gone), gone)
             H == EdgeGone(M, v, i, e.w)
  <1>1. Alive(G) /\ Named(Len(G.vs), G.last, G.cont, G.pos, R)
    BY DEF Sound
  <1>2. EdgeStarts(G, v, i, e)
    BY <1>1, MergeStartEdge
  <1>3. /\ Apart(G, v, gone, e.rev) /\ gone \in 1 .. n /\ gone # v /\ L \in Nat /\ e.rev \in 1 .. L
        /\ e.w \in Int
    BY <1>2, Zenon DEF EdgeStarts
  <1>4. G.vs[gone] \in Row /\ DOMAIN G.vs[v] = 1 .. Len(G.vs[v]) /\ i \in Nat \ {0} /\ n \in Nat
    <2>1. G \in Objects
      BY <1>1 DEF Alive, Live
    <2>2. G.vs \in Adj
      BY <2>1, ObjectFacts
    <2> QED
      BY <1>3, <2>1, <2>2, RowFacts
  <1>5. Contracted1(G, v, i, e) = H
    <2>1. [j \in DOMAIN G.vs[gone] |-> j] = Indices(L)
      BY <1>4, IndicesAre
    <2> QED
      BY <1>4, <2>1 DEF Contracted1
  <1>6. Charted(G, G, v, map, gone, e.rev, i, 0)
    BY <1>1, <1>2, ChartStarts, Zenon
  <1> HIDE DEF map
  <1>7. Charted(G, T, v, map, gone, e.rev, i, L)
    BY <1>3, <1>4, <1>6, KnownMerges
  <1> HIDE DEF T
  <1>8. PICK A, c : Merging(G, T, A, c, v, gone, e.rev, i, L)
    BY <1>7 DEF Charted
  <1>9. /\ Live(T, A, c, {gone}, {gone, v}, 0) /\ SameNames(G, T)
        /\ A[gone] = (L + 1 .. L) \ {e.rev} /\ c[gone] = L - L + (IF e.rev \in 1 .. L THEN 1 ELSE 0)
        /\ A[v] = (1 .. Len(T.vs[v])) \ {i} /\ i \in 1 .. Len(T.vs[v])
        /\ T.vs[v][i].w = G.vs[v][i].w
    BY <1>4, <1>8 DEF Merging
  <1>10. A[gone] = {} /\ c[gone] = 1
    <2> HIDE DEF L
    <2> QED
      BY <1>3, <1>9
  <1>11. Len(T.vs) = n /\ Named(Len(T.vs), T.last, T.cont, T.pos, R)
    BY <1>1, <1>9 DEF SameNames
  <1>12. /\ v \in 1 .. Len(T.vs) /\ gone \in 1 .. Len(T.vs) /\ v # gone /\ 0 \in Int
         /\ (gone # Len(T.vs) => Len(T.vs) \notin {gone, v} \cup {gone})
    <2> HIDE DEF n
    <2> QED
      BY <1>3, <1>4, <1>11 DEF n
  <1>13. PICK B, d : Removed(T, A, c, {gone}, {gone, v}, 0, gone, M, B, d, R)
    BY <1>9, <1>10, <1>11, <1>12, RemoveStep, Zenon
  <1> HIDE DEF M
  <1>14. /\ Live(M, B, d, {gone} \ {gone}, {gone, v} \ {gone}, 0 + c[gone])
         /\ Len(M.vs) = n - 1 /\ B = MovedSet(n - 1, A, n, gone) /\ Moved(T.vs, A, gone, M.vs)
         /\ Named(Len(M.vs), M.last, M.cont, M.pos, R)
    BY <1>11, <1>13 DEF Removed
  <1>15. {gone} \ {gone} = {} /\ {gone, v} \ {gone} = {v} /\ 0 + c[gone] = 1
    BY <1>3, <1>10
  <1>16. Live(M, B, d, {}, {v}, 1)
    BY <1>14, <1>15, Zenon
  <1>17. v \in 1 .. n - 1 /\ Source(n, gone, v) = v
    <2> HIDE DEF n
    <2> QED
      BY <1>3, <1>4 DEF Source
  <1>18. B[v] = A[v]
    BY <1>14, <1>17 DEF MovedSet
  <1>19. Len(M.vs[v]) = Len(T.vs[v]) /\ M.vs[v][i].w = T.vs[v][i].w
    <2>1. v \in 1 .. Len(T.vs) - 1 /\ Source(Len(T.vs), gone, v) = v
      BY <1>11, <1>17
    <2>2. Moved(T.vs, A, gone, M.vs) /\ i \in 1 .. Len(T.vs[v])
      BY <1>9, <1>14, Zenon
    <2> QED
      <3>1. \A u \in 1 .. Len(T.vs) - 1 : Len(M.vs[u]) = Len(T.vs[Source(Len(T.vs), gone, u)])
        BY <2>2 DEF Moved
      <3>2. \A u \in 1 .. Len(T.vs) - 1 : \A k \in 1 .. Len(T.vs[Source(Len(T.vs), gone, u)]) :
               M.vs[u][k].w = T.vs[Source(Len(T.vs), gone, u)][k].w
        BY <2>2 DEF Moved
      <3> QED
        BY <2>1, <2>2, <3>1, <3>2
  <1>20. PICK C, f : Mended(M, B, d, {}, {v}, 1, v, H, C, f)
    <2>1. /\ v \in 1 .. Len(M.vs) /\ v \notin {} /\ i \in 1 .. Len(M.vs[v]) /\ 1 \in Int
          /\ B[v] = (1 .. Len(M.vs[v])) \ {i} /\ e.w = M.vs[v][i].w
      <3> HIDE DEF n
      <3>1. v \in 1 .. Len(M.vs)
        BY <1>14, <1>17
      <3> QED
        BY <1>9, <1>18, <1>19, <3>1
    <2> HIDE DEF H
    <2>2. H = EdgeGone(M, v, i, e.w)
      BY DEF H
    <2> QED
      BY <1>16, <2>1, <2>2, HoleStep, Zenon
  <1> HIDE DEF H
  <1>21. Live(H, C, f, {}, {v} \ {v}, 1 - 1) /\ SameNames(M, H)
    BY <1>20 DEF Mended
  <1>22. {v} \ {v} = {} /\ 1 - 1 = 0
    OBVIOUS
  <1>23. Live(H, C, f, {}, {}, 0)
    BY <1>21, <1>22, Zenon
  <1>24. Named(Len(H.vs), H.last, H.cont, H.pos, R)
    BY <1>14, <1>21 DEF SameNames
  <1> QED
    BY <1>5, <1>23, <1>24 DEF Sound, Alive

\* contractEdge keeps what holds between calls.
LEMMA EdgeContracts ==
    ASSUME NEW G, NEW R, Len(R) \in Nat, Sound(G, R), NEW v \in 1 .. Len(G.vs),
           NEW i \in 1 .. Len(G.vs[v])
    PROVE  Sound(ContractEdge(G, v, i), R)
  <1> DEFINE e == G.vs[v][i]
             f == G.vs[e.to][e.rev]
  <1>1. EdgeStarts(G, v, i, e)
    <2>1. Alive(G)
      BY DEF Sound
    <2> QED
      BY <2>1, MergeStartEdge, Zenon
  <1>2. /\ e.to \in 1 .. Len(G.vs) /\ e.rev \in 1 .. Len(G.vs[e.to]) /\ f.to = v /\ e.to # v
    BY <1>1 DEF EdgeStarts
  <1>3. ContractEdge(G, v, i) = IF e.to < v THEN Contracted1(G, e.to, e.rev, f)
                                ELSE Contracted1(G, v, i, e)
    BY ContractEdgeIs
  <1>4. CASE e.to < v
    <2> DEFINE t == e.to
               r == e.rev
    <2>1. t \in 1 .. Len(G.vs) /\ r \in 1 .. Len(G.vs[t]) /\ f = G.vs[t][r] /\ t < f.to
      BY <1>2, <1>4
    <2> HIDE DEF t, r, f
    <2>2. Sound(Contracted1(G, t, r, f), R)
      BY <2>1, KnownContracts, Zenon
    <2> QED
      BY <1>3, <1>4, <2>2 DEF t, r
  <1>5. CASE ~(e.to < v)
    <2>1. v < e.to
      <3> HIDE DEF e
      <3>1. Len(G.vs) \in Nat
        BY AliveFacts DEF Sound, Alive
      <3> QED
        BY <1>2, <1>5, <3>1
    <2>2. Sound(Contracted1(G, v, i, e), R)
      BY <2>1, KnownContracts, Zenon
    <2> QED
      BY <1>3, <1>5, <2>2
  <1> QED
    BY <1>4, <1>5

=============================================================================

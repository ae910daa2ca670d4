------------------------- MODULE MutableGraphProofs -------------------------
(***************************************************************************)
(* Any sequence of calls leaves a graph intact: the other operations (edges *)
(* and vertices deleted and inserted, the contraction of a set with one    *)
(* table for the whole set, copies of a graph), and the theorems about the *)
(* machine of calls.  The inductive invariant is Intact: the graph is Sound *)
(* (AdjacencyArraysProofs) with the stack of deleted blocks.               *)
(***************************************************************************)
EXTENDS AdjacencyArraysProofs

-----------------------------------------------------------------------------
(* Edges are set, deleted and entered.                                       *)

Shifted(deg, t, w, x) == [deg EXCEPT ![t] = @ + w - x]
IsShifted(deg, t, w, x, new) ==
    /\ new \in Seq(Int) /\ Len(new) = Len(deg) /\ new[t] = deg[t] + w - x
    /\ \A u \in 1 .. Len(deg) : u # t => new[u] = deg[u]

\* A degree gains w and loses x.
LEMMA ShiftedFacts ==
    ASSUME NEW deg \in Seq(Int), NEW t \in 1 .. Len(deg), NEW w \in Int, NEW x \in Int
    PROVE  IsShifted(deg, t, w, x, Shifted(deg, t, w, x))
  <1> DEFINE y == deg[t] + w - x
  <1>1. y \in Int
    BY ElementOfSeq
  <1>2. Shifted(deg, t, w, x) = [deg EXCEPT ![t] = y]
    BY DEF Shifted
  <1> HIDE DEF y
  <1>4. [deg EXCEPT ![t] = y] \in Seq(Int)
        /\ Len([deg EXCEPT ![t] = y]) = Len(deg)
    BY <1>1, ExceptSeq
  <1>5. [deg EXCEPT ![t] = y][t] = y /\ \A u \in 1 .. Len(deg) : u # t => [deg EXCEPT ![t] = y][u] = deg[u]
    OBVIOUS
  <1> QED
    BY <1>2, <1>4, <1>5 DEF IsShifted, y

ShiftedTwice(deg, v, t, w, x) == Shifted(Shifted(deg, v, w, x), t, w, x)
SetTo(G, v, i, t, r, w, x) ==
    Put(G, WeighedTwice(G.vs, v, i, t, r, w), ShiftedTwice(G.deg, v, t, w, x), G.m)

\* setEdgeWeight, written field by field.
LEMMA SetEdgeWeightIs ==
    ASSUME NEW G \in Objects, NEW v \in 1 .. Len(G.vs), NEW i, NEW w, NEW e, e = G.vs[v][i],
           e.to # v, e.to \in 1 .. Len(G.vs), Len(G.deg) = Len(G.vs)
    PROVE  SetEdgeWeight(G, v, i, w) = SetTo(G, v, i, e.to, e.rev, w, e.w)
  <1> DEFINE t == e.to
             r == e.rev
             x == e.w
             vs == WeighedTwice(G.vs, v, i, t, r, w)
             deg == ShiftedTwice(G.deg, v, t, w, x)
  <1> HIDE DEF t, r, x
  <1>1. t # v /\ t \in DOMAIN G.vs /\ v \in DOMAIN G.vs /\ t \in DOMAIN G.deg
    BY ObjectFacts, Zenon DEF t
  <1>2. [G EXCEPT !.vs[v][i].w = w, !.vs[t][r].w = w] = [G EXCEPT !.vs = vs]
    BY <1>1, Zenon DEF Weighed, WeighedTwice, PutEdge, PutRow, WithWeight, Objects
  <1>3. Shifted(G.deg, v, w, x)[t] = G.deg[t]
    BY <1>1 DEF Shifted
  <1>4. [G.deg EXCEPT ![v] = G.deg[v] + w - x, ![t] = G.deg[t] + w - x] = deg
    BY <1>1, <1>3 DEF ShiftedTwice, Shifted
  <1> HIDE DEF vs, deg
  <1>5. [G EXCEPT !.vs[v][i].w = w, !.vs[t][r].w = w, !.deg[v] = G.deg[v] + w - x,
                  !.deg[t] = G.deg[t] + w - x] = [G EXCEPT !.vs = vs, !.deg = deg]
    BY <1>2, <1>4, Zenon DEF Objects
  <1>6. [G EXCEPT !.vs = vs, !.deg = deg] = Put(G, vs, deg, G.m)
    BY Zenon DEF Put, Objects
  <1> QED
    BY <1>5, <1>6, Zenon DEF SetEdgeWeight, SetTo, t, r, x, vs, deg

\* What SetTo makes of the sums.
LEMMA SetKeeps ==
    ASSUME NEW G, NEW R, Sound(G, R), NEW v \in 1 .. Len(G.vs), NEW i \in 1 .. Len(G.vs[v]),
           NEW w \in Int
    PROVE  Sound(SetEdgeWeight(G, v, i, w), R)
  <1> DEFINE n == Len(G.vs)
             e == G.vs[v][i]
             t == e.to
             r == e.rev
             x == e.w
             ws == WeighedTwice(G.vs, v, i, t, r, w)
             deg == ShiftedTwice(G.deg, v, t, w, x)
             H == SetEdgeWeight(G, v, i, w)
  <1>1. PICK A, c : Live(G, A, c, {}, {}, 0)
    BY DEF Sound, Alive
  <1>2. /\ G \in Objects /\ G.vs \in Adj /\ Paired(G.vs, A) /\ n \in Nat /\ Len(G.deg) = n
        /\ i \in A[v]
        /\ \A u \in 1 .. n : A[u] = 1 .. Len(G.vs[u]) /\ c[u] = Len(G.vs[u]) /\ G.deg[u] = RowSum(G.vs[u])
    BY <1>1, AliveFacts
  <1>3. G.deg \in Seq(Int) /\ G.m \in Int /\ c \in [1 .. n -> Int] /\ G.m = Sum(c, 1 .. n) + 0
    BY <1>1, <1>2, ObjectFacts DEF Live
  <1>4. Mated(G.vs, A, v, i, t, r)
    BY <1>2, MateFacts
  <1>5. /\ t \in 1 .. n /\ t # v /\ r \in 1 .. Len(G.vs[t]) /\ e \in Edge /\ x \in Int
        /\ G.vs[t][r].w = x
    <2>1. /\ t \in 1 .. n /\ t # v /\ r \in 1 .. Len(G.vs[t]) /\ e \in Edge /\ G.vs[t][r].w = x
      BY <1>4, Zenon DEF Mated
    <2> QED
      BY <2>1 DEF Edge
  <1>6. H = Put(G, ws, deg, G.m)
    <2>1. H = SetTo(G, v, i, t, r, w, x)
      <3> HIDE DEF ws, deg, e
      <3>1. e = G.vs[v][i] /\ e.to # v /\ e.to \in 1 .. Len(G.vs) /\ Len(G.deg) = Len(G.vs)
        BY <1>2, <1>5 DEF e
      <3> QED
        BY <1>2, <3>1, SetEdgeWeightIs
    <2> QED
      BY <2>1 DEF SetTo
  <1>7. IsWeighed(G.vs, v, i, t, r, w, ws)
    BY <1>2, <1>5, WeighedFacts, Zenon DEF WeighedTwice
  <1>8. Paired(ws, A)
    <2> HIDE DEF ws
    <2> QED
      BY <1>2, <1>7, WeighedPaired, Zenon
  <1>9. Heavier(G.vs, v, i, t, r, w, ws)
    <2> HIDE DEF ws
    <2> QED
      BY <1>2, <1>5, <1>7, WeighedSums, Zenon
  <1> HIDE DEF t, r, x, ws, H, e
  <1>10. /\ deg \in Seq(Int) /\ Len(deg) = n
         /\ deg[v] = G.deg[v] + w - x /\ deg[t] = G.deg[t] + w - x
         /\ \A u \in 1 .. n : u # v /\ u # t => deg[u] = G.deg[u]
    <2> DEFINE mid == Shifted(G.deg, v, w, x)
    <2>1. IsShifted(G.deg, v, w, x, mid)
      BY <1>2, <1>3, <1>5, ShiftedFacts, Zenon
    <2> HIDE DEF mid
    <2>2. mid \in Seq(Int) /\ Len(mid) = n /\ t \in 1 .. Len(mid)
      BY <1>2, <1>5, <2>1 DEF IsShifted
    <2>3. IsShifted(mid, t, w, x, deg)
      BY <1>5, <2>2, ShiftedFacts DEF ShiftedTwice, mid
    <2> HIDE DEF deg
    <2> QED
      BY <1>2, <1>5, <2>1, <2>2, <2>3, Zenon DEF IsShifted
  <1> HIDE DEF deg
  <1>11. ws \in Adj /\ Len(ws) = n /\ \A u \in 1 .. n : Len(ws[u]) = Len(G.vs[u])
    BY <1>7 DEF IsWeighed
  <1>12. IsPut(G, ws, deg, G.m, H)
    BY <1>2, <1>3, <1>6, <1>10, <1>11, PutFacts
  <1>13. /\ H \in Objects /\ H.vs = ws /\ H.deg = deg /\ H.m = G.m
         /\ H.cont = G.cont /\ H.pos = G.pos /\ H.last = G.last
    BY <1>12 DEF IsPut
  <1>14. ASSUME NEW u \in 1 .. n PROVE deg[u] = RowSum(ws[u])
    <2>1. CASE u = v
      BY <1>2, <1>9, <1>10, <2>1 DEF Heavier, x, e
    <2>2. CASE u = t
      BY <1>2, <1>5, <1>9, <1>10, <2>2 DEF Heavier
    <2>3. CASE u # v /\ u # t
      BY <1>2, <1>9, <1>10, <2>3, Zenon DEF Heavier
    <2> QED
      BY <2>1, <2>2, <2>3
  <1>15. Live(H, A, c, {}, {}, 0)
    <2>1. \A u \in 1 .. Len(H.vs) : A[u] = 1 .. Len(H.vs[u]) /\ c[u] = Len(H.vs[u])
      BY <1>2, <1>11, <1>13
    <2>2. \A u \in 1 .. Len(H.vs) : H.deg[u] = RowSum(H.vs[u])
      BY <1>11, <1>13, <1>14
    <2>3. /\ H \in Objects /\ Paired(H.vs, A) /\ Len(H.deg) = Len(H.vs)
          /\ c \in [1 .. Len(H.vs) -> Int] /\ H.m = Sum(c, 1 .. Len(H.vs)) + 0
      BY <1>3, <1>8, <1>10, <1>11, <1>13
    <2> QED
      BY <2>1, <2>2, <2>3 DEF Live
  <1>16. Named(Len(H.vs), H.last, H.cont, H.pos, R)
    BY <1>11, <1>13 DEF Sound
  <1> QED
    BY <1>15, <1>16 DEF Sound, Alive, H

SpentTwice(deg, v, t, w) == Spent(Spent(deg, v, w), t, w)
Cut(G, v, i, t, r, w) ==
    Put(G, WithoutEdge(WithoutEdge(G.vs, v, i), t, r), SpentTwice(G.deg, v, t, w), G.m - 2)

IsEdge(G, v, i, t, r, w, vs) ==
    /\ G \in Objects /\ v \in 1 .. Len(G.vs) /\ i \in 1 .. Len(G.vs[v])
    /\ t \in 1 .. Len(G.vs) /\ t = G.vs[v][i].to /\ r = G.vs[v][i].rev
    /\ w = G.vs[v][i].w /\ t # v /\ Len(G.deg) = Len(G.vs)
    /\ vs = WithoutEdge(G.vs, v, i) /\ vs \in Adj /\ Len(vs) = Len(G.vs)
    /\ r \in 1 .. Len(vs[t])

\* deleteEdge, written field by field.
LEMMA DeleteEdgeIs ==
    ASSUME NEW G, NEW v, NEW i, NEW t, NEW r, NEW w, NEW vs, IsEdge(G, v, i, t, r, w, vs)
    PROVE  DeleteEdge(G, v, i) = Cut(G, v, i, t, r, w)
  <1>0. /\ G \in Objects /\ v \in 1 .. Len(G.vs) /\ i \in 1 .. Len(G.vs[v])
        /\ t \in 1 .. Len(G.vs) /\ t = G.vs[v][i].to /\ r = G.vs[v][i].rev
        /\ w = G.vs[v][i].w /\ t # v /\ Len(G.deg) = Len(G.vs)
        /\ vs = WithoutEdge(G.vs, v, i) /\ vs \in Adj /\ Len(vs) = Len(G.vs)
        /\ r \in 1 .. Len(vs[t])
    BY DEF IsEdge
  <1> DEFINE I == InternalDeleteEdge(G, v, i)
             J == InternalDeleteEdge(I, t, r)
             ws == WithoutEdge(vs, t, r)
             deg == SpentTwice(G.deg, v, t, w)
  <1>1. I = [G EXCEPT !.vs = vs]
    BY <1>0, InternalDeleteEdgeIs
  <1> HIDE DEF I
  <1>2. I \in Objects /\ I.vs = vs
    BY <1>0, <1>1, WithVs
  <1>3. J = [I EXCEPT !.vs = ws]
    <2>1. t \in 1 .. Len(I.vs) /\ r \in 1 .. Len(I.vs[t]) /\ I.vs = vs
      BY <1>0, <1>2
    <2>2. J = [I EXCEPT !.vs = WithoutEdge(I.vs, t, r)]
      BY <1>2, <2>1, InternalDeleteEdgeIs
    <2> QED
      BY <2>1, <2>2
  <1> HIDE DEF J, ws
  <1>4. J = [G EXCEPT !.vs = ws]
    <2>1. G \in Objects
      BY <1>0
    <2>2. [[G EXCEPT !.vs = vs] EXCEPT !.vs = ws] = [G EXCEPT !.vs = ws]
      BY <2>1, Zenon DEF Objects
    <2> QED
      BY <1>1, <1>3, <2>2
  <1>5. [G.deg EXCEPT ![v] = G.deg[v] - w, ![t] = G.deg[t] - w] = deg
    <2>1. t \in DOMAIN G.deg /\ t # v
      BY <1>0, ObjectFacts
    <2>2. Spent(G.deg, v, w)[t] = G.deg[t]
      BY <2>1 DEF Spent
    <2> QED
      BY <2>1, <2>2 DEF SpentTwice, Spent
  <1> HIDE DEF J, deg, ws
  <1>6. J.deg = G.deg /\ J.m = G.m
    BY <1>0, <1>4 DEF Objects
  <1>7. [J EXCEPT !.deg[v] = G.deg[v] - w, !.deg[t] = G.deg[t] - w, !.m = G.m - 2]
           = [J EXCEPT !.deg = deg, !.m = G.m - 2]
    BY <1>0, <1>4, <1>5, Zenon DEF Objects
  <1>8. [J EXCEPT !.deg = deg, !.m = G.m - 2] = Put(G, ws, deg, G.m - 2)
    BY <1>0, <1>4 DEF Put, Objects
  <1>9. DeleteEdge(G, v, i) =
           [J EXCEPT !.deg[v] = G.deg[v] - w, !.deg[t] = G.deg[t] - w, !.m = G.m - 2]
    BY <1>0, <1>6 DEF DeleteEdge, J, I
  <1> QED
    BY <1>0, <1>7, <1>8, <1>9, Zenon DEF Cut, deg, ws

\* Both copies of an edge go.
CutTwice(vs, v, i, t, r, n, ws) ==
    /\ ws \in Adj /\ Len(ws) = n
    /\ Len(ws[v]) = Len(vs[v]) - 1 /\ Len(ws[t]) = Len(vs[t]) - 1
    /\ RowSum(ws[v]) = RowSum(vs[v]) - vs[v][i].w /\ RowSum(ws[t]) = RowSum(vs[t]) - vs[v][i].w
    /\ \A u \in 1 .. n : u # v /\ u # t => Len(ws[u]) = Len(vs[u]) /\ RowSum(ws[u]) = RowSum(vs[u])
    /\ Paired(ws, [u \in 1 .. n |-> 1 .. Len(ws[u])])

CanCut(vs, v, i, t, r, n, xs, ws) ==
    /\ t \in 1 .. n /\ t # v /\ vs[v][i].w \in Int
    /\ xs \in Adj /\ Len(xs) = n /\ r \in 1 .. Len(xs[t]) /\ CutTwice(vs, v, i, t, r, n, ws)

\* Deleting one copy of an edge and then the other.
LEMMA CutsTwice ==
    ASSUME NEW vs \in Adj, NEW n, n = Len(vs), NEW A, Paired(vs, A),
           \A u \in 1 .. n : A[u] = 1 .. Len(vs[u]),
           NEW v \in 1 .. n, NEW i \in 1 .. Len(vs[v]), NEW t, t = vs[v][i].to,
           NEW r, r = vs[v][i].rev,
           NEW xs, xs = WithoutEdge(vs, v, i), NEW ws, ws = WithoutEdge(xs, t, r)
    PROVE  CanCut(vs, v, i, t, r, n, xs, ws)
  <1> DEFINE L == Len(vs[v])
             Lt == Len(vs[t])
             K == KilledSet(vs, A, v, i)
             B == [K EXCEPT ![v] = 1 .. L - 1]
             C == [B EXCEPT ![t] = 1 .. Lt - 1]
  <1>1. i \in A[v] /\ n \in Nat /\ L \in Nat
    BY RowFacts
  <1>2. Mated(vs, A, v, i, t, r)
    BY <1>1, MateFacts
  <1>3. /\ t \in 1 .. n /\ t # v /\ r \in 1 .. Lt /\ vs[v][i].w \in Int /\ vs[t][r].w = vs[v][i].w
    BY <1>2, Zenon DEF Mated, Edge
  <1>4. Killed(vs, A, v, i, K)
    BY <1>1, KilledExists
  <1>5. Paired(vs, K)
    BY <1>1, <1>4, KilledPaired
  <1>6. /\ K \in [1 .. n -> SUBSET Nat] /\ K[v] = (1 .. L) \ {i} /\ K[t] = (1 .. Lt) \ {r}
        /\ \A u \in 1 .. n : u # v /\ u # t => K[u] = 1 .. Len(vs[u])
    BY <1>3, <1>4, Zenon DEF Killed
  <1> HIDE DEF K
  <1>7. IsWithout(vs, v, i, xs) /\ Paired(xs, B)
    BY <1>5, <1>6, WithoutKeeps, Zenon
  <1>8. Lighter(vs, v, i, xs)
    BY <1>7, WithoutSums
  <1>9. /\ xs \in Adj /\ Len(xs) = n /\ Len(xs[v]) = L - 1
        /\ \A u \in 1 .. n : u # v => Len(xs[u]) = Len(vs[u])
    BY <1>7 DEF IsWithout
  <1>10. /\ B \in [1 .. n -> SUBSET Nat] /\ B[v] = 1 .. L - 1 /\ B[t] = (1 .. Len(xs[t])) \ {r}
         /\ \A u \in 1 .. n : u # v /\ u # t => B[u] = 1 .. Len(vs[u])
         /\ Len(xs[t]) = Lt
    BY <1>3, <1>6, <1>9, <1>7, Zenon DEF Paired
  <1> HIDE DEF B
  <1>11. IsWithout(xs, t, r, ws) /\ Paired(ws, C)
    BY <1>3, <1>7, <1>9, <1>10, WithoutKeeps, Zenon
  <1>12. Lighter(xs, t, r, ws)
    BY <1>3, <1>9, <1>10, <1>11, WithoutSums, Zenon
  <1>13. /\ ws \in Adj /\ Len(ws) = n /\ Len(ws[t]) = Lt - 1
         /\ \A u \in 1 .. n : u # t => Len(ws[u]) = Len(xs[u])
    BY <1>9, <1>10, <1>11, Zenon DEF IsWithout
  <1>14. C = [u \in 1 .. n |-> 1 .. Len(ws[u])]
    <2>1. C \in [1 .. n -> SUBSET Nat]
      BY <1>9, <1>11, <1>13, Zenon DEF Paired
    <2>2. C[t] = 1 .. Len(ws[t])
      BY <1>3, <1>10, <1>13, Zenon
    <2>3. ASSUME NEW u \in 1 .. n, u # t PROVE C[u] = 1 .. Len(ws[u])
      <3>1. C[u] = B[u] /\ Len(ws[u]) = Len(xs[u])
        BY <1>10, <1>13, <2>3
      <3> HIDE DEF C
      <3>2. CASE u = v
        BY <1>9, <1>10, <3>1, <3>2
      <3>3. CASE u # v
        BY <1>9, <1>10, <2>3, <3>1, <3>3
      <3> QED
        BY <3>2, <3>3
    <2> HIDE DEF C
    <2> QED
      BY <2>1, <2>2, <2>3
  <1>15. RowSum(ws[t]) = RowSum(vs[t]) - vs[v][i].w
    <2>1. RowSum(ws[t]) = RowSum(xs[t]) - xs[t][r].w
      BY <1>12, Zenon DEF Lighter
    <2>2. RowSum(xs[t]) = RowSum(vs[t]) /\ xs[t][r].w = vs[t][r].w
      BY <1>3, <1>8 DEF Lighter
    <2> QED
      BY <1>3, <2>1, <2>2
  <1>16. RowSum(ws[v]) = RowSum(vs[v]) - vs[v][i].w
    <2>1. RowSum(ws[v]) = RowSum(xs[v])
      BY <1>3, <1>9, <1>12, Zenon DEF Lighter
    <2>2. RowSum(xs[v]) = RowSum(vs[v]) - vs[v][i].w
      BY <1>8 DEF Lighter
    <2> QED
      BY <2>1, <2>2
  <1>17. ASSUME NEW u \in 1 .. n, u # v, u # t
         PROVE  Len(ws[u]) = Len(vs[u]) /\ RowSum(ws[u]) = RowSum(vs[u])
    <2>1. RowSum(xs[u]) = RowSum(vs[u])
      BY <1>8, <1>17 DEF Lighter
    <2>2. RowSum(ws[u]) = RowSum(xs[u])
      BY <1>9, <1>12, <1>17, Zenon DEF Lighter
    <2> QED
      BY <1>9, <1>13, <1>17, <2>1, <2>2
  <1>18. Paired(ws, [u \in 1 .. n |-> 1 .. Len(ws[u])])
    BY <1>11, <1>14
  <1>19. Len(ws[v]) = L - 1
    BY <1>3, <1>9, <1>13, Zenon
  <1> QED
    BY <1>3, <1>9, <1>10, <1>13, <1>15, <1>16, <1>17, <1>18, <1>19, Zenon DEF CutTwice, CanCut

\* deleteEdge keeps what holds between calls.
LEMMA DeleteKeeps ==
    ASSUME NEW G, NEW R, Sound(G, R), NEW v \in 1 .. Len(G.vs), NEW i \in 1 .. Len(G.vs[v])
    PROVE  Sound(DeleteEdge(G, v, i), R)
  <1> DEFINE n == Len(G.vs)
             t == G.vs[v][i].to
             r == G.vs[v][i].rev
             w == G.vs[v][i].w
             xs == WithoutEdge(G.vs, v, i)
             ws == WithoutEdge(xs, t, r)
             deg == SpentTwice(G.deg, v, t, w)
             B == [u \in 1 .. n |-> 1 .. Len(ws[u])]
             d == [u \in 1 .. n |-> Len(ws[u])]
             H == DeleteEdge(G, v, i)
  <1>1. PICK A, c : Live(G, A, c, {}, {}, 0)
    BY DEF Sound, Alive
  <1>2. /\ G \in Objects /\ G.vs \in Adj /\ Paired(G.vs, A) /\ n \in Nat /\ Len(G.deg) = n
        /\ \A u \in 1 .. n : A[u] = 1 .. Len(G.vs[u]) /\ c[u] = Len(G.vs[u]) /\ G.deg[u] = RowSum(G.vs[u])
    BY <1>1, AliveFacts
  <1>3. G.deg \in Seq(Int) /\ G.m \in Int /\ c \in [1 .. n -> Int] /\ G.m = Sum(c, 1 .. n) + 0
    BY <1>1, <1>2, ObjectFacts DEF Live
  <1>4. /\ t \in 1 .. n /\ t # v /\ w \in Int
        /\ xs \in Adj /\ Len(xs) = n /\ r \in 1 .. Len(xs[t]) /\ CutTwice(G.vs, v, i, t, r, n, ws)
    <2>1. CanCut(G.vs, v, i, t, r, n, xs, ws)
      BY <1>2, CutsTwice, Zenon
    <2> QED
      BY <2>1 DEF CanCut
  <1>5. H = Put(G, ws, deg, G.m - 2)
    <2> HIDE DEF xs, t, r, w
    <2>1. xs = WithoutEdge(G.vs, v, i) /\ t = G.vs[v][i].to /\ r = G.vs[v][i].rev /\ w = G.vs[v][i].w
      BY DEF xs, t, r, w
    <2>3. IsEdge(G, v, i, t, r, w, xs)
      BY <1>2, <1>4, <2>1 DEF IsEdge
    <2>2. H = Cut(G, v, i, t, r, w)
      BY <2>3, DeleteEdgeIs
    <2> QED
      BY <2>2 DEF Cut, xs, t, r, w
  <1> HIDE DEF t, r, w, xs, ws, deg, H
  <1>6. /\ deg \in Seq(Int) /\ Len(deg) = n
        /\ deg[v] = G.deg[v] - w /\ deg[t] = G.deg[t] - w
        /\ \A u \in 1 .. n : u # v /\ u # t => deg[u] = G.deg[u]
    <2> DEFINE mid == Spent(G.deg, v, w)
    <2>1. IsSpent(G.deg, v, w, mid)
      BY <1>2, <1>3, <1>4, SpentFacts, Zenon
    <2> HIDE DEF mid
    <2>2. mid \in Seq(Int) /\ Len(mid) = n /\ t \in 1 .. Len(mid)
      BY <1>2, <1>4, <2>1 DEF IsSpent
    <2>3. IsSpent(mid, t, w, deg)
      BY <1>4, <2>2, SpentFacts DEF SpentTwice, mid, deg
    <2> QED
      BY <1>2, <1>4, <2>1, <2>2, <2>3, Zenon DEF IsSpent
  <1>7. /\ ws \in Adj /\ Len(ws) = n
        /\ Len(ws[v]) = Len(G.vs[v]) - 1 /\ Len(ws[t]) = Len(G.vs[t]) - 1
        /\ RowSum(ws[v]) = RowSum(G.vs[v]) - w /\ RowSum(ws[t]) = RowSum(G.vs[t]) - w
        /\ \A u \in 1 .. n : u # v /\ u # t =>
              Len(ws[u]) = Len(G.vs[u]) /\ RowSum(ws[u]) = RowSum(G.vs[u])
        /\ Paired(ws, B)
    BY <1>4 DEF CutTwice, w
  <1>8. IsPut(G, ws, deg, G.m - 2, H)
    BY <1>2, <1>3, <1>5, <1>6, <1>7, PutFacts
  <1>9. /\ H \in Objects /\ H.vs = ws /\ H.deg = deg /\ H.m = G.m - 2
        /\ H.cont = G.cont /\ H.pos = G.pos /\ H.last = G.last
    BY <1>8 DEF IsPut
  <1>10. d \in [1 .. n -> Int] /\ B = [u \in 1 .. n |-> 1 .. Len(ws[u])]
    BY <1>7, RowFacts
  <1>11. G.m - 2 = Sum(d, 1 .. n)
    <2>1. \A u \in 1 .. n : Len(G.vs[u]) \in Nat
      BY <1>2, RowFacts
    <2>2. /\ d[v] = c[v] - 1 /\ d[t] = c[t] - 1 /\ c[v] \in Int /\ c[t] \in Int
          /\ \A u \in 1 .. n : u # v /\ u # t => d[u] = c[u]
      <3>1. d[v] = Len(ws[v]) /\ d[t] = Len(ws[t]) /\ \A u \in 1 .. n : d[u] = Len(ws[u])
        BY <1>4
      <3> HIDE DEF d
      <3>2. c[v] = Len(G.vs[v]) /\ c[t] = Len(G.vs[t]) /\ \A u \in 1 .. n : c[u] = Len(G.vs[u])
        BY <1>2, <1>4
      <3> QED
        <4>1. d[v] = c[v] - 1 /\ c[v] \in Int
          BY <1>4, <1>7, <2>1, <3>1, <3>2
        <4>2. d[t] = c[t] - 1 /\ c[t] \in Int
          BY <1>4, <1>7, <2>1, <3>1, <3>2
        <4>3. \A u \in 1 .. n : u # v /\ u # t => d[u] = c[u]
          BY <1>7, <3>1, <3>2
        <4> QED
          BY <4>1, <4>2, <4>3
    <2> HIDE DEF d
    <2>3. DifferAt(c, d, n, v, t)
      BY <1>2, <1>3, <1>4, <1>10, <2>2, SumTwo, Zenon
    <2> QED
      BY <1>3, <2>2, <2>3 DEF DifferAt
  <1>12. ASSUME NEW u \in 1 .. n
         PROVE  B[u] = 1 .. Len(ws[u]) /\ d[u] = Len(ws[u]) /\ deg[u] = RowSum(ws[u])
    <2>1. CASE u = v
      BY <1>2, <1>6, <1>7, <2>1, Zenon
    <2>2. CASE u = t
      BY <1>2, <1>6, <1>7, <2>2, Zenon
    <2>3. CASE u # v /\ u # t
      BY <1>2, <1>6, <1>7, <2>3
    <2> QED
      BY <2>1, <2>2, <2>3
  <1>13. Live(H, B, d, {}, {}, 0)
    <2> HIDE DEF B, d
    <2>1. G.m - 2 = Sum(d, 1 .. n) + 0
      BY <1>3, <1>11
    <2> QED
      BY <1>6, <1>7, <1>9, <1>10, <1>12, <2>1, Zenon DEF Live
  <1>14. Named(Len(H.vs), H.last, H.cont, H.pos, R)
    BY <1>7, <1>9 DEF Sound
  <1> QED
    BY <1>13, <1>14 DEF Sound, Alive, H

\* An edge is entered at the ends of two arrays.
Entered(vs, s, t, w) ==
    Appended(Appended(vs, s, RevEdge(t, w, Len(vs[t]) + 1)), t, RevEdge(s, w, Len(vs[s]) + 1))

EarnedTwice(deg, s, t, w) == Earned(Earned(deg, s, w), t, w)
EdgeMade(G, s, t, w) == Put(G, Entered(G.vs, s, t, w), EarnedTwice(G.deg, s, t, w), G.m + 2)

\* new_edge, written field by field.
LEMMA NewEdgeIs ==
    ASSUME NEW G \in Objects, NEW s \in 1 .. Len(G.vs), NEW t \in 1 .. Len(G.vs), s < t, NEW w,
           Len(G.deg) = Len(G.vs)
    PROVE  NewEdge(G, s, t, w) = EdgeMade(G, s, t, w)
  <1> DEFINE a == RevEdge(t, w, Len(G.vs[t]) + 1)
             b == RevEdge(s, w, Len(G.vs[s]) + 1)
             vs == Entered(G.vs, s, t, w)
             deg == EarnedTwice(G.deg, s, t, w)
  <1>1. s # t /\ t \in DOMAIN G.vs /\ t \in DOMAIN G.deg
    BY ObjectFacts
  <1>2. [G.deg EXCEPT ![s] = G.deg[s] + w, ![t] = G.deg[t] + w] = deg
    <2>1. Earned(G.deg, s, w)[t] = G.deg[t]
      BY <1>1 DEF Earned
    <2> QED
      BY <1>1, <2>1 DEF EarnedTwice, Earned
  <1> HIDE DEF a, b
  <1>3. [G.vs EXCEPT ![s] = Append(G.vs[s], a), ![t] = Append(G.vs[t], b)] = vs
    <2>1. Appended(G.vs, s, a)[t] = G.vs[t]
      BY <1>1 DEF Appended, PutRow
    <2>2. vs = Appended(Appended(G.vs, s, a), t, b)
      BY DEF Entered, a, b
    <2> HIDE DEF vs
    <2> QED
      BY <1>1, <2>1, <2>2, Zenon DEF Appended, PutRow
  <1> HIDE DEF vs, deg
  <1>4. NewEdge(G, s, t, w) =
           [G EXCEPT !.vs[s] = Append(G.vs[s], a), !.vs[t] = Append(G.vs[t], b), !.m = G.m + 2,
                     !.deg[s] = G.deg[s] + w, !.deg[t] = G.deg[t] + w]
    BY DEF NewEdge, a, b
  <1>5. NewEdge(G, s, t, w) = [G EXCEPT !.vs = vs, !.m = G.m + 2, !.deg = deg]
    BY <1>2, <1>3, <1>4, Zenon DEF Objects
  <1>6. [G EXCEPT !.vs = vs, !.m = G.m + 2, !.deg = deg] = Put(G, vs, deg, G.m + 2)
    BY Zenon DEF Put, Objects
  <1> QED
    BY <1>5, <1>6 DEF EdgeMade, vs, deg

IsRev(e, t, w, r) == e \in Edge /\ e.to = t /\ e.w = w /\ e.rev = r

\* The fields of a new edge.
LEMMA IsRevEdge ==
    ASSUME NEW t \in Nat, NEW w \in Int, NEW r \in Nat
    PROVE  IsRev(RevEdge(t, w, r), t, w, r)
  BY DEF IsRev, RevEdge, Edge

EnteredTwo(vs, s, t, w, n, ws) ==
    /\ ws \in Adj /\ Len(ws) = n
    /\ Len(ws[s]) = Len(vs[s]) + 1 /\ Len(ws[t]) = Len(vs[t]) + 1
    /\ RowSum(ws[s]) = RowSum(vs[s]) + w /\ RowSum(ws[t]) = RowSum(vs[t]) + w
    /\ \A u \in 1 .. n : u # s /\ u # t => ws[u] = vs[u]
    /\ \A u \in 1 .. n : \A j \in 1 .. Len(vs[u]) : ws[u][j] = vs[u][j]
    /\ ws[s][Len(vs[s]) + 1].to = t /\ ws[s][Len(vs[s]) + 1].w = w
    /\ ws[t][Len(vs[t]) + 1].to = s /\ ws[t][Len(vs[t]) + 1].w = w
    /\ Paired(ws, [u \in 1 .. n |-> 1 .. Len(ws[u])])

\* The pairs and weights when an edge is appended to two rows.
LEMMA EntersTwo ==
    ASSUME NEW vs \in Adj, NEW n, n = Len(vs), NEW A, Paired(vs, A),
           \A u \in 1 .. n : A[u] = 1 .. Len(vs[u]),
           NEW s \in 1 .. n, NEW t \in 1 .. n, s # t, NEW w \in Int,
           \A j \in 1 .. Len(vs[s]) : vs[s][j].to # t,
           NEW ws, ws = Entered(vs, s, t, w)
    PROVE  EnteredTwo(vs, s, t, w, n, ws)
  <1> DEFINE p == Len(vs[s]) + 1
             q == Len(vs[t]) + 1
             a == RevEdge(t, w, q)
             b == RevEdge(s, w, p)
             xs == Appended(vs, s, a)
             B == [u \in 1 .. n |-> 1 .. Len(ws[u])]
  <1>1. /\ n \in Nat /\ Len(vs[s]) \in Nat /\ Len(vs[t]) \in Nat /\ p \in Nat /\ q \in Nat
        /\ vs[s] \in Row /\ vs[t] \in Row
    BY RowFacts
  <1>2. /\ a \in Edge /\ a.to = t /\ a.w = w /\ a.rev = q
        /\ b \in Edge /\ b.to = s /\ b.w = w /\ b.rev = p
    <2> HIDE DEF p, q, a, b
    <2>3. s \in Nat /\ t \in Nat /\ p \in Nat /\ q \in Nat
      BY <1>1
    <2>4. IsRev(RevEdge(t, w, q), t, w, q)
      BY <2>3, IsRevEdge, Zenon
    <2>5. IsRev(RevEdge(s, w, p), s, w, p)
      BY <2>3, IsRevEdge, Zenon
    <2>1. /\ a \in Edge /\ a.to = t /\ a.w = w /\ a.rev = q
      BY <2>4 DEF a, IsRev
    <2>2. /\ b \in Edge /\ b.to = s /\ b.w = w /\ b.rev = p
      BY <2>5 DEF b, IsRev
    <2> QED
      BY <2>1, <2>2
  <1>3. ws = Appended(xs, t, b)
    BY DEF Entered
  <1> HIDE DEF a, b
  <1>4. IsAppended(vs, s, a, xs)
    BY <1>2, AppendedFacts
  <1> HIDE DEF xs
  <1>5. /\ xs \in Adj /\ Len(xs) = n /\ Len(xs[s]) = p /\ xs[s][p] = a
        /\ \A j \in 1 .. Len(vs[s]) : xs[s][j] = vs[s][j]
        /\ \A u \in 1 .. n : u # s => xs[u] = vs[u]
    BY <1>4 DEF IsAppended
  <1>6. IsAppended(xs, t, b, ws)
    BY <1>2, <1>3, <1>5, AppendedFacts
  <1>7. /\ ws \in Adj /\ Len(ws) = n /\ Len(ws[t]) = q /\ ws[t][q] = b
        /\ \A j \in 1 .. Len(vs[t]) : ws[t][j] = vs[t][j]
        /\ \A u \in 1 .. n : u # t => ws[u] = xs[u]
    BY <1>5, <1>6, Zenon DEF IsAppended
  <1>8. /\ Len(ws[s]) = p /\ ws[s][p] = a /\ \A j \in 1 .. Len(vs[s]) : ws[s][j] = vs[s][j]
        /\ \A u \in 1 .. n : u # s /\ u # t => ws[u] = vs[u]
    BY <1>5, <1>7, Zenon
  <1>9. /\ ws[s][p].to = t /\ ws[s][p].w = w /\ ws[s][p].rev = q
        /\ ws[t][q].to = s /\ ws[t][q].w = w /\ ws[t][q].rev = p
    BY <1>2, <1>7, <1>8
  <1>10. \A u \in 1 .. n : \A j \in 1 .. Len(vs[u]) : ws[u][j] = vs[u][j]
    BY <1>7, <1>8, Zenon
  <1>11. ws[s] \in Row /\ ws[t] \in Row
    BY <1>7, RowFacts, Zenon
  <1>12. RowSum(ws[s]) = RowSum(vs[s]) + w
    <2>1. Len(ws[s]) = Len(vs[s]) + 1 /\ \A j \in 1 .. Len(vs[s]) : vs[s][j].w = ws[s][j].w
      BY <1>8, Zenon
    <2>2. Gains(vs[s], ws[s])
      BY <1>1, <1>11, <2>1, RowSumAppend, Zenon
    <2> QED
      BY <1>9, <2>2 DEF Gains
  <1>13. RowSum(ws[t]) = RowSum(vs[t]) + w
    <2>1. Len(ws[t]) = Len(vs[t]) + 1 /\ \A j \in 1 .. Len(vs[t]) : vs[t][j].w = ws[t][j].w
      BY <1>7, Zenon
    <2>2. Gains(vs[t], ws[t])
      BY <1>1, <1>11, <2>1, RowSumAppend, Zenon
    <2> QED
      BY <1>9, <2>2 DEF Gains
  <1>14. Paired(ws, B)
    <2>1. \A u \in 1 .. n : Len(ws[u]) \in Nat
      BY <1>7, RowFacts, Zenon
    <2>2. B \in [1 .. n -> SUBSET Nat]
      BY <2>1
    <2>3. B[s] = A[s] \cup {p} /\ B[t] = A[t] \cup {q}
      <3>1. B[s] = 1 .. p /\ B[t] = 1 .. q
        BY <1>7, <1>8
      <3>2. A[s] = 1 .. Len(vs[s]) /\ A[t] = 1 .. Len(vs[t])
        OBVIOUS
      <3> HIDE DEF B
      <3> QED
        BY <1>1, <3>1, <3>2
    <2>4. \A u \in 1 .. n : u # s /\ u # t => B[u] = A[u]
      BY <1>8
    <2> HIDE DEF B
    <2>5. Added(Len(vs), A, s, p, t, q, B)
      BY <2>2, <2>3, <2>4 DEF Added
    <2>6. Keeps(vs, A, ws)
      <3>1. ASSUME NEW u \in 1 .. n, NEW j \in A[u] PROVE ws[u][j] = vs[u][j] /\ j \in 1 .. Len(ws[u])
        <4>1. j \in 1 .. Len(vs[u]) /\ Len(vs[u]) \in Nat
          BY <3>1, RowFacts, Zenon
        <4>2. Len(ws[u]) = Len(vs[u]) \/ Len(ws[u]) = Len(vs[u]) + 1
          BY <1>7, <1>8, Zenon
        <4> QED
          BY <1>10, <4>1, <4>2
      <3> QED
        BY <3>1, Zenon DEF Keeps
    <2>7. p \in 1 .. Len(ws[s]) /\ p \notin A[s] /\ q \in 1 .. Len(ws[t]) /\ q \notin A[t]
      BY <1>1, <1>7, <1>8
    <2>8. \A j \in A[s] : vs[s][j].to # t
      OBVIOUS
    <2>9. ws[s][p].w = ws[t][q].w
      BY <1>9
    <2> HIDE DEF p, q
    <2> QED
      BY <1>7, <1>9, <2>5, <2>6, <2>7, <2>8, <2>9, AddedPaired, Zenon
  <1> QED
    BY <1>7, <1>8, <1>9, <1>10, <1>12, <1>13, <1>14 DEF EnteredTwo

\* The object after NewEdge.
Made(G, s, t, w, H) ==
    /\ Alive(H) /\ SameNames(G, H) /\ H.vs = Entered(G.vs, s, t, w)
    /\ EnteredTwo(G.vs, s, t, w, Len(G.vs), H.vs)

\* new_edge between vertices without an edge.
LEMMA NewEdgeMakes ==
    ASSUME NEW G, Alive(G), NEW s \in 1 .. Len(G.vs), NEW t \in 1 .. Len(G.vs), s < t,
           \A j \in 1 .. Len(G.vs[s]) : G.vs[s][j].to # t, NEW w \in Int,
           NEW H, H = NewEdge(G, s, t, w)
    PROVE  Made(G, s, t, w, H)
  <1> DEFINE n == Len(G.vs)
             ws == Entered(G.vs, s, t, w)
             deg == EarnedTwice(G.deg, s, t, w)
             B == [u \in 1 .. n |-> 1 .. Len(ws[u])]
             d == [u \in 1 .. n |-> Len(ws[u])]
  <1>1. PICK A, c : Live(G, A, c, {}, {}, 0)
    BY DEF Alive
  <1>2. /\ G \in Objects /\ G.vs \in Adj /\ Paired(G.vs, A) /\ n \in Nat /\ Len(G.deg) = n
        /\ \A u \in 1 .. n : /\ A[u] = 1 .. Len(G.vs[u]) /\ c[u] = Len(G.vs[u])
                             /\ G.deg[u] = RowSum(G.vs[u]) /\ Len(G.vs[u]) \in Nat
    BY <1>1, AliveFacts
  <1>3. G.deg \in Seq(Int) /\ G.m \in Int /\ c \in [1 .. n -> Int] /\ G.m = Sum(c, 1 .. n) + 0
    BY <1>1, <1>2, ObjectFacts DEF Live
  <1>4. s # t /\ EnteredTwo(G.vs, s, t, w, n, ws)
    <2>1. s # t
      OBVIOUS
    <2> HIDE DEF ws
    <2>2. ws = Entered(G.vs, s, t, w)
      BY DEF ws
    <2>3. EnteredTwo(G.vs, s, t, w, n, ws)
      BY <1>2, <2>1, <2>2, EntersTwo, Zenon
    <2> QED
      BY <2>1, <2>3
  <1>5. H = Put(G, ws, deg, G.m + 2)
    BY <1>2, NewEdgeIs DEF EdgeMade
  <1> HIDE DEF ws, deg
  <1>6. /\ deg \in Seq(Int) /\ Len(deg) = n
        /\ deg[s] = G.deg[s] + w /\ deg[t] = G.deg[t] + w
        /\ \A u \in 1 .. n : u # s /\ u # t => deg[u] = G.deg[u]
    <2> DEFINE mid == Earned(G.deg, s, w)
    <2>1. IsEarned(G.deg, s, w, mid)
      BY <1>2, <1>3, <1>4, EarnedFacts
    <2> HIDE DEF mid
    <2>2. mid \in Seq(Int) /\ Len(mid) = n /\ t \in 1 .. Len(mid)
      BY <1>2, <1>4, <2>1 DEF IsEarned
    <2>3. IsEarned(mid, t, w, deg)
      BY <1>4, <2>2, EarnedFacts DEF EarnedTwice, mid, deg
    <2> QED
      BY <1>2, <1>4, <2>1, <2>2, <2>3, Zenon DEF IsEarned
  <1>7. /\ ws \in Adj /\ Len(ws) = n
        /\ Len(ws[s]) = Len(G.vs[s]) + 1 /\ Len(ws[t]) = Len(G.vs[t]) + 1
        /\ RowSum(ws[s]) = RowSum(G.vs[s]) + w /\ RowSum(ws[t]) = RowSum(G.vs[t]) + w
        /\ \A u \in 1 .. n : u # s /\ u # t => ws[u] = G.vs[u]
        /\ Paired(ws, B)
    BY <1>4 DEF EnteredTwo
  <1>8. IsPut(G, ws, deg, G.m + 2, H)
    BY <1>2, <1>3, <1>5, <1>6, <1>7, PutFacts
  <1>9. /\ H \in Objects /\ H.vs = ws /\ H.deg = deg /\ H.m = G.m + 2
        /\ H.cont = G.cont /\ H.pos = G.pos /\ H.last = G.last
    BY <1>8 DEF IsPut
  <1>10. d \in [1 .. n -> Int] /\ B = [u \in 1 .. n |-> 1 .. Len(ws[u])]
    BY <1>7, RowFacts
  <1>11. G.m + 2 = Sum(d, 1 .. n)
    <2>2. /\ d[s] = c[s] + 1 /\ d[t] = c[t] + 1 /\ c[s] \in Int /\ c[t] \in Int
          /\ \A u \in 1 .. n : u # s /\ u # t => d[u] = c[u]
      <3>1. d[s] = Len(ws[s]) /\ d[t] = Len(ws[t]) /\ \A u \in 1 .. n : d[u] = Len(ws[u])
        OBVIOUS
      <3> HIDE DEF d
      <3>2. c[s] = Len(G.vs[s]) /\ c[t] = Len(G.vs[t]) /\ \A u \in 1 .. n : c[u] = Len(G.vs[u])
        BY <1>2
      <3> QED
        BY <1>2, <1>7, <3>1, <3>2
    <2> HIDE DEF d
    <2>3. DifferAt(c, d, n, s, t)
      BY <1>2, <1>3, <1>4, <1>10, <2>2, SumTwo, Zenon
    <2> QED
      BY <1>3, <2>2, <2>3 DEF DifferAt
  <1>12. ASSUME NEW u \in 1 .. n
         PROVE  B[u] = 1 .. Len(ws[u]) /\ d[u] = Len(ws[u]) /\ deg[u] = RowSum(ws[u])
    <2>1. CASE u = s
      BY <1>2, <1>6, <1>7, <2>1, Zenon
    <2>2. CASE u = t
      BY <1>2, <1>6, <1>7, <2>2, Zenon
    <2>3. CASE u # s /\ u # t
      BY <1>2, <1>6, <1>7, <2>3
    <2> QED
      BY <2>1, <2>2, <2>3
  <1>13. Live(H, B, d, {}, {}, 0)
    <2> HIDE DEF B, d
    <2>1. G.m + 2 = Sum(d, 1 .. n) + 0
      BY <1>3, <1>11
    <2> QED
      BY <1>6, <1>7, <1>9, <1>10, <1>12, <2>1, Zenon DEF Live
  <1>14. SameNames(G, H)
    BY <1>7, <1>9 DEF SameNames
  <1> QED
    BY <1>4, <1>9, <1>13, <1>14 DEF Made, Alive, ws

\* new_edge keeps what holds between calls.
LEMMA NewEdgeKeeps ==
    ASSUME NEW G, NEW R, Sound(G, R), NEW s \in 1 .. Len(G.vs), NEW t \in 1 .. Len(G.vs), s < t,
           \A j \in 1 .. Len(G.vs[s]) : G.vs[s][j].to # t, NEW w \in Int
    PROVE  Sound(NewEdge(G, s, t, w), R)
  <1> DEFINE H == NewEdge(G, s, t, w)
  <1>1. Made(G, s, t, w, H)
    BY NewEdgeMakes DEF Sound
  <1> QED
    BY <1>1 DEF Made, Sound, SameNames

-----------------------------------------------------------------------------
(* A vertex is deleted.                                                      *)

LastNamed(G, v) == [G EXCEPT !.pos = Place(G, G.cont[Len(G.vs)], v)]
Parted(G, v) ==
    [LastNamed(G, v) EXCEPT !.pos = Place(LastNamed(G, v), G.cont[v], Len(G.vs)),
                            !.cont[v] = G.cont[Len(G.vs)]]

IsParted(G, v, H) ==
    /\ H \in Objects /\ H.vs = G.vs /\ H.deg = G.deg /\ H.m = G.m /\ H.last = G.last
    /\ Len(H.pos) = Len(G.pos) /\ Len(H.cont) = Len(G.cont)
    /\ \A x \in 1 .. Len(G.pos) :
          H.pos[x] = IF x \in G.cont[v] THEN Len(G.vs)
                     ELSE IF x \in G.cont[Len(G.vs)] THEN v ELSE G.pos[x]
    /\ \A u \in 1 .. Len(G.cont) : H.cont[u] = IF u = v THEN G.cont[Len(G.vs)] ELSE G.cont[u]

\* deleteVertex gives the index of v to the last block, and the last index to v's.
LEMMA PartedFacts ==
    ASSUME NEW G \in Objects, NEW v \in 1 .. Len(G.vs), Len(G.vs) <= Len(G.cont)
    PROVE  IsParted(G, v, Parted(G, v))
  <1> DEFINE k == Len(G.vs)
             I == LastNamed(G, v)
             p == Place(I, G.cont[v], k)
             q == [G.cont EXCEPT ![v] = G.cont[k]]
             H == Parted(G, v)
  <1>1. k \in Nat /\ v \in Nat /\ k \in 1 .. Len(G.cont) /\ v \in 1 .. Len(G.cont)
        /\ G.cont \in Seq(SUBSET Nat) /\ Len(G.cont) \in Nat
    <2>1. k \in Nat /\ G.cont \in Seq(SUBSET Nat) /\ Len(G.cont) \in Nat
      BY ObjectFacts
    <2> QED
      BY <2>1
  <1>2. /\ Place(G, G.cont[k], v) \in Seq(Nat) /\ Len(Place(G, G.cont[k], v)) = Len(G.pos)
        /\ \A x \in 1 .. Len(G.pos) :
              Place(G, G.cont[k], v)[x] = IF x \in G.cont[k] THEN v ELSE G.pos[x]
    BY <1>1, PlaceFacts
  <1>3. I \in Objects /\ I.pos = Place(G, G.cont[k], v) /\ I.vs = G.vs /\ I.cont = G.cont
        /\ I.deg = G.deg /\ I.m = G.m /\ I.last = G.last
    BY <1>2, Zenon DEF LastNamed, Objects
  <1> HIDE DEF I
  <1>4. /\ p \in Seq(Nat) /\ Len(p) = Len(I.pos)
        /\ \A x \in 1 .. Len(I.pos) : p[x] = IF x \in G.cont[v] THEN k ELSE I.pos[x]
    <2> HIDE DEF k
    <2>1. I \in Objects /\ k \in Nat
      BY <1>1, <1>3
    <2> QED
      BY <2>1, PlaceFacts
  <1> HIDE DEF p
  <1>5. q \in Seq(SUBSET Nat) /\ Len(q) = Len(G.cont)
        /\ \A u \in 1 .. Len(G.cont) : q[u] = IF u = v THEN G.cont[k] ELSE G.cont[u]
    <2>1. G.cont[k] \in SUBSET Nat
      BY <1>1, ElementOfSeq
    <2>2. q \in Seq(SUBSET Nat) /\ Len(q) = Len(G.cont)
      BY <1>1, <2>1, ExceptSeq
    <2>3. DOMAIN G.cont = 1 .. Len(G.cont)
      BY ObjectFacts
    <2> QED
      BY <1>1, <2>2, <2>3
  <1>6. H = [I EXCEPT !.pos = p, !.cont = q]
    BY <1>3, Zenon DEF Parted, I, p, Objects
  <1> HIDE DEF q, H
  <1>7. H \in Objects /\ H.vs = I.vs /\ H.deg = I.deg /\ H.m = I.m /\ H.last = I.last
        /\ H.pos = p /\ H.cont = q
    BY <1>3, <1>4, <1>5, <1>6, Zenon DEF Objects
  <1> HIDE DEF k
  <1>8. \A x \in 1 .. Len(G.pos) :
          H.pos[x] = IF x \in G.cont[v] THEN k ELSE IF x \in G.cont[k] THEN v ELSE G.pos[x]
    BY <1>2, <1>3, <1>4, <1>7, Zenon
  <1> QED
    BY <1>2, <1>3, <1>4, <1>5, <1>7, <1>8 DEF IsParted, k, H

\* The stack of deleted blocks.
Blocks == [near : Nat, cont : SUBSET Nat]
Deleted(G, R, v, near) == Append(R, [near |-> near, cont |-> G.cont[v]])
IsDeleted(G, R, v, near, S) ==
    /\ S \in Seq(Blocks) /\ Len(S) = Len(R) + 1
    /\ \A k \in 1 .. Len(R) : S[k] = R[k]
    /\ S[Len(R) + 1].near = near /\ S[Len(R) + 1].cont = G.cont[v]

\* The stack gets the block of the deleted vertex.
LEMMA DeletedFacts ==
    ASSUME NEW G \in Objects, NEW R \in Seq(Blocks), NEW v \in 1 .. Len(G.cont), NEW near \in Nat
    PROVE  IsDeleted(G, R, v, near, Deleted(G, R, v, near))
  <1> DEFINE e == [near |-> near, cont |-> G.cont[v]]
  <1>1. G.cont[v] \in SUBSET Nat
    BY ObjectFacts, ElementOfSeq
  <1>2. e \in Blocks /\ e.near = near /\ e.cont = G.cont[v]
    BY <1>1 DEF Blocks
  <1> HIDE DEF e
  <1>3. Append(R, e) \in Seq(Blocks) /\ Len(Append(R, e)) = Len(R) + 1
        /\ \A k \in 1 .. Len(R) : Append(R, e)[k] = R[k]
        /\ Append(R, e)[Len(R) + 1] = e
    BY <1>2, AppendProperties
  <1>4. Deleted(G, R, v, near) = Append(R, e)
    BY DEF Deleted, e
  <1> QED
    BY <1>2, <1>3, <1>4 DEF IsDeleted

\* One vertex less and one deleted block more.
SameThreshold(n, r, k) == (n - 1) + (r + 1) - k + 1 = n + r - k + 1

\* One vertex less and one deleted block more.
LEMMA Threshold ==
    ASSUME NEW n \in Int, NEW r \in Int, NEW k \in Int
    PROVE  SameThreshold(n, r, k)
  BY DEF SameThreshold

\* The names of v are behind the last vertex from now on.
LEMMA PartedNamed ==
    ASSUME NEW G \in Objects, NEW R \in Seq(Blocks), NEW n \in Nat, n = Len(G.vs),
           Named(n, G.last, G.cont, G.pos, R), NEW v \in 1 .. n,
           NEW near \in 1 .. Len(G.pos), G.pos[near] \in 1 .. n, G.pos[near] # v,
           NEW S, IsDeleted(G, R, v, near, S),
           NEW H, IF v < n THEN IsParted(G, v, H) ELSE H = G
    PROVE  Named(n - 1, H.last - 1, H.cont, H.pos, S)
  <1> DEFINE P == 1 .. Len(G.pos)
             r == Len(R)
  <1>1. /\ n \in Nat /\ G.last = n /\ n <= Len(G.cont) /\ n \in 1 .. n
        /\ \A u \in 1 .. n : G.cont[u] \subseteq P
        /\ \A x \in P : \A u \in 1 .. n : x \in G.cont[u] <=> G.pos[x] = u
        /\ Len(G.cont) \in Nat /\ r \in Nat
    <2>1. Len(G.cont) \in Nat /\ Len(G.vs) \in Nat /\ r \in Nat
      BY ObjectFacts
    <2>2. /\ G.last = n /\ n <= Len(G.cont)
          /\ \A u \in 1 .. n : G.cont[u] \subseteq P
          /\ \A x \in P : \A u \in 1 .. n : x \in G.cont[u] <=> G.pos[x] = u
      BY Zenon DEF Named, Inverse2
    <2>3. n \in 1 .. n
      OBVIOUS
    <2> QED
      BY <2>1, <2>2, <2>3, Zenon
  <1>2. \A x \in P : G.pos[x] \in Nat
    <2>1. G.pos \in Seq(Nat)
      BY DEF Objects
    <2> QED
      BY <2>1, ElementOfSeq, Zenon
  <1>3. /\ H \in Objects /\ H.last = n /\ Len(H.pos) = Len(G.pos) /\ Len(H.cont) = Len(G.cont)
        /\ H.cont \in Seq(SUBSET Nat) /\ H.pos \in Seq(Nat)
    <2>1. /\ H \in Objects /\ H.last = n /\ Len(H.pos) = Len(G.pos) /\ Len(H.cont) = Len(G.cont)
      BY <1>1 DEF IsParted
    <2> QED
      BY <2>1, ObjectFacts
  <1>4. ASSUME NEW x \in P
        PROVE  H.pos[x] = IF G.pos[x] = v THEN n ELSE IF G.pos[x] = n THEN v ELSE G.pos[x]
    <2>1. (x \in G.cont[v] <=> G.pos[x] = v) /\ (x \in G.cont[n] <=> G.pos[x] = n)
      BY <1>1, Zenon
    <2>2. CASE v < n
      BY <2>1, <2>2 DEF IsParted
    <2>3. CASE ~(v < n)
      BY <1>1, <2>3
    <2> QED
      BY <2>2, <2>3
  <1>5. ASSUME NEW u \in 1 .. n - 1
        PROVE  H.cont[u] = IF u = v THEN G.cont[n] ELSE G.cont[u]
    <2>1. CASE v < n
      BY <1>1, <2>1 DEF IsParted
    <2>2. CASE ~(v < n)
      BY <1>1, <2>2
    <2> QED
      BY <2>1, <2>2
  <1>a. /\ \A k \in 1 .. r : \A x \in R[k].cont : x \in P /\ G.pos[x] >= n + r - k + 1
        /\ \A k \in 1 .. r :
              /\ R[k].near \in P
              /\ \/ G.pos[R[k].near] \in 1 .. n
                 \/ \E j \in k + 1 .. r : R[k].near \in R[j].cont
    BY Zenon DEF Named, Below
  <1>b. near \in P /\ v \in 1 .. n /\ G.pos[near] \in 1 .. n /\ G.pos[near] # v
    OBVIOUS
  <1>c. /\ Len(S) = r + 1 /\ \A k \in 1 .. r : S[k] = R[k]
        /\ S[r + 1].near = near /\ S[r + 1].cont = G.cont[v]
    BY DEF IsDeleted
  <1> HIDE DEF P, r
  <1>d. n \in Nat /\ r \in Nat /\ Len(S) = r + 1
    BY <1>1, <1>c
  <1>6. ASSUME NEW x \in P, NEW u \in 1 .. n - 1
        PROVE  x \in H.cont[u] <=> H.pos[x] = u
    <2>1. \A y \in 1 .. n : x \in G.cont[y] <=> G.pos[x] = y
      BY <1>1
    <2>a. /\ u \in 1 .. n /\ u # n
          /\ H.cont[u] = (IF u = v THEN G.cont[n] ELSE G.cont[u])
          /\ H.pos[x] = (IF G.pos[x] = v THEN n ELSE IF G.pos[x] = n THEN v ELSE G.pos[x])
      BY <1>1, <1>4, <1>5
    <2>2. CASE u = v
      <3>1. x \in H.cont[u] <=> G.pos[x] = n
        BY <1>1, <2>1, <2>2, <2>a, Zenon
      <3> QED
        BY <2>2, <2>a, <3>1
    <2>3. CASE u # v
      <3>1. x \in H.cont[u] <=> G.pos[x] = u
        BY <2>1, <2>3, <2>a
      <3> QED
        BY <2>3, <2>a, <3>1
    <2> QED
      BY <2>2, <2>3
  <1>7. Inverse2(n - 1, H.cont, H.pos)
    <2>1. ASSUME NEW u \in 1 .. n - 1 PROVE H.cont[u] \subseteq P
      <3>1. u \in 1 .. n /\ n \in 1 .. n
        BY <1>1
      <3>2. H.cont[u] = G.cont[n] \/ H.cont[u] = G.cont[u]
        BY <1>5
      <3> QED
        BY <1>1, <3>1, <3>2, Zenon
    <2> QED
      BY <1>3, <1>6, <2>1, Zenon DEF Inverse2, P
  <1>9. ASSUME NEW k \in 1 .. Len(S), NEW x \in S[k].cont
        PROVE  x \in P /\ H.pos[x] >= (n - 1) + Len(S) - k + 1
    <2>1. CASE k \in 1 .. r
      <3>1. x \in R[k].cont
        BY <1>c, <2>1
      <3>2. x \in P /\ G.pos[x] >= n + r - k + 1
        BY <1>a, <2>1, <3>1
      <3>3. G.pos[x] \in Nat
        BY <1>2, <3>2
      <3>5. G.pos[x] > n
        <4>1. k \in Int /\ k <= r /\ G.pos[x] >= n + r - k + 1
          BY <1>d, <2>1, <3>2
        <4> QED
          BY <1>d, <3>3, <4>1
      <3>6. G.pos[x] # v /\ G.pos[x] # n
        BY <1>1, <1>b, <3>5
      <3>4. H.pos[x] = G.pos[x]
        BY <1>4, <3>2, <3>6
      <3>7. n + r - k + 1 = (n - 1) + Len(S) - k + 1
        <4>1. k \in Int /\ n \in Int /\ r \in Int
          BY <1>d, <2>1
        <4>2. SameThreshold(n, r, k)
          BY <4>1, Threshold
        <4> QED
          BY <1>d, <4>2, Zenon DEF SameThreshold
      <3> QED
        BY <3>2, <3>4, <3>7
    <2>2. CASE k = r + 1
      <3>1. x \in G.cont[v]
        BY <1>c, <2>2
      <3>2. x \in P /\ H.pos[x] = n
        BY <1>1, <1>4, <3>1
      <3>3. (n - 1) + Len(S) - k + 1 = n
        BY <1>d, <2>2
      <3>4. n >= n
        BY <1>d
      <3> QED
        BY <3>2, <3>3, <3>4
    <2>3. k \in 1 .. r \/ k = r + 1
      BY <1>d
    <2> QED
      BY <2>1, <2>2, <2>3
  <1>10. ASSUME NEW y \in P, G.pos[y] \in 1 .. n, G.pos[y] # v
         PROVE  H.pos[y] \in 1 .. n - 1
    <2>1. H.pos[y] = (IF G.pos[y] = n THEN v ELSE G.pos[y])
      BY <1>4, <1>10
    <2>2. CASE G.pos[y] = n
      BY <1>1, <1>b, <1>10, <2>1, <2>2
    <2>3. CASE G.pos[y] # n
      BY <1>1, <1>10, <2>1, <2>3
    <2> QED
      BY <2>2, <2>3
  <1>11. ASSUME NEW k \in 1 .. Len(S)
         PROVE  /\ S[k].near \in P
                /\ \/ H.pos[S[k].near] \in 1 .. n - 1
                   \/ \E j \in k + 1 .. Len(S) : S[k].near \in S[j].cont
    <2>1. CASE k = r + 1
      BY <1>b, <1>c, <1>10, <2>1
    <2>2. CASE k \in 1 .. r
      <3> DEFINE y == R[k].near
      <3>1. y \in P /\ S[k].near = y
        BY <1>a, <1>c, <2>2
      <3>2. CASE G.pos[y] = v
        <4>1. y \in G.cont[v]
          BY <1>1, <3>1, <3>2, Zenon
        <4>2. y \in S[r + 1].cont /\ r + 1 \in k + 1 .. Len(S)
          BY <1>1, <1>c, <2>2, <4>1
        <4> QED
          BY <3>1, <4>2
      <3>3. CASE G.pos[y] \in 1 .. n /\ G.pos[y] # v
        BY <1>10, <3>1, <3>3, Zenon
      <3>4. CASE G.pos[y] \notin 1 .. n
        <4>1. PICK j \in k + 1 .. r : y \in R[j].cont
          BY <1>a, <2>2, <3>4
        <4>2. j \in 1 .. r /\ j \in k + 1 .. Len(S)
          BY <1>1, <1>c, <2>2, <4>1
        <4>3. y \in S[j].cont
          BY <1>c, <4>1, <4>2
        <4> QED
          BY <3>1, <4>2, <4>3
      <3> QED
        BY <3>2, <3>3, <3>4
    <2> QED
      BY <1>1, <1>c, <2>1, <2>2
  <1>12. Below(n - 1, H.cont, H.pos, S)
    BY <1>3, <1>9, <1>11, Zenon DEF Below, P
  <1>14. Away(n - 1, H.pos, S)
    <2>1. \A x \in P : G.pos[x] \in 1 .. n \/ \E k \in 1 .. r : x \in R[k].cont
      BY DEF Named, Away, P, r
    <2>2. \A k \in 1 .. r : \A j \in 1 .. k - 1 : \A x \in R[k].cont : x \notin R[j].cont
      BY DEF Named, Away, r
    <2>3. ASSUME NEW x \in P
          PROVE  H.pos[x] \in 1 .. n - 1 \/ \E k \in 1 .. Len(S) : x \in S[k].cont
      <3>1. CASE G.pos[x] = v
        <4>1. x \in S[r + 1].cont
          BY <1>1, <1>c, <3>1
        <4> QED
          BY <1>d, <4>1
      <3>2. CASE G.pos[x] \in 1 .. n /\ G.pos[x] # v
        BY <1>10, <3>2
      <3>3. ASSUME NEW k \in 1 .. r, x \in R[k].cont
            PROVE  \E j \in 1 .. Len(S) : x \in S[j].cont
        BY <1>c, <1>d, <3>3
      <3> QED
        BY <2>1, <3>1, <3>2, <3>3
    <2>4. ASSUME NEW k \in 1 .. Len(S), NEW j \in 1 .. k - 1, NEW x \in S[k].cont
          PROVE  x \notin S[j].cont
      <3>1. j \in 1 .. r /\ S[j] = R[j]
        BY <1>c, <1>d
      <3>2. CASE k \in 1 .. r
        BY <1>c, <2>2, <3>1, <3>2, Zenon
      <3>3. CASE k = r + 1
        <4>1. x \in P /\ G.pos[x] = v
          BY <1>1, <1>b, <1>c, <3>3, Zenon
        <4>2. ASSUME x \in R[j].cont PROVE FALSE
          <5>1. G.pos[x] >= n + r - j + 1
            BY <1>a, <3>1, <4>2, Zenon
          <5>2. v >= n + r - j + 1
            BY <4>1, <5>1
          <5>3. j \in Int /\ j <= r
            BY <1>d, <3>1
          <5>4. v \in Int /\ v <= n
            BY <1>b
          <5>5. n + r - j + 1 > n
            BY <1>d, <5>3
          <5> QED
            BY <1>d, <5>2, <5>4, <5>5
        <4> QED
          BY <3>1, <4>2, Zenon
      <3> QED
        BY <1>d, <3>2, <3>3
    <2> QED
      BY <1>3, <2>3, <2>4 DEF Away, P
  <1>13. n - 1 \in Nat /\ n - 1 <= Len(H.cont) /\ H.last - 1 = n - 1
    BY <1>1, <1>3
  <1> QED
    BY <1>3, <1>7, <1>12, <1>13, <1>14 DEF Named

UnlinkRun(G, v, n, r) ==
    /\ r[0] = G /\ \A i \in 1 .. n : r[i] = UnlinkPass(r[i - 1], v, i)
    /\ UnlinkLoop(v, G, Indices(n)) = r[n]

\* The run of the loop of deleteVertex.
LEMMA UnlinkLoopRuns ==
    ASSUME NEW G, NEW v, NEW n \in Nat
    PROVE  \E r : UnlinkRun(G, v, n, r)
  <1>1. DOMAIN Indices(n) = 1 .. n /\ Len(Indices(n)) = n /\ \A i \in 1 .. n : Indices(n)[i] = i
    BY IndicesFacts
  <1>2. \E r : IsRun(r, "Unlink", <<v>>, G, Indices(n)) /\ UnlinkLoop(v, G, Indices(n)) = r[n]
    BY <1>1, UnlinkRuns
  <1> QED
    BY <1>1, <1>2 DEF IsRun, Pass, UnlinkRun

\* The first i edges of v are gone from the other ends.
Unlinking(G, H, v, L, i) ==
    \E A, c : /\ Live(H, A, c, {v}, {v}, 0) /\ SameNames(G, H)
              /\ A[v] = i + 1 .. L /\ c[v] = L - i

\* After that loop no vertex has an edge to v.
LEMMA Unlinks ==
    ASSUME NEW G, Alive(G), NEW v \in 1 .. Len(G.vs), NEW L \in Nat, L = Len(G.vs[v])
    PROVE  Unlinking(G, UnlinkLoop(v, G, Indices(L)), v, L, L)
  <1>1. PICK r : UnlinkRun(G, v, L, r)
    BY UnlinkLoopRuns, Zenon
  <1>2. /\ r[0] = G /\ \A i \in 1 .. L : r[i] = UnlinkPass(r[i - 1], v, i)
        /\ UnlinkLoop(v, G, Indices(L)) = r[L]
    BY <1>1 DEF UnlinkRun
  <1> DEFINE T == {j \in 0 .. L : Unlinking(G, r[j], v, L, j)}
  <1>4. 0 \in T
    <2>1. PICK A, c : Live(G, A, c, {}, {}, 0)
      BY DEF Alive
    <2>2. A[v] = 1 .. L /\ c[v] = L
      BY <2>1, AliveFacts
    <2>3. Live(G, A, c, {v}, {v}, 0)
      BY <2>1, LiveWeaker
    <2>4. SameNames(G, G) /\ A[v] = 0 + 1 .. L /\ c[v] = L - 0
      BY <2>2 DEF SameNames
    <2>5. Unlinking(G, G, v, L, 0)
      BY <2>3, <2>4 DEF Unlinking
    <2> QED
      BY <1>2, <2>5
  <1>5. ASSUME NEW j \in 1 .. L, j - 1 \in T
        PROVE  j \in T
    <2> DEFINE H == r[j - 1]
               I == r[j]
    <2>1. PICK A, c : /\ Live(H, A, c, {v}, {v}, 0) /\ SameNames(G, H)
                      /\ A[v] = j - 1 + 1 .. L /\ c[v] = L - (j - 1)
      BY <1>5, Zenon DEF Unlinking
    <2>2. I = UnlinkPass(H, v, j) /\ v \in 1 .. Len(H.vs) /\ j \in A[v]
      BY <1>2, <2>1 DEF SameNames
    <2> HIDE DEF H, I
    <2>3. PICK B, d : Unlinked(H, A, c, v, j, I, B, d)
      BY <2>1, <2>2, UnlinkStep, Zenon
    <2>4. /\ Live(I, B, d, {v}, {v}, 0) /\ SameNames(H, I)
          /\ B[v] = A[v] \ {j} /\ d[v] = c[v] - 1
      BY <2>3 DEF Unlinked
    <2>5. B[v] = j + 1 .. L /\ d[v] = L - j
      BY <2>1, <2>4
    <2>6. SameNames(G, I)
      BY <2>1, <2>4 DEF SameNames
    <2>7. Unlinking(G, I, v, L, j)
      BY <2>4, <2>5, <2>6 DEF Unlinking
    <2> QED
      BY <2>7 DEF I
  <1> HIDE DEF T
  <1>6. \A j \in 0 .. L : j \in T
    BY <1>4, <1>5, UpTo, Zenon
  <1>7. L \in T
    BY <1>6
  <1> QED
    BY <1>2, <1>7 DEF T

DeletedFrom(K, v, L) == MoveLast(UnlinkLoop(v, K, Indices(L)), v)

\* deleteVertex, written step by step.
LEMMA DeleteVertexIs ==
    ASSUME NEW G, NEW v, NEW L, [i \in DOMAIN G.vs[v] |-> i] = Indices(L)
    PROVE  DeleteVertex(G, v) = DeletedFrom(IF v < Len(G.vs) THEN Parted(G, v) ELSE G, v, L)
  BY Zenon DEF DeleteVertex, DeletedFrom, FoldLeftDomain, UnlinkLoop, UnlinkPass, Parted, LastNamed

\* deleteVertex keeps what holds between calls, with its block on the stack.
LEMMA DeleteVertexKeeps ==
    ASSUME NEW G, NEW R \in Seq(Blocks), Sound(G, R), NEW v \in 1 .. Len(G.vs),
           NEW i \in 1 .. Len(G.vs[v]), NEW near \in G.cont[G.vs[v][i].to]
    PROVE  /\ Sound(DeleteVertex(G, v), Deleted(G, R, v, near))
           /\ Deleted(G, R, v, near) \in Seq(Blocks)
  <1> DEFINE n == Len(G.vs)
             t == G.vs[v][i].to
             L == Len(G.vs[v])
             K == IF v < n THEN Parted(G, v) ELSE G
             T == UnlinkLoop(v, K, Indices(L))
             H == MoveLast(T, v)
             S == Deleted(G, R, v, near)
  <1>1. PICK A, c : Live(G, A, c, {}, {}, 0)
    BY DEF Sound, Alive
  <1>2. /\ G \in Objects /\ G.vs \in Adj /\ Paired(G.vs, A) /\ n \in Nat /\ L \in Nat
        /\ i \in A[v] /\ Named(n, G.last, G.cont, G.pos, R) /\ G.vs[v] \in Row
    <2>1. /\ G \in Objects /\ G.vs \in Adj /\ Paired(G.vs, A) /\ n \in Nat /\ L \in Nat /\ i \in A[v]
      BY <1>1, AliveFacts
    <2>2. G.vs[v] \in Row
      BY <2>1, RowFacts
    <2> QED
      BY <2>1, <2>2 DEF Sound
  <1>3. t \in 1 .. n /\ t # v
    BY <1>2, MateFacts DEF Mated
  <1>4. /\ n <= Len(G.cont) /\ near \in 1 .. Len(G.pos) /\ G.pos[near] = t /\ near \in Nat
    <2>1. /\ n <= Len(G.cont) /\ \A u \in 1 .. n : G.cont[u] \subseteq 1 .. Len(G.pos)
          /\ \A x \in 1 .. Len(G.pos) : \A u \in 1 .. n : x \in G.cont[u] <=> G.pos[x] = u
      BY <1>2, Zenon DEF Named, Inverse2
    <2> QED
      BY <1>3, <2>1
  <1>5. IF v < n THEN IsParted(G, v, K) ELSE K = G
    BY <1>2, <1>4, PartedFacts
  <1>6. DeleteVertex(G, v) = H
    <2>1. [j \in DOMAIN G.vs[v] |-> j] = Indices(L)
      BY <1>2, IndicesAre
    <2> QED
      BY <2>1, DeleteVertexIs DEF DeletedFrom
  <1>7. IsDeleted(G, R, v, near, S)
    <2>1. v \in 1 .. Len(G.cont)
      BY <1>2, <1>4, ObjectFacts
    <2> QED
      BY <1>2, <1>4, <2>1, DeletedFacts
  <1> HIDE DEF K, T, H, S
  <1>8. Named(n - 1, K.last - 1, K.cont, K.pos, S)
    <2>1. G.pos[near] \in 1 .. n /\ G.pos[near] # v
      BY <1>3, <1>4
    <2> QED
      BY <1>2, <1>4, <1>5, <1>7, <2>1, PartedNamed, Zenon
  <1>9. K \in Objects /\ K.vs = G.vs /\ K.deg = G.deg /\ K.m = G.m
    BY <1>2, <1>5 DEF IsParted
  <1>10. Alive(K)
    BY <1>1, <1>9, LiveRenamed DEF Alive
  <1>11. Unlinking(K, T, v, L, L)
    <2>1. v \in 1 .. Len(K.vs) /\ L = Len(K.vs[v])
      BY <1>9
    <2> QED
      BY <1>2, <1>10, <2>1, Unlinks, Zenon DEF T
  <1>12. PICK B, d : /\ Live(T, B, d, {v}, {v}, 0) /\ SameNames(K, T)
                     /\ B[v] = L + 1 .. L /\ d[v] = L - L
    BY <1>11 DEF Unlinking
  <1>13. /\ B[v] = {} /\ 0 + d[v] = 0 /\ v \in 1 .. Len(T.vs)
         /\ (v # Len(T.vs) => Len(T.vs) \notin {v} \cup {v}) /\ {v} \ {v} = {}
    <2> HIDE DEF L
    <2> QED
      BY <1>2, <1>9, <1>12 DEF SameNames
  <1>14. PICK C, e : Departed(T, B, d, {v}, {v}, 0, v, H, C, e)
    BY <1>12, <1>13, MoveLastStep DEF H
  <1>15. /\ Live(H, C, e, {v} \ {v}, {v} \ {v}, 0 + d[v])
         /\ Len(H.vs) = Len(T.vs) - 1 /\ H.last = T.last - 1 /\ H.cont = T.cont /\ H.pos = T.pos
    BY <1>14 DEF Departed
  <1>16. Live(H, C, e, {}, {}, 0)
    BY <1>13, <1>15, Zenon
  <1>17. Named(Len(H.vs), H.last, H.cont, H.pos, S)
    BY <1>8, <1>9, <1>12, <1>15 DEF SameNames
  <1>18. S \in Seq(Blocks)
    BY <1>7 DEF IsDeleted
  <1> QED
    BY <1>6, <1>16, <1>17, <1>18 DEF Sound, Alive, S

-----------------------------------------------------------------------------
(* A deleted block is inserted again.                                        *)

IsBlank(G, K) ==
    LET n == Len(G.vs)
    IN  /\ K \in Objects /\ Len(K.vs) = n + 1 /\ K.vs[n + 1] = <<>>
        /\ \A u \in 1 .. n : K.vs[u] = G.vs[u]
        /\ Len(K.deg) = Len(G.deg) + 1 /\ K.deg[Len(G.deg) + 1] = 0
        /\ \A u \in 1 .. Len(G.deg) : K.deg[u] = G.deg[u]
        /\ K.m = G.m /\ K.last = G.last + 1 /\ K.pos = G.pos /\ Len(K.cont) = Len(G.cont) + 1
        /\ \A u \in 1 .. Len(G.cont) : K.cont[u] = G.cont[u]

Grown(G, vs, deg, cont, last) == [G EXCEPT !.vs = vs, !.deg = deg, !.cont = cont, !.last = last]
IsGrown(G, vs, deg, cont, last, K) ==
    /\ K \in Objects /\ K.vs = vs /\ K.deg = deg /\ K.cont = cont /\ K.last = last
    /\ K.m = G.m /\ K.pos = G.pos

\* An object with one more vertex.
LEMMA GrownFacts ==
    ASSUME NEW G \in Objects, NEW vs \in Adj, NEW deg \in Seq(Int), NEW cont \in Seq(SUBSET Nat),
           NEW last \in Int
    PROVE  IsGrown(G, vs, deg, cont, last, Grown(G, vs, deg, cont, last))
  BY Zenon DEF Objects, Grown, IsGrown

\* new_empty_node appends a vertex without edges and names.
LEMMA BlankFacts ==
    ASSUME NEW G \in Objects, G.last = Len(G.vs)
    PROVE  IsBlank(G, NewEmptyNode(G))
  <1> DEFINE vs == Append(G.vs, <<>>)
             deg == Append(G.deg, 0)
             cont == Append(G.cont, {})
             K == Grown(G, vs, deg, cont, G.last + 1)
  <1>1. /\ G.vs \in Seq(Row) /\ G.deg \in Seq(Int) /\ G.cont \in Seq(SUBSET Nat) /\ G.last \in Int
        /\ Len(G.vs) \in Nat
    BY ObjectFacts DEF Adj
  <1>2. <<>> \in Row /\ 0 \in Int /\ {} \in SUBSET Nat
    BY DEF Row
  <1>3. vs \in Seq(Row) /\ Len(vs) = Len(G.vs) + 1 /\ vs[Len(G.vs) + 1] = <<>>
        /\ \A u \in 1 .. Len(G.vs) : vs[u] = G.vs[u]
    <2>1. <<>> \in Row
      BY <1>2
    <2> QED
      BY <1>1, <2>1, AppendProperties
  <1>4. deg \in Seq(Int) /\ Len(deg) = Len(G.deg) + 1 /\ deg[Len(G.deg) + 1] = 0
        /\ \A u \in 1 .. Len(G.deg) : deg[u] = G.deg[u]
    BY <1>1, AppendProperties
  <1>5. cont \in Seq(SUBSET Nat) /\ Len(cont) = Len(G.cont) + 1
        /\ \A u \in 1 .. Len(G.cont) : cont[u] = G.cont[u]
    <2>1. {} \in SUBSET Nat
      BY <1>2
    <2> QED
      BY <1>1, <2>1, AppendProperties
  <1>6. NewEmptyNode(G) = K
    BY <1>1 DEF NewEmptyNode, Grown
  <1> HIDE DEF vs, deg, cont
  <1>7. K \in Objects /\ K.vs = vs /\ K.deg = deg /\ K.cont = cont /\ K.last = G.last + 1
        /\ K.m = G.m /\ K.pos = G.pos
    <2>1. vs \in Adj /\ deg \in Seq(Int) /\ cont \in Seq(SUBSET Nat) /\ G.last + 1 \in Int
      BY <1>1, <1>3, <1>4, <1>5 DEF Adj
    <2>2. IsGrown(G, vs, deg, cont, G.last + 1, K)
      BY <2>1, GrownFacts
    <2> HIDE DEF K
    <2> QED
      BY <2>2 DEF IsGrown
  <1> HIDE DEF K
  <1>8. IsBlank(G, K)
    BY <1>3, <1>4, <1>5, <1>7, Zenon DEF IsBlank
  <1> QED
    BY <1>6, <1>8

\* A vertex without edges changes nothing.
LEMMA BlankAlive ==
    ASSUME NEW G, Alive(G), NEW K, IsBlank(G, K)
    PROVE  Alive(K)
  <1> DEFINE n == Len(G.vs)
             N == 1 .. n
  <1>1. PICK A, c : Live(G, A, c, {}, {}, 0)
    BY DEF Alive
  <1> DEFINE B == [u \in 1 .. n + 1 |-> 1 .. Len(K.vs[u])]
             d == [u \in 1 .. n + 1 |-> Len(K.vs[u])]
  <1>2. /\ G \in Objects /\ G.vs \in Adj /\ Paired(G.vs, A) /\ n \in Nat /\ Len(G.deg) = n
        /\ \A u \in N : /\ A[u] = 1 .. Len(G.vs[u]) /\ c[u] = Len(G.vs[u])
                        /\ G.deg[u] = RowSum(G.vs[u]) /\ Len(G.vs[u]) \in Nat
    BY <1>1, AliveFacts
  <1>3. c \in [N -> Int] /\ G.m = Sum(c, N)
    <2>1. c \in [N -> Int] /\ G.m = Sum(c, N) + 0 /\ G.m \in Int
      BY <1>1, ObjectFacts DEF Live
    <2>2. IsFiniteSet(N) /\ \A u \in N : c[u] \in Int
      <3>1. IsFiniteSet(N)
        BY <1>2, FS_Interval
      <3> HIDE DEF N, n
      <3> QED
        BY <2>1, <3>1
    <2>3. Sum(c, N) \in Int
      BY <2>2, SumInt
    <2> QED
      BY <2>1, <2>3
  <1>4. /\ K \in Objects /\ K.vs \in Adj /\ Len(K.vs) = n + 1 /\ K.vs[n + 1] = <<>>
        /\ \A u \in N : K.vs[u] = G.vs[u]
        /\ Len(K.deg) = n + 1 /\ K.deg[n + 1] = 0 /\ \A u \in N : K.deg[u] = G.deg[u]
        /\ K.m = G.m
    BY <1>2, ObjectFacts DEF IsBlank
  <1>5. 1 .. n + 1 = N \cup {n + 1} /\ n + 1 \notin N
    BY <1>2
  <1>6. B \in [1 .. n + 1 -> SUBSET Nat] /\ d \in [1 .. n + 1 -> Int]
    BY <1>4, RowFacts
  <1>7. /\ \A u \in N : B[u] = A[u] /\ d[u] = c[u] /\ K.deg[u] = RowSum(K.vs[u])
        /\ B[n + 1] = {} /\ d[n + 1] = 0 /\ K.deg[n + 1] = RowSum(K.vs[n + 1])
    <2>1. \A u \in N : B[u] = A[u] /\ d[u] = c[u] /\ K.deg[u] = RowSum(K.vs[u])
      BY <1>2, <1>4, <1>5, Zenon
    <2>2. B[n + 1] = 1 .. Len(K.vs[n + 1]) /\ d[n + 1] = Len(K.vs[n + 1])
      BY <1>5
    <2>3. Len(K.vs[n + 1]) = 0 /\ RowSum(K.vs[n + 1]) = 0
      BY <1>4, RowSumEmpty
    <2>4. B[n + 1] = {} /\ d[n + 1] = 0
      <3> HIDE DEF B, d, n
      <3> QED
        BY <2>2, <2>3
    <2>5. K.deg[n + 1] = RowSum(K.vs[n + 1])
      <3> HIDE DEF B, d, n
      <3> QED
        BY <1>4, <2>3
    <2> HIDE DEF B, d, n, N
    <2> QED
      BY <2>1, <2>4, <2>5
  <1>8. \A u \in 1 .. n + 1 : B[u] = 1 .. Len(K.vs[u]) /\ d[u] = Len(K.vs[u])
    OBVIOUS
  <1> HIDE DEF B, d, n, N
  <1>9. Paired(K.vs, B)
    <2>1. \A u \in 1 .. n + 1 : B[u] \subseteq 1 .. Len(K.vs[u])
      BY <1>8
    <2>2. ASSUME NEW u \in 1 .. n + 1, NEW i \in B[u]
          PROVE  Mate(K.vs, B, u, i, K.vs[u][i].to, K.vs[u][i].rev)
      <3>1. u \in N /\ i \in A[u] /\ K.vs[u] = G.vs[u]
        BY <1>4, <1>5, <1>7, <2>2
      <3> DEFINE t == G.vs[u][i].to
                 r == G.vs[u][i].rev
      <3>2. Mate(G.vs, A, u, i, t, r)
        BY <1>2, <3>1 DEF Paired, n, N
      <3>3. t \in N /\ K.vs[t] = G.vs[t] /\ B[t] = A[t] /\ B[u] = A[u] /\ t \in 1 .. n + 1
        BY <1>4, <1>5, <1>7, <3>1, <3>2, Zenon DEF Mate, n, N
      <3> QED
        BY <1>4, <3>1, <3>2, <3>3, Zenon DEF Mate
    <2> QED
      BY <1>4, <1>6, <2>1, <2>2 DEF Paired
  <1>10. Sum(d, 1 .. n + 1) = Sum(c, N)
    <2>1. IsFiniteSet(N)
      BY <1>2, FS_Interval DEF N, n
    <2>2. \A u \in N : c[u] \in Int /\ d[u] = c[u] /\ d[u] \in Int
      BY <1>3, <1>7
    <2>3. Sum(d, N) = Sum(c, N)
      BY <2>1, <2>2, SumSame
    <2>4. Sum(d, N \cup {n + 1}) = d[n + 1] + Sum(d, N)
      BY <1>5, <1>7, <2>1, <2>2, SumInsert
    <2>5. Sum(c, N) \in Int
      BY <2>1, <2>2, SumInt
    <2>6. d[n + 1] + Sum(d, N) = Sum(c, N)
      BY <1>7, <2>3, <2>5
    <2> QED
      BY <1>5, <2>4, <2>6, Zenon
  <1>11. \A u \in 1 .. n + 1 : K.deg[u] = RowSum(K.vs[u])
    BY <1>5, <1>7
  <1>12. K.m = Sum(d, 1 .. n + 1) + 0
    <2>1. K.m \in Int
      BY <1>4, ObjectFacts
    <2> QED
      BY <1>3, <1>4, <1>10, <2>1
  <1>13. Live(K, B, d, {}, {}, 0)
    BY <1>4, <1>6, <1>8, <1>9, <1>11, <1>12 DEF Live
  <1> QED
    BY <1>13 DEF Alive

\* The names of the last block of the stack go to a new vertex.
IsBack(n, cont, pos, S, new, names) ==
    /\ new \in Seq(SUBSET Nat) /\ names \in Seq(Nat) /\ n + 1 <= Len(new) /\ Len(names) = Len(pos)
    /\ new[n + 1] = S /\ \A u \in 1 .. n : new[u] = cont[u]
    /\ \A x \in 1 .. Len(pos) : names[x] = IF x \in S THEN n + 1 ELSE pos[x]

\* The names stay right when the last block of the stack gets a vertex again.
LEMMA NamedBack ==
    ASSUME NEW n \in Nat, NEW last, NEW cont, NEW pos, NEW R \in Seq(Blocks), Len(R) # 0,
           Named(n, last, cont, pos, R), NEW S, S = R[Len(R)].cont,
           NEW new, NEW names, IsBack(n, cont, pos, S, new, names)
    PROVE  Named(n + 1, n + 1, new, names, Front(R))
  <1> DEFINE r == Len(R)
             F == Front(R)
  <1>1. r \in Nat \ {0} /\ Len(F) = r - 1 /\ \A k \in 1 .. r - 1 : F[k] = R[k]
    <2>1. FrontIs(Blocks, R, F)
      BY FrontSeq
    <2> QED
      BY <2>1, LenProperties DEF FrontIs
  <1> HIDE DEF r, F
  <1>2. /\ Inverse2(n, cont, pos) /\ Below(n, cont, pos, R) /\ Away(n, pos, R)
        /\ pos \in Seq(Nat) /\ Len(pos) \in Nat /\ \A x \in 1 .. Len(pos) : pos[x] \in Nat
    <2>1. pos \in Seq(Nat)
      BY DEF Named
    <2> QED
      BY <2>1, ElementOfSeq, LenProperties DEF Named
  <1> DEFINE P == 1 .. Len(pos)
  <1>3. \A k \in 1 .. r : \A x \in R[k].cont : x \in P /\ pos[x] >= n + r - k + 1
    BY <1>2 DEF Below, r
  <1>4. \A x \in S : x \in P /\ pos[x] >= n + 1
    <2>1. r \in 1 .. r /\ n + r - r + 1 = n + 1
      BY <1>1
    <2> QED
      BY <1>3, <2>1 DEF r
  <1>5. \A k \in 1 .. r - 1 : \A x \in R[k].cont :
            x \in P /\ x \notin S /\ pos[x] >= (n + 1) + (r - 1) - k + 1 /\ pos[x] >= n + 2
    <2> SUFFICES ASSUME NEW k \in 1 .. r - 1, NEW x \in R[k].cont
                 PROVE  x \in P /\ x \notin S /\ pos[x] >= (n + 1) + (r - 1) - k + 1
                        /\ pos[x] >= n + 2
      OBVIOUS
    <2>1. k \in 1 .. r /\ r \in 1 .. r
      BY <1>1
    <2>2. x \in P /\ pos[x] >= n + r - k + 1 /\ pos[x] \in Nat
      BY <1>2, <1>3, <2>1, Zenon
    <2>3. x \notin S
      BY <1>2, <2>1 DEF Away, r
    <2>4. n + r - k + 1 = (n + 1) + (r - 1) - k + 1 /\ n + r - k + 1 >= n + 2
      BY <1>1
    <2> QED
      BY <2>2, <2>3, <2>4, <1>1
  <1>6. \A x \in P : names[x] = IF x \in S THEN n + 1 ELSE pos[x]
    BY DEF IsBack
  <1>7. Len(names) = Len(pos) /\ new[n + 1] = S /\ \A u \in 1 .. n : new[u] = cont[u]
    BY DEF IsBack
  <1>8. Inverse2(n + 1, new, names)
    <2>1. \A u \in 1 .. n + 1 : new[u] \subseteq P
      BY <1>2, <1>4, <1>7 DEF Inverse2
    <2>2. ASSUME NEW x \in P, NEW u \in 1 .. n PROVE x \in new[u] <=> names[x] = u
      <3>1. x \in cont[u] <=> pos[x] = u
        BY <1>2 DEF Inverse2
      <3> QED
        BY <1>4, <1>6, <1>7, <3>1
    <2>3. ASSUME NEW x \in P PROVE x \in new[n + 1] <=> names[x] = n + 1
      <3>1. CASE x \in S
        BY <1>6, <1>7, <3>1
      <3>2. CASE x \notin S
        <4>1. pos[x] # n + 1
          <5>1. CASE pos[x] \in 1 .. n
            BY <5>1
          <5>2. CASE pos[x] \notin 1 .. n
            <6>1. PICK k \in 1 .. r : x \in R[k].cont
              BY <1>2, <5>2 DEF Away, r
            <6>2. k # r
              BY <3>2, <6>1 DEF r
            <6>3. k \in 1 .. r - 1
              BY <1>1, <6>2
            <6> QED
              BY <1>2, <1>5, <6>1, <6>3
          <5> QED
            BY <5>1, <5>2
        <4> QED
          BY <1>6, <1>7, <3>2, <4>1
      <3> QED
        BY <3>1, <3>2
    <2>4. \A u \in 1 .. n + 1 : u \in 1 .. n \/ u = n + 1
      OBVIOUS
    <2>5. \A x \in P : \A u \in 1 .. n + 1 : x \in new[u] <=> names[x] = u
      BY <2>2, <2>3, <2>4
    <2> QED
      BY <1>7, <2>1, <2>5 DEF Inverse2
  <1>9. Below(n + 1, new, names, F)
    <2> SUFFICES ASSUME NEW k \in 1 .. r - 1
                 PROVE  /\ \A x \in R[k].cont : x \in P /\ names[x] >= (n + 1) + (r - 1) - k + 1
                        /\ R[k].near \in P
                        /\ \/ names[R[k].near] \in 1 .. n + 1
                           \/ \E j \in k + 1 .. r - 1 : R[k].near \in F[j].cont
      BY <1>1, <1>7, Zenon DEF Below
    <2>1. \A x \in R[k].cont : x \in P /\ names[x] >= (n + 1) + (r - 1) - k + 1
      BY <1>5, <1>6, Zenon
    <2>2. k \in 1 .. r
      BY <1>1
    <2>3. /\ R[k].near \in P
          /\ \/ pos[R[k].near] \in 1 .. n
             \/ \E j \in k + 1 .. r : R[k].near \in R[j].cont
      BY <1>2, <2>2, Zenon DEF Below, r
    <2>4. CASE R[k].near \in S
      <3>1. names[R[k].near] = n + 1 /\ n + 1 \in 1 .. n + 1
        BY <1>6, <2>3, <2>4
      <3> QED
        BY <2>1, <2>3, <3>1
    <2>5. CASE R[k].near \notin S /\ pos[R[k].near] \in 1 .. n
      <3>1. names[R[k].near] \in 1 .. n + 1
        <4>1. names[R[k].near] = pos[R[k].near]
          BY <1>6, <2>3, <2>5, Zenon
        <4>2. \A i \in 1 .. n : i \in 1 .. n + 1
          OBVIOUS
        <4> QED
          BY <2>5, <4>1, <4>2
      <3> QED
        BY <2>1, <2>3, <3>1
    <2>6. CASE R[k].near \notin S /\ pos[R[k].near] \notin 1 .. n
      <3>1. PICK j \in k + 1 .. r : R[k].near \in R[j].cont
        BY <2>3, <2>6, Zenon
      <3>2. j # r
        BY <2>6, <3>1 DEF r
      <3>3. j \in k + 1 .. r - 1 /\ j \in 1 .. r - 1
        BY <1>1, <3>2
      <3>4. \E i \in k + 1 .. r - 1 : R[k].near \in F[i].cont
        BY <1>1, <3>1, <3>3, Zenon
      <3> QED
        BY <2>1, <2>3, <3>4
    <2> QED
      BY <2>4, <2>5, <2>6
  <1>10. Away(n + 1, names, F)
    <2>1. ASSUME NEW x \in P
          PROVE  names[x] \in 1 .. n + 1 \/ \E k \in 1 .. r - 1 : x \in F[k].cont
      <3>1. CASE x \in S
        BY <1>6, <3>1
      <3>2. CASE x \notin S /\ pos[x] \in 1 .. n
        BY <1>6, <3>2
      <3>3. CASE x \notin S /\ pos[x] \notin 1 .. n
        <4>1. PICK k \in 1 .. r : x \in R[k].cont
          BY <1>2, <3>3 DEF Away, r
        <4>2. k # r
          BY <3>3, <4>1 DEF r
        <4>3. k \in 1 .. r - 1
          BY <1>1, <4>2
        <4> QED
          BY <1>1, <4>1, <4>3
      <3> QED
        BY <3>1, <3>2, <3>3
    <2>2. ASSUME NEW k \in 1 .. r - 1, NEW j \in 1 .. k - 1, NEW x \in F[k].cont
          PROVE  x \notin F[j].cont
      <3>1. k \in 1 .. r /\ j \in 1 .. r - 1
        BY <1>1
      <3>2. F[k] = R[k] /\ F[j] = R[j]
        BY <1>1, <3>1
      <3> QED
        BY <1>2, <2>2, <3>1, <3>2 DEF Away, r
    <2> QED
      BY <1>1, <1>7, <2>1, <2>2 DEF Away
  <1> QED
    BY <1>8, <1>9, <1>10 DEF Named, IsBack, F

-----------------------------------------------------------------------------

\* The smaller and the greater of two numbers.
LEMMA MinMaxPair ==
    ASSUME NEW a \in Int, NEW b \in Int, a < b
    PROVE  Min({a, b}) = a /\ Max({a, b}) = b
  <1>1. Max({a, b}) = b
    <2>1. b \in {a, b} /\ \A j \in {a, b} : j \in Int /\ j <= b
      OBVIOUS
    <2> HIDE DEF Max
    <2> QED
      BY <2>1, MaxIs
  <1>2. Min({a, b}) = a
    <2>1. a \in {a, b} /\ \A y \in {a, b} : a <= y
      OBVIOUS
    <2>2. \A x \in {a, b} : (\A y \in {a, b} : x <= y) => x = a
      OBVIOUS
    <2> QED
      BY <2>1, <2>2 DEF Min
  <1> QED
    BY <1>1, <1>2

Renamed2(G, v, S) == [G EXCEPT !.cont[v] = S, !.pos = Place(G, S, v)]
IsRenamed2(G, v, S, H) ==
    /\ H \in Objects /\ H.vs = G.vs /\ H.deg = G.deg /\ H.m = G.m /\ H.last = G.last
    /\ H.cont = [G.cont EXCEPT ![v] = S] /\ H.pos = Place(G, S, v)

\* The names of S lead to v.
LEMMA NameFacts ==
    ASSUME NEW G \in Objects, NEW v \in 1 .. Len(G.cont), NEW S \in SUBSET Nat
    PROVE  IsRenamed2(G, v, S, Name(G, v, S))
  <1> DEFINE cont == [G.cont EXCEPT ![v] = S]
             pos == Place(G, S, v)
             H == Renamed(G, pos, cont)
  <1>1. cont \in Seq(SUBSET Nat) /\ pos \in Seq(Nat)
    <2>1. G.cont \in Seq(SUBSET Nat) /\ v \in Nat
      BY ObjectFacts
    <2> QED
      BY <2>1, ExceptSeq, PlaceFacts
  <1>2. Name(G, v, S) = H
    BY Zenon DEF Name, Renamed
  <1> HIDE DEF cont, pos
  <1>3. /\ H \in Objects /\ H.vs = G.vs /\ H.deg = G.deg /\ H.m = G.m /\ H.last = G.last
        /\ H.cont = cont /\ H.pos = pos
    BY <1>1, Zenon DEF Objects, Renamed
  <1> HIDE DEF H
  <1> QED
    BY <1>2, <1>3 DEF IsRenamed2, cont, pos

\* No edge leads to the new vertex.
LEMMA BlankUnreached ==
    ASSUME NEW G, Alive(G), NEW K, IsBlank(G, K), NEW p \in 1 .. Len(G.vs)
    PROVE  \A j \in 1 .. Len(K.vs[p]) : K.vs[p][j].to # Len(G.vs) + 1
  <1>1. PICK A, c : Live(G, A, c, {}, {}, 0)
    BY DEF Alive
  <1>2. Paired(G.vs, A) /\ A[p] = 1 .. Len(G.vs[p]) /\ Len(G.vs) \in Nat
    BY <1>1, AliveFacts
  <1>3. K.vs[p] = G.vs[p]
    BY DEF IsBlank
  <1>4. \A j \in 1 .. Len(G.vs[p]) : G.vs[p][j].to \in 1 .. Len(G.vs)
    BY <1>2, Zenon DEF Paired, Mate
  <1> QED
    BY <1>2, <1>3, <1>4

\* What a call of ReInsert makes, step by step.
ReInserts(G, near, S, w, p, K, H, I) ==
    /\ K = NewEmptyNode(G) /\ p = K.pos[near] /\ H = NewEdge(K, p, K.last, w)
    /\ I = Name(H, K.last, S)

\* reInsertVertex, written step by step.
LEMMA ReInsertIs ==
    ASSUME NEW G, NEW near, NEW S, NEW w, NEW K, NEW p, NEW H, NEW I,
           ReInserts(G, near, S, w, p, K, H, I),
           p \in Int, K.last \in Int, p < K.last
    PROVE  ReInsert(G, near, S, w) = I
  <1>1. Min({p, K.last}) = p /\ Max({p, K.last}) = K.last
    BY MinMaxPair
  <1>2. NewEdgeOrder(K, p, K.last, w) = H
    BY <1>1 DEF NewEdgeOrder, ReInserts
  <1> QED
    BY <1>2 DEF ReInsert, ReInserts

\* reInsertVertex keeps what holds between calls, without the block it inserts.
LEMMA ReInsertKeeps ==
    ASSUME NEW G, NEW R \in Seq(Blocks), Len(R) # 0, Sound(G, R), NEW b, b = R[Len(R)],
           NEW w \in Int
    PROVE  Sound(ReInsert(G, b.near, b.cont, w), Front(R))
  <1> DEFINE n == Len(G.vs)
             K == NewEmptyNode(G)
             p == K.pos[b.near]
             H == NewEdge(K, p, K.last, w)
             I == Name(H, K.last, b.cont)
  <1>1. Alive(G) /\ Named(n, G.last, G.cont, G.pos, R)
    BY DEF Sound
  <1>2. G \in Objects /\ n \in Nat /\ G.last = n /\ n <= Len(G.cont) /\ Len(G.cont) \in Nat
    BY <1>1, ObjectFacts, LenProperties DEF Alive, Live, Named
  <1>3. IsBlank(G, K)
    BY <1>2, BlankFacts
  <1>4. Alive(K)
    BY <1>1, <1>3, BlankAlive
  <1>5. b \in Blocks /\ Len(R) \in Nat /\ Len(R) \in 1 .. Len(R)
    BY ElementOfSeq, LenProperties
  <1> HIDE DEF n, K
  <1>6. K.last = n + 1 /\ Len(K.vs) = n + 1 /\ K.pos = G.pos /\ Len(K.cont) = Len(G.cont) + 1
        /\ \A u \in 1 .. n : K.cont[u] = G.cont[u]
    BY <1>2, <1>3 DEF IsBlank, n
  <1>7. p \in 1 .. n
    <2>1. Below(n, G.cont, G.pos, R)
      BY <1>1 DEF Named
    <2>2. \/ G.pos[b.near] \in 1 .. n
          \/ \E j \in Len(R) + 1 .. Len(R) : b.near \in R[j].cont
      BY <1>5, <2>1 DEF Below
    <2> QED
      BY <1>5, <1>6, <2>2
  <1> HIDE DEF p
  <1>8. Made(K, p, n + 1, w, H)
    <2>1. \A j \in 1 .. Len(K.vs[p]) : K.vs[p][j].to # n + 1
      BY <1>1, <1>3, <1>7, BlankUnreached, Zenon DEF n
    <2>2. p \in 1 .. Len(K.vs) /\ n + 1 \in 1 .. Len(K.vs) /\ p < n + 1
      BY <1>2, <1>6, <1>7
    <2>3. H = NewEdge(K, p, n + 1, w)
      BY <1>6
    <2> HIDE DEF H
    <2> QED
      BY <1>4, <2>1, <2>2, <2>3, NewEdgeMakes, Zenon
  <1> HIDE DEF H
  <1>9. Alive(H) /\ SameNames(K, H) /\ H \in Objects
    BY <1>8, Zenon DEF Made, Alive, Live
  <1>10. IsRenamed2(H, n + 1, b.cont, I)
    <2>1. n + 1 \in 1 .. Len(H.cont)
      BY <1>2, <1>6, <1>9 DEF SameNames
    <2>2. b.cont \in SUBSET Nat
      BY <1>5 DEF Blocks
    <2> QED
      BY <1>6, <1>9, <2>1, <2>2, NameFacts
  <1> HIDE DEF I
  <1>11. ReInsert(G, b.near, b.cont, w) = I
    <2>1. ReInserts(G, b.near, b.cont, w, p, K, H, I)
      BY DEF ReInserts, K, p, H, I
    <2>2. p \in Int /\ K.last \in Int /\ p < K.last
      BY <1>2, <1>6, <1>7
    <2> QED
      BY <2>1, <2>2, ReInsertIs
  <1>12. Alive(I)
    <2>1. PICK A, c : Live(H, A, c, {}, {}, 0)
      BY <1>9 DEF Alive
    <2>2. Live(I, A, c, {}, {}, 0)
      BY <1>10, <2>1, LiveRenamed DEF IsRenamed2
    <2> QED
      BY <2>2 DEF Alive
  <1>13. Len(I.vs) = n + 1 /\ I.last = n + 1
    BY <1>6, <1>9, <1>10 DEF IsRenamed2, SameNames
  <1>14. IsBack(n, G.cont, G.pos, b.cont, I.cont, I.pos)
    <2>1. /\ I.cont = [K.cont EXCEPT ![n + 1] = b.cont] /\ I.pos = Place(H, b.cont, n + 1)
          /\ H.pos = G.pos /\ I \in Objects /\ H.cont = K.cont
      BY <1>6, <1>9, <1>10 DEF IsRenamed2, SameNames
    <2>2. I.cont \in Seq(SUBSET Nat) /\ I.pos \in Seq(Nat)
      BY <2>1, ObjectFacts, Zenon
    <2>3. /\ Len(I.pos) = Len(G.pos)
          /\ \A x \in 1 .. Len(G.pos) : I.pos[x] = IF x \in b.cont THEN n + 1 ELSE G.pos[x]
      <3>1. n + 1 \in Nat
        BY <1>2
      <3> QED
        BY <1>9, <2>1, <3>1, PlaceFacts
    <2>4. DOMAIN K.cont = 1 .. Len(K.cont)
      BY <1>3, ObjectFacts DEF IsBlank
    <2>5. n + 1 \in 1 .. Len(K.cont) /\ \A u \in 1 .. n : u # n + 1
      BY <1>2, <1>6
    <2>6. I.cont[n + 1] = b.cont /\ \A u \in 1 .. n : I.cont[u] = G.cont[u]
      <3>1. \A u \in 1 .. n : u \in 1 .. Len(K.cont)
        BY <1>2, <1>6
      <3> QED
        BY <1>6, <2>1, <2>4, <2>5, <3>1
    <2>7. n + 1 <= Len(I.cont)
      <3>1. DOMAIN I.cont = 1 .. Len(K.cont) /\ Len(K.cont) \in Nat
        BY <1>2, <1>6, <2>1, <2>4
      <3>2. DOMAIN I.cont = 1 .. Len(I.cont) /\ Len(I.cont) \in Nat
        BY <2>2, LenProperties
      <3>3. Len(I.cont) = Len(K.cont)
        BY <3>1, <3>2
      <3> QED
        BY <1>2, <1>6, <3>3
    <2> QED
      BY <2>2, <2>3, <2>6, <2>7 DEF IsBack
  <1>15. Named(n + 1, n + 1, I.cont, I.pos, Front(R))
    <2>1. Named(n, G.last, G.cont, G.pos, R)
      BY <1>1 DEF n
    <2> QED
      BY <1>2, <1>14, <2>1, NamedBack DEF n
  <1> QED
    BY <1>11, <1>12, <1>13, <1>15 DEF Sound

-----------------------------------------------------------------------------
(* The edges of first that stay in the set are dropped.                      *)

\* The live edges of u when the first i edges of first are gone through and len of them
\* are kept, and the edges of u that num_edges counts.
KeptSet(G, S, first, i, len) ==
    [u \in 1 .. Len(G.vs) |->
        IF u = first THEN 1 .. len
        ELSE {j \in 1 .. Len(G.vs[u]) : IF u \in S THEN G.vs[u][j].to \notin S
                                        ELSE G.vs[u][j].to = first => G.vs[u][j].rev <= i}]

KeptCount(G, first, i, len) ==
    [u \in 1 .. Len(G.vs) |-> IF u = first THEN len + (Len(G.vs[first]) - i) ELSE Len(G.vs[u])]

SameRow(G, H, u) ==
    /\ Len(H.vs[u]) = Len(G.vs[u]) /\ H.deg[u] = G.deg[u]
    /\ \A j \in 1 .. Len(G.vs[u]) : H.vs[u][j].to = G.vs[u][j].to /\ H.vs[u][j].w = G.vs[u][j].w

Keeping(G, H, S, first, i) ==
    LET len == Len(H.vs[first])
        L == Len(G.vs[first])
    IN  /\ H \in Objects /\ SameNames(G, H) /\ Len(H.deg) = Len(G.vs)
        /\ Paired(H.vs, KeptSet(G, S, first, i, len))
        /\ H.m = Sum(KeptCount(G, first, i, len), 1 .. Len(G.vs))
        /\ \A u \in 1 .. Len(G.vs) : u # first => SameRow(G, H, u)
        /\ H.deg[first] = RowSum(H.vs[first]) + Sum(Weight(G.vs[first]), i + 1 .. L)

\* What is known of the object before the call.
Whole(G, A, S, first) ==
    /\ G \in Objects /\ G.vs \in Adj /\ Paired(G.vs, A) /\ Len(G.vs) \in Nat
    /\ Len(G.deg) = Len(G.vs) /\ first \in 1 .. Len(G.vs)
    /\ S \subseteq 1 .. Len(G.vs) /\ first \in S
    /\ \A u \in 1 .. Len(G.vs) : /\ A[u] = 1 .. Len(G.vs[u]) /\ Len(G.vs[u]) \in Nat
                                 /\ G.deg[u] = RowSum(G.vs[u])
    /\ G.m = Sum([u \in 1 .. Len(G.vs) |-> Len(G.vs[u])], 1 .. Len(G.vs))

\* An object between calls, and a set of its vertices.
LEMMA WholeFacts ==
    ASSUME NEW G, Alive(G), NEW S, S \subseteq 1 .. Len(G.vs), NEW first \in S
    PROVE  \E A : Whole(G, A, S, first)
  <1> DEFINE N == 1 .. Len(G.vs)
             d == [u \in N |-> Len(G.vs[u])]
  <1>1. PICK A, c : Live(G, A, c, {}, {}, 0)
    BY DEF Alive
  <1>2. /\ G \in Objects /\ G.vs \in Adj /\ Paired(G.vs, A) /\ Len(G.vs) \in Nat
        /\ Len(G.deg) = Len(G.vs)
        /\ \A u \in N : A[u] = 1 .. Len(G.vs[u]) /\ c[u] = Len(G.vs[u]) /\ Len(G.vs[u]) \in Nat
                        /\ G.deg[u] = RowSum(G.vs[u])
    BY <1>1, AliveFacts
  <1>3. c \in [N -> Int] /\ G.m = Sum(c, N) + 0
    BY <1>1 DEF Live
  <1>4. c = d
    BY <1>2, <1>3
  <1> HIDE DEF d
  <1>5. G.m = Sum(d, N)
    <2>1. IsFiniteSet(N)
      <3>1. Len(G.vs) \in Int /\ 1 \in Int
        BY <1>2
      <3> QED
        BY <3>1, FS_Interval, Zenon
    <2>2. \A u \in N : c[u] \in Int
      BY <1>3
    <2> HIDE DEF N
    <2>3. Sum(c, N) \in Int
      BY <2>1, <2>2, SumInt
    <2> QED
      BY <1>3, <1>4, <2>3
  <1>6. Whole(G, A, S, first)
    BY <1>2, <1>5 DEF Whole, d
  <1> QED
    BY <1>6

\* Edge j of u and its other copy, before the call.
Whole2(G, u, j, t, r) ==
    /\ G.vs[u][j] \in Edge /\ t = G.vs[u][j].to /\ r = G.vs[u][j].rev
    /\ t \in 1 .. Len(G.vs) /\ t # u /\ r \in 1 .. Len(G.vs[t])
    /\ G.vs[t][r].to = u /\ G.vs[t][r].w = G.vs[u][j].w /\ G.vs[t][r].rev = j
    /\ \A k \in 1 .. Len(G.vs[u]) : G.vs[u][k].to = t => k = j
    /\ \A k \in 1 .. Len(G.vs[t]) : G.vs[t][k].to = u => k = r

\* An edge and its other copy, before anything is dropped.
LEMMA WholeMates ==
    ASSUME NEW G, NEW A, NEW S, NEW first, Whole(G, A, S, first),
           NEW u \in 1 .. Len(G.vs), NEW j \in 1 .. Len(G.vs[u])
    PROVE  Whole2(G, u, j, G.vs[u][j].to, G.vs[u][j].rev)
  <1> DEFINE t == G.vs[u][j].to
             r == G.vs[u][j].rev
  <1>1. G.vs \in Adj /\ Paired(G.vs, A) /\ j \in A[u]
    BY DEF Whole
  <1>2. Mated(G.vs, A, u, j, t, r)
    BY <1>1, MateFacts
  <1> HIDE DEF t, r
  <1>3. t \in 1 .. Len(G.vs)
    BY <1>2 DEF Mated
  <1>4. A[u] = 1 .. Len(G.vs[u]) /\ A[t] = 1 .. Len(G.vs[t])
    BY <1>3 DEF Whole
  <1> QED
    BY <1>2, <1>4, Zenon DEF Mated, Whole2, t, r

\* Only the other copies of the edges of first lead to first.
OtherCopy(G, first, i, t, r) ==
    \A u \in 1 .. Len(G.vs) : \A j \in 1 .. Len(G.vs[u]) :
        G.vs[u][j].to = first => (G.vs[u][j].rev = i <=> u = t /\ j = r)

\* The other copy of an edge of first is the only edge of its vertex to first.
LEMMA KeptSame ==
    ASSUME NEW G, NEW A, NEW S, NEW first, Whole(G, A, S, first),
           NEW i \in 1 .. Len(G.vs[first])
    PROVE  OtherCopy(G, first, i, G.vs[first][i].to, G.vs[first][i].rev)
  <1> DEFINE t == G.vs[first][i].to
             r == G.vs[first][i].rev
  <1>1. Whole2(G, first, i, t, r)
    BY WholeMates, Zenon DEF Whole
  <1> HIDE DEF t, r
  <1>2. ASSUME NEW u \in 1 .. Len(G.vs), NEW j \in 1 .. Len(G.vs[u]), G.vs[u][j].to = first
        PROVE  G.vs[u][j].rev = i <=> u = t /\ j = r
    <2>1. Whole2(G, u, j, first, G.vs[u][j].rev)
      BY <1>2, WholeMates
    <2>2. ASSUME G.vs[u][j].rev = i PROVE u = t /\ j = r
      BY <1>1, <2>1, <2>2, Zenon DEF Whole2
    <2>3. ASSUME u = t, j = r PROVE G.vs[u][j].rev = i
      BY <1>1, <2>3, Zenon DEF Whole2
    <2> QED
      BY <2>2, <2>3
  <1> QED
    BY <1>2 DEF OtherCopy, t, r

\* The first array is emptied.
Emptied(G, first) == [G EXCEPT !.vs[first] = <<>>]

\* The array of first is emptied.
LEMMA EmptiedFacts ==
    ASSUME NEW G \in Objects, NEW first \in 1 .. Len(G.vs), NEW H, H = Emptied(G, first)
    PROVE  /\ H \in Objects /\ Untouched(G, H)
           /\ IsPutRow(G.vs, first, <<>>, H.vs)
  <1> DEFINE vs == PutRow(G.vs, first, <<>>)
  <1>1. G.vs \in Adj /\ <<>> \in Row
    BY ObjectFacts DEF Row
  <1>2. IsPutRow(G.vs, first, <<>>, vs)
    BY <1>1, RowChanged
  <1>3. vs \in Adj
    BY <1>2 DEF IsPutRow
  <1>4. H = [G EXCEPT !.vs = vs]
    BY DEF Emptied, PutRow
  <1> HIDE DEF vs
  <1>5. H \in Objects /\ Untouched(G, H) /\ H.vs = vs
    BY <1>3, <1>4, WithVs
  <1> QED
    BY <1>2, <1>5

\* The pairs when the array of first is empty.
LEMMA KeptStart ==
    ASSUME NEW G, NEW A, NEW S, NEW first, Whole(G, A, S, first), NEW ws,
           IsPutRow(G.vs, first, <<>>, ws)
    PROVE  Paired(ws, KeptSet(G, S, first, 0, 0))
  <1> DEFINE n == Len(G.vs)
             B == KeptSet(G, S, first, 0, 0)
  <1>1. n \in Nat /\ first \in 1 .. n /\ first \in S /\ \A u \in 1 .. n : Len(G.vs[u]) \in Nat
    BY DEF Whole
  <1>2. ws \in Adj /\ Len(ws) = n /\ \A u \in 1 .. n : u # first => ws[u] = G.vs[u]
    BY DEF IsPutRow
  <1>3. B \in [1 .. n -> SUBSET Nat]
    BY <1>1 DEF KeptSet
  <1>4. B[first] = {}
    BY <1>1 DEF KeptSet
  <1>5. \A u \in 1 .. n : u # first =>
            B[u] = {j \in 1 .. Len(G.vs[u]) : IF u \in S THEN G.vs[u][j].to \notin S
                                              ELSE G.vs[u][j].to = first => G.vs[u][j].rev <= 0}
    BY <1>1 DEF KeptSet
  <1> HIDE DEF B, n
  <1>6. ASSUME NEW u \in 1 .. n, u # first, NEW j \in B[u]
        PROVE  /\ j \in 1 .. Len(G.vs[u]) /\ G.vs[u][j].to # first
               /\ u \in S => G.vs[u][j].to \notin S
    <2>1. j \in 1 .. Len(G.vs[u])
      BY <1>5, <1>6
    <2>2. CASE u \in S
      BY <1>1, <1>5, <1>6, <2>1, <2>2
    <2>3. CASE u \notin S
      <3>1. G.vs[u][j].to = first => G.vs[u][j].rev <= 0
        BY <1>5, <1>6, <2>3
      <3>2. Whole2(G, u, j, G.vs[u][j].to, G.vs[u][j].rev)
        BY <2>1, WholeMates DEF n
      <3>3. ~(G.vs[u][j].rev <= 0)
        <4> DEFINE t == G.vs[u][j].to
                   r == G.vs[u][j].rev
        <4>1. t \in 1 .. n /\ r \in 1 .. Len(G.vs[t])
          BY <3>2, Zenon DEF Whole2, n
        <4>2. Len(G.vs[t]) \in Nat
          BY <1>1, <4>1 DEF n
        <4> HIDE DEF t, r
        <4>3. ~(r <= 0)
          BY <4>1, <4>2
        <4> QED
          BY <4>3 DEF r
      <3> QED
        BY <2>1, <2>3, <3>1, <3>3
    <2> QED
      BY <2>2, <2>3
  <1>7. \A u \in 1 .. n : B[u] \subseteq 1 .. Len(ws[u])
    BY <1>2, <1>4, <1>6
  <1>8. ASSUME NEW u \in 1 .. n, NEW j \in B[u]
        PROVE  Mate(ws, B, u, j, ws[u][j].to, ws[u][j].rev)
    <2> DEFINE t == G.vs[u][j].to
               r == G.vs[u][j].rev
    <2>1. u # first
      BY <1>4, <1>8
    <2>2. j \in 1 .. Len(G.vs[u]) /\ t # first /\ (u \in S => t \notin S)
      BY <1>6, <1>8, <2>1
    <2>3. ws[u] = G.vs[u]
      BY <1>2, <2>1
    <2>4. Whole2(G, u, j, t, r)
      BY <2>2, WholeMates, Zenon DEF n
    <2> HIDE DEF t, r
    <2>5. t \in 1 .. n /\ t # u /\ r \in 1 .. Len(G.vs[t]) /\ ws[t] = G.vs[t]
      BY <1>2, <2>2, <2>4, Zenon DEF Whole2, n
    <2>6. r \in B[t]
      <3>1. G.vs[t][r].to = u
        BY <2>4, Zenon DEF Whole2
      <3> QED
        BY <1>5, <2>1, <2>2, <2>5, <3>1
    <2>7. \A k \in B[u] : ws[u][k].to = t => k = j
      <3>1. \A k \in B[u] : k \in 1 .. Len(G.vs[u])
        BY <1>6, <2>1
      <3> QED
        BY <2>3, <2>4, <3>1, Zenon DEF Whole2
    <2>8. ws[t][r].to = u /\ ws[t][r].w = ws[u][j].w /\ ws[t][r].rev = j
      BY <2>3, <2>4, <2>5, Zenon DEF Whole2
    <2> QED
      BY <1>2, <2>3, <2>5, <2>6, <2>7, <2>8, Zenon DEF Mate, t, r
  <1> QED
    BY <1>2, <1>3, <1>7, <1>8 DEF Paired, B

\* The loop over the edges of first begins.
LEMMA KeepStarts ==
    ASSUME NEW G, NEW A, NEW S, NEW first, Whole(G, A, S, first)
    PROVE  Keeping(G, Emptied(G, first), S, first, 0)
  <1> DEFINE n == Len(G.vs)
             H == Emptied(G, first)
             L == Len(G.vs[first])
             d == [u \in 1 .. n |-> Len(G.vs[u])]
  <1>1. H \in Objects /\ Untouched(G, H) /\ IsPutRow(G.vs, first, <<>>, H.vs)
    BY EmptiedFacts DEF Whole
  <1> HIDE DEF H
  <1>2. H.vs \in Adj /\ Len(H.vs) = n /\ H.vs[first] = <<>> /\ Len(H.vs[first]) = 0
        /\ \A u \in 1 .. n : u # first => H.vs[u] = G.vs[u]
    BY <1>1 DEF IsPutRow
  <1>3. Paired(H.vs, KeptSet(G, S, first, 0, 0))
    BY <1>1, KeptStart
  <1>4. KeptCount(G, first, 0, 0) = d
    BY DEF Whole, KeptCount
  <1>5. H.m = Sum(d, 1 .. n)
    BY <1>1 DEF Whole, Untouched
  <1>6. \A u \in 1 .. n : u # first => SameRow(G, H, u)
    BY <1>1, <1>2 DEF SameRow, Untouched
  <1>7. H.deg[first] = RowSum(H.vs[first]) + Sum(Weight(G.vs[first]), 1 .. L)
    <2>1. G.vs[first] \in Row /\ G.deg[first] = RowSum(G.vs[first])
      BY RowFacts DEF Whole
    <2>2. DOMAIN G.vs[first] = 1 .. L /\ RowSum(G.vs[first]) \in Int
      BY <2>1, WeightFacts
    <2>3. G.deg[first] = Sum(Weight(G.vs[first]), 1 .. L) /\ G.deg[first] \in Int
      BY <2>1, <2>2 DEF RowSum
    <2>4. H.deg[first] = G.deg[first] /\ RowSum(H.vs[first]) = 0
      BY <1>1, <1>2, RowSumEmpty DEF Untouched
    <2> HIDE DEF L
    <2> QED
      BY <2>3, <2>4
  <1>8. SameNames(G, H) /\ Len(H.deg) = n
    BY <1>1, <1>2 DEF SameNames, Untouched, Whole
  <1> HIDE DEF d
  <1> QED
    BY <1>1, <1>2, <1>3, <1>4, <1>5, <1>6, <1>7, <1>8 DEF Keeping, H

-----------------------------------------------------------------------------
\* Edge i of first leads into the set.
LEMMA KeptSkipped ==
    ASSUME NEW G, NEW A, NEW S, NEW first, Whole(G, A, S, first),
           NEW i \in 1 .. Len(G.vs[first]), G.vs[first][i].to \in S, NEW len
    PROVE  KeptSet(G, S, first, i - 1, len) = KeptSet(G, S, first, i, len)
  <1> DEFINE n == Len(G.vs)
  <1>1. \A u \in 1 .. n : Len(G.vs[u]) \in Nat
    BY DEF Whole
  <1>0. OtherCopy(G, first, i, G.vs[first][i].to, G.vs[first][i].rev)
    BY KeptSame
  <1>2. ASSUME NEW u \in 1 .. n, u # first, u \notin S, NEW j \in 1 .. Len(G.vs[u])
        PROVE  (G.vs[u][j].to = first => G.vs[u][j].rev <= i - 1)
               <=> (G.vs[u][j].to = first => G.vs[u][j].rev <= i)
    <2>1. CASE G.vs[u][j].to = first
      <3> DEFINE r == G.vs[u][j].rev
      <3>1. r # i
        BY <1>0, <1>2, <2>1 DEF OtherCopy
      <3>2. Whole2(G, u, j, first, r)
        BY <2>1, WholeMates, Zenon
      <3>3. r \in 1 .. Len(G.vs[first]) /\ Len(G.vs[first]) \in Nat
        BY <3>2, Zenon DEF Whole2, Whole
      <3> HIDE DEF r
      <3>4. r <= i - 1 <=> r <= i
        BY <3>1, <3>3
      <3> QED
        BY <3>4, Zenon DEF r
    <2> QED
      BY <2>1
  <1>3. \A u \in 1 .. n : u # first /\ u \notin S =>
            {j \in 1 .. Len(G.vs[u]) : G.vs[u][j].to = first => G.vs[u][j].rev <= i - 1}
            = {j \in 1 .. Len(G.vs[u]) : G.vs[u][j].to = first => G.vs[u][j].rev <= i}
    BY <1>2
  <1>4. first \in S
    BY DEF Whole
  <1>5. ASSUME NEW u \in 1 .. n
        PROVE  KeptSet(G, S, first, i - 1, len)[u] = KeptSet(G, S, first, i, len)[u]
    <2>1. CASE u \in S
      BY <2>1 DEF KeptSet, n
    <2>2. CASE u \notin S
      <3>1. u # first
        BY <1>4, <2>2
      <3>2. KeptSet(G, S, first, i - 1, len)[u]
            = {j \in 1 .. Len(G.vs[u]) : G.vs[u][j].to = first => G.vs[u][j].rev <= i - 1}
        BY <2>2, <3>1 DEF KeptSet, n
      <3>3. KeptSet(G, S, first, i, len)[u]
            = {j \in 1 .. Len(G.vs[u]) : G.vs[u][j].to = first => G.vs[u][j].rev <= i}
        BY <2>2, <3>1 DEF KeptSet, n
      <3> QED
        BY <1>3, <2>2, <3>1, <3>2, <3>3
    <2> QED
      BY <2>1, <2>2
  <1>6. /\ KeptSet(G, S, first, i - 1, len)
           = [u \in 1 .. n |-> KeptSet(G, S, first, i - 1, len)[u]]
        /\ KeptSet(G, S, first, i, len) = [u \in 1 .. n |-> KeptSet(G, S, first, i, len)[u]]
    BY DEF KeptSet, n
  <1> QED
    BY <1>5, <1>6, Zenon

\* Edge i of first is kept.
LEMMA KeptAdded ==
    ASSUME NEW G, NEW A, NEW S, NEW first, Whole(G, A, S, first),
           NEW i \in 1 .. Len(G.vs[first]), NEW t, t = G.vs[first][i].to, t \notin S,
           NEW len \in Nat, NEW r, r = G.vs[first][i].rev
    PROVE  KeptSet(G, S, first, i, len + 1) =
               AddedSet(Len(G.vs), KeptSet(G, S, first, i - 1, len), first, len + 1, t, r)
  <1> DEFINE n == Len(G.vs)
             B == KeptSet(G, S, first, i - 1, len)
             C == KeptSet(G, S, first, i, len + 1)
             E == AddedSet(n, B, first, len + 1, t, r)
  <1>1. \A u \in 1 .. n : Len(G.vs[u]) \in Nat
    BY DEF Whole
  <1>2. first \in S /\ first \in 1 .. n
    BY DEF Whole
  <1>3. Whole2(G, first, i, t, r)
    BY <1>2, WholeMates DEF n
  <1>4. t \in 1 .. n /\ t # first /\ r \in 1 .. Len(G.vs[t]) /\ G.vs[t][r].to = first
        /\ G.vs[t][r].rev = i
    BY <1>3, Zenon DEF Whole2, n
  <1>0. OtherCopy(G, first, i, t, r)
    BY KeptSame
  <1>5. ASSUME NEW u \in 1 .. n, u \notin S, NEW j \in 1 .. Len(G.vs[u])
        PROVE  (G.vs[u][j].to = first => G.vs[u][j].rev <= i)
               <=> \/ G.vs[u][j].to = first => G.vs[u][j].rev <= i - 1
                   \/ u = t /\ j = r
    <2>1. CASE G.vs[u][j].to = first
      <3> DEFINE q == G.vs[u][j].rev
      <3>1. q = i <=> u = t /\ j = r
        BY <1>0, <2>1 DEF OtherCopy
      <3>2. Whole2(G, u, j, first, q)
        BY <2>1, WholeMates, Zenon
      <3>3. q \in 1 .. Len(G.vs[first]) /\ Len(G.vs[first]) \in Nat
        BY <3>2, Zenon DEF Whole2, Whole
      <3> HIDE DEF q
      <3>4. q <= i <=> q <= i - 1 \/ (u = t /\ j = r)
        BY <3>1, <3>3
      <3> QED
        BY <2>1, <3>4 DEF q
    <2> QED
      BY <2>1
  <1>6. B[first] = 1 .. len /\ C[first] = 1 .. len + 1
    BY <1>2 DEF KeptSet, n
  <1>7. \A u \in S : u \in 1 .. n /\ u # first => C[u] = B[u]
    BY DEF KeptSet, n
  <1>8. \A u \in 1 .. n : u \notin S =>
            /\ B[u] = {j \in 1 .. Len(G.vs[u]) : G.vs[u][j].to = first => G.vs[u][j].rev <= i - 1}
            /\ C[u] = {j \in 1 .. Len(G.vs[u]) : G.vs[u][j].to = first => G.vs[u][j].rev <= i}
    BY <1>2 DEF KeptSet, n
  <1>9. C = [u \in 1 .. n |-> C[u]] /\ E = [u \in 1 .. n |-> E[u]]
    BY DEF KeptSet, AddedSet, n
  <1>10. E[first] = B[first] \cup {len + 1} /\ E[t] = B[t] \cup {r}
         /\ \A u \in 1 .. n : u # first /\ u # t => E[u] = B[u]
    BY <1>2, <1>4 DEF AddedSet
  <1> HIDE DEF B, C, E, n
  <1>11. ASSUME NEW u \in 1 .. n PROVE C[u] = E[u]
    <2>1. CASE u = first
      <3>1. 1 .. len + 1 = (1 .. len) \cup {len + 1}
        OBVIOUS
      <3> QED
        BY <1>6, <1>10, <2>1, <3>1, Zenon
    <2>2. CASE u \in S /\ u # first
      BY <1>7, <1>10, <2>2
    <2>3. CASE u = t
      <3>1. \A j \in 1 .. Len(G.vs[t]) :
               (G.vs[t][j].to = first => G.vs[t][j].rev <= i)
               <=> (G.vs[t][j].to = first => G.vs[t][j].rev <= i - 1) \/ j = r
        BY <1>4, <1>5, Zenon
      <3>2. C[t] = B[t] \cup {r}
        <4>1. /\ B[t] = {j \in 1 .. Len(G.vs[t]) : G.vs[t][j].to = first => G.vs[t][j].rev <= i - 1}
              /\ C[t] = {j \in 1 .. Len(G.vs[t]) : G.vs[t][j].to = first => G.vs[t][j].rev <= i}
          BY <1>4, <1>8, Zenon
        <4>2. r \in 1 .. Len(G.vs[t])
          BY <1>4
        <4> QED
          BY <3>1, <4>1, <4>2, Zenon
      <3> QED
        BY <1>10, <2>3, <3>2
    <2>4. CASE u \notin S /\ u # t
      <3>1. u # first
        BY <1>2, <2>4
      <3>2. \A j \in 1 .. Len(G.vs[u]) :
               (G.vs[u][j].to = first => G.vs[u][j].rev <= i)
               <=> (G.vs[u][j].to = first => G.vs[u][j].rev <= i - 1)
        BY <1>5, <2>4
      <3>3. C[u] = B[u]
        BY <1>8, <2>4, <3>2, Zenon
      <3> QED
        BY <1>10, <2>4, <3>1, <3>3
    <2> QED
      BY <2>1, <2>2, <2>3, <2>4
  <1>12. C = E
    BY <1>9, <1>11
  <1> QED
    BY <1>12 DEF C, E, B, n

TailSplits(f, i, L) == Sum(f, i .. L) = f[i] + Sum(f, i + 1 .. L) /\ Sum(f, i + 1 .. L) \in Int

\* The weights that are still to be gone through.
LEMMA TailSum ==
    ASSUME NEW L \in Nat, NEW i \in 1 .. L, NEW f, \A k \in 1 .. L : f[k] \in Int
    PROVE  TailSplits(f, i, L)
  <1> DEFINE T == i + 1 .. L
  <1>1. i .. L = T \cup {i} /\ i \notin T /\ IsFiniteSet(T)
    <2>1. IsFiniteSet(T)
      BY FS_Interval
    <2>2. i .. L = T \cup {i} /\ i \notin T
      OBVIOUS
    <2> QED
      BY <2>1, <2>2
  <1>2. f[i] \in Int /\ \A k \in T : f[k] \in Int
    OBVIOUS
  <1> HIDE DEF T
  <1>3. Sum(f, T \cup {i}) = f[i] + Sum(f, T)
    BY <1>1, <1>2, SumInsert
  <1>4. Sum(f, T) \in Int
    BY <1>1, <1>2, SumInt
  <1> QED
    BY <1>1, <1>3, <1>4, Zenon DEF TailSplits, T

Fewer(c, d, n, v) == Sum(d, 1 .. n) = Sum(c, 1 .. n) - 1
\* One edge less is counted.
LEMMA SumFewer ==
    ASSUME NEW n \in Nat, NEW c \in [1 .. n -> Int], NEW d \in [1 .. n -> Int], NEW v \in 1 .. n,
           d[v] = c[v] - 1, \A u \in 1 .. n : u # v => d[u] = c[u]
    PROVE  Fewer(c, d, n, v)
  <1> DEFINE N == 1 .. n
  <1>1. IsFiniteSet(N) /\ v \in N
    BY FS_Interval
  <1>2. \A u \in N : c[u] \in Int /\ d[u] \in Int
    OBVIOUS
  <1>3. \A u \in N \ {v} : c[u] = d[u]
    OBVIOUS
  <1> HIDE DEF N
  <1>4. Differs(c, d, N, v)
    BY <1>1, <1>2, <1>3, SumDiffers, Zenon
  <1>5. Sum(c, N) \in Int
    BY <1>1, <1>2, SumInt, Zenon
  <1>6. Sum(d, N) = Sum(c, N) - 1
    BY <1>1, <1>2, <1>4, <1>5 DEF Differs
  <1> QED
    BY <1>6 DEF Fewer, N

Dropped(H, first, w) == Put(H, H.vs, Spent(H.deg, first, w), H.m - 1)

\* An edge inside the set is dropped, written field by field.
LEMMA DroppedIs ==
    ASSUME NEW H \in Objects, NEW first, NEW w
    PROVE  [H EXCEPT !.m = @ - 1, !.deg[first] = @ - w] = Dropped(H, first, w)
  BY Zenon DEF Dropped, Put, Spent, Objects

Kept(H, first, e) == Put(H, TakenKept(H.vs, first, e), H.deg, H.m)

\* An edge that leaves the set is kept, written field by field.
LEMMA KeptIs ==
    ASSUME NEW H \in Objects, NEW first \in 1 .. Len(H.vs), NEW e, e.to # first,
           e.to \in 1 .. Len(H.vs)
    PROVE  [H EXCEPT !.vs[first] = Append(@, e), !.vs[e.to][e.rev].rev = Len(H.vs[first]) + 1]
           = Kept(H, first, e)
  <1> DEFINE x == Appended(H.vs, first, e)
             k == Len(H.vs[first]) + 1
             vs == TakenKept(H.vs, first, e)
  <1>1. e.to \in DOMAIN H.vs
    BY ObjectFacts
  <1>2. x[e.to] = H.vs[e.to]
    BY <1>1 DEF Appended, PutRow
  <1> HIDE DEF k
  <1>3. vs = [H.vs EXCEPT ![first] = Append(H.vs[first], e), ![e.to][e.rev].rev = k]
    <2>1. vs = [x EXCEPT ![e.to] = [x[e.to] EXCEPT ![e.rev] = [x[e.to][e.rev] EXCEPT !.rev = k]]]
      BY DEF TakenKept, Told, PutEdge, PutRow, WithRev, k
    <2>2. x = [H.vs EXCEPT ![first] = Append(H.vs[first], e)]
      BY DEF Appended, PutRow
    <2> HIDE DEF vs, x
    <2> QED
      BY <1>1, <1>2, <2>1, <2>2, Zenon
  <1> HIDE DEF vs
  <1>4. [H EXCEPT !.vs[first] = Append(@, e), !.vs[e.to][e.rev].rev = k] = [H EXCEPT !.vs = vs]
    BY <1>3, Zenon
  <1>5. [H EXCEPT !.vs = vs] = Put(H, vs, H.deg, H.m)
    BY Zenon DEF Put, Objects
  <1> QED
    BY <1>4, <1>5 DEF Kept, k, vs

\* One edge more is gone through, and one more kept.
LEMMA OneMore ==
    ASSUME NEW a \in Int, NEW b \in Int, NEW i \in Int
    PROVE  a + 1 + (b - i) = a + (b - (i - 1))
  OBVIOUS

\* An edge of first inside the set is dropped.
LEMMA KeepSkip ==
    ASSUME NEW G, NEW A, NEW S, NEW first, Whole(G, A, S, first), NEW H,
           NEW i \in 1 .. Len(G.vs[first]), Keeping(G, H, S, first, i - 1),
           NEW e, e = G.vs[first][i], e.to \in S, NEW I, I = Dropped(H, first, e.w)
    PROVE  Keeping(G, I, S, first, i)
  <1> DEFINE n == Len(G.vs)
             L == Len(G.vs[first])
             len == Len(H.vs[first])
             f == Weight(G.vs[first])
             c == KeptCount(G, first, i - 1, len)
             d == KeptCount(G, first, i, len)
             deg == Spent(H.deg, first, e.w)
  <1>1. n \in Nat /\ first \in 1 .. n /\ first \in S /\ L \in Nat /\ \A u \in 1 .. n : Len(G.vs[u]) \in Nat
    BY DEF Whole
  <1>2. /\ H \in Objects /\ SameNames(G, H) /\ Len(H.deg) = n
        /\ Paired(H.vs, KeptSet(G, S, first, i - 1, len)) /\ H.m = Sum(c, 1 .. n)
        /\ \A u \in 1 .. n : u # first => SameRow(G, H, u)
    BY DEF Keeping
  <1>3. H.deg[first] = RowSum(H.vs[first]) + Sum(f, i .. L)
    <2>1. i - 1 + 1 = i
      OBVIOUS
    <2>2. H.deg[first] = RowSum(H.vs[first]) + Sum(f, i - 1 + 1 .. L)
      BY DEF Keeping
    <2> QED
      BY <2>1, <2>2
  <1>4. f[i] = e.w /\ e.w \in Int /\ \A k \in 1 .. L : f[k] \in Int
    <2>1. G.vs[first] \in Row
      BY <1>1, RowFacts DEF Whole
    <2>2. \A k \in DOMAIN G.vs[first] : f[k] = G.vs[first][k].w /\ f[k] \in Int
      BY <2>1, WeightFacts
    <2>3. DOMAIN G.vs[first] = 1 .. L
      BY <2>1, WeightFacts
    <2> HIDE DEF f
    <2> QED
      BY <2>2, <2>3
  <1>5. H.vs \in Adj /\ H.deg \in Seq(Int) /\ H.m \in Int /\ Len(H.vs) = n /\ first \in 1 .. Len(H.deg)
    BY <1>1, <1>2, ObjectFacts, Zenon DEF SameNames
  <1>6. IsSpent(H.deg, first, e.w, deg)
    BY <1>4, <1>5, SpentFacts
  <1>7. IsPut(H, H.vs, deg, H.m - 1, I)
    <2>1. deg \in Seq(Int) /\ H.m - 1 \in Int
      BY <1>5, <1>6 DEF IsSpent
    <2> HIDE DEF deg
    <2> QED
      BY <1>2, <1>5, <2>1, PutFacts DEF Dropped, deg
  <1> HIDE DEF deg
  <1>8. I \in Objects /\ I.vs = H.vs /\ I.deg = deg /\ I.m = H.m - 1 /\ SameNames(G, I)
        /\ Len(I.deg) = n
    BY <1>2, <1>6, <1>7 DEF IsPut, SameNames, IsSpent
  <1>9. Paired(I.vs, KeptSet(G, S, first, i, len))
    BY <1>2, <1>8, KeptSkipped
  <1>10. I.m = Sum(d, 1 .. n)
    <2>1. len \in Nat
      BY <1>1, <1>5, RowFacts
    <2>2. c \in [1 .. n -> Int] /\ d \in [1 .. n -> Int]
      BY <1>1, <2>1 DEF KeptCount
    <2>3. d[first] = c[first] - 1
      <3>1. c[first] = len + (L - (i - 1)) /\ d[first] = len + (L - i)
        BY <1>1, Zenon DEF KeptCount
      <3> HIDE DEF c, d, len, L
      <3> QED
        BY <1>1, <2>1, <3>1
    <2>4. \A u \in 1 .. n : u # first => d[u] = c[u]
      BY DEF KeptCount
    <2> HIDE DEF c, d
    <2>5. Fewer(c, d, n, first)
      BY <1>1, <2>2, <2>3, <2>4, SumFewer, Zenon
    <2> QED
      BY <1>2, <1>8, <2>5 DEF Fewer
  <1>11. \A u \in 1 .. n : u # first => SameRow(G, I, u)
    BY <1>2, <1>6, <1>8 DEF SameRow, IsSpent
  <1>12. I.deg[first] = RowSum(I.vs[first]) + Sum(f, i + 1 .. L)
    <2>1. TailSplits(f, i, L)
      <3> HIDE DEF f, L
      <3> QED
        BY <1>1, <1>4, TailSum DEF L
    <2>2. deg[first] = H.deg[first] - e.w
      BY <1>6 DEF IsSpent
    <2>3. RowSum(H.vs[first]) \in Int
      BY <1>1, <1>5, RowFacts, WeightFacts
    <2> HIDE DEF f, L
    <2> QED
      <3>1. Sum(f, i .. L) = e.w + Sum(f, i + 1 .. L) /\ Sum(f, i + 1 .. L) \in Int
        BY <1>4, <2>1 DEF TailSplits
      <3>2. H.deg[first] - e.w = RowSum(H.vs[first]) + Sum(f, i + 1 .. L)
        <4> DEFINE a == H.deg[first]
                   b == RowSum(H.vs[first])
                   q == Sum(f, i + 1 .. L)
                   w == e.w
                   z == Sum(f, i .. L)
        <4>1. a = b + z /\ z = w + q /\ b \in Int /\ q \in Int /\ w \in Int
          BY <1>3, <1>4, <2>3, <3>1
        <4> HIDE DEF a, b, q, w, z
        <4>2. a - w = b + q
          BY <4>1
        <4> QED
          BY <4>2 DEF a, b, q, w
      <3> QED
        BY <1>8, <2>2, <3>2
  <1>13. Len(I.vs[first]) = len
    BY <1>8
  <1> HIDE DEF n, L, len, f, d
  <1> QED
    BY <1>8, <1>9, <1>10, <1>11, <1>12, <1>13 DEF Keeping, n, L, f, d

\* An edge of first that leaves the set is kept.
LEMMA KeepTake ==
    ASSUME NEW G, NEW A, NEW S, NEW first, Whole(G, A, S, first), NEW H,
           NEW i \in 1 .. Len(G.vs[first]), Keeping(G, H, S, first, i - 1),
           NEW e, e = G.vs[first][i], e.to \notin S, NEW I, I = Kept(H, first, e)
    PROVE  Keeping(G, I, S, first, i)
  <1> DEFINE n == Len(G.vs)
             L == Len(G.vs[first])
             len == Len(H.vs[first])
             f == Weight(G.vs[first])
             t == e.to
             r == e.rev
             B == KeptSet(G, S, first, i - 1, len)
             ws == TakenKept(H.vs, first, e)
  <1>1. n \in Nat /\ first \in 1 .. n /\ first \in S /\ L \in Nat /\ \A u \in 1 .. n : Len(G.vs[u]) \in Nat
    BY DEF Whole
  <1>2. /\ H \in Objects /\ SameNames(G, H) /\ Len(H.deg) = n
        /\ Paired(H.vs, B) /\ H.m = Sum(KeptCount(G, first, i - 1, len), 1 .. n)
        /\ \A u \in 1 .. n : u # first => SameRow(G, H, u)
    BY DEF Keeping
  <1>3. H.deg[first] = RowSum(H.vs[first]) + Sum(f, i .. L)
    <2>1. i - 1 + 1 = i
      OBVIOUS
    <2>2. H.deg[first] = RowSum(H.vs[first]) + Sum(f, i - 1 + 1 .. L)
      BY DEF Keeping
    <2> QED
      BY <2>1, <2>2
  <1>4. f[i] = e.w /\ e.w \in Int /\ \A k \in 1 .. L : f[k] \in Int
    <2>1. G.vs[first] \in Row
      BY <1>1, RowFacts DEF Whole
    <2>2. \A k \in DOMAIN G.vs[first] : f[k] = G.vs[first][k].w /\ f[k] \in Int
      BY <2>1, WeightFacts
    <2>3. DOMAIN G.vs[first] = 1 .. L
      BY <2>1, WeightFacts
    <2> HIDE DEF f
    <2> QED
      BY <2>2, <2>3
  <1>5. H.vs \in Adj /\ H.deg \in Seq(Int) /\ H.m \in Int /\ Len(H.vs) = n /\ len \in Nat
    BY <1>1, <1>2, ObjectFacts, RowFacts DEF SameNames
  <1>6. Whole2(G, first, i, t, r)
    BY <1>1, WholeMates, Zenon DEF n
  <1>7. /\ e \in Edge /\ t \in 1 .. n /\ t # first /\ r \in 1 .. Len(G.vs[t])
        /\ G.vs[t][r].to = first /\ G.vs[t][r].w = e.w /\ G.vs[t][r].rev = i
        /\ \A k \in 1 .. Len(G.vs[t]) : G.vs[t][k].to = first => k = r
    BY <1>6, Zenon DEF Whole2, n
  <1> HIDE DEF t, r, n, L, f
  <1>8. /\ Len(H.vs[t]) = Len(G.vs[t]) /\ r \in 1 .. Len(H.vs[t]) /\ H.vs[t][r].to = first
        /\ H.vs[t][r].w = e.w /\ \A k \in 1 .. Len(G.vs[t]) : H.vs[t][k].to = G.vs[t][k].to
    BY <1>2, <1>7, Zenon DEF SameRow
  <1>9. Joined(H.vs, first, t, r, e.w, ws)
    <2> HIDE DEF ws
    <2> QED
      BY <1>1, <1>5, <1>7, <1>8, TakenKeptJoins, Zenon DEF t, r, ws
  <1> HIDE DEF ws
  <1>10. JoinedSums(H.vs, first, e.w, ws)
    <2>1. /\ first \in 1 .. Len(H.vs) /\ t \in 1 .. Len(H.vs) /\ first # t
          /\ r \in 1 .. Len(H.vs[t])
      BY <1>1, <1>5, <1>7, <1>8
    <2> QED
      BY <1>4, <1>5, <1>8, <1>9, <2>1, JoinedAddsUp, Zenon
  <1>11. r \notin B[t] /\ B[t] \subseteq 1 .. Len(G.vs[t])
    <2>1. t \notin S /\ t # first
      BY <1>7 DEF t
    <2>2. B[t] = {j \in 1 .. Len(G.vs[t]) : G.vs[t][j].to = first => G.vs[t][j].rev <= i - 1}
      BY <1>7, <2>1 DEF KeptSet, n
    <2>3. ~(G.vs[t][r].rev <= i - 1)
      BY <1>7
    <2> HIDE DEF B
    <2> QED
      BY <1>7, <2>2, <2>3
  <1>12. ASSUME NEW j \in B[first] PROVE H.vs[first][j].to # t
    <2> SUFFICES ASSUME H.vs[first][j].to = t PROVE FALSE
      OBVIOUS
    <2> DEFINE q == H.vs[first][j].rev
    <2>1. Mate(H.vs, B, first, j, t, q)
      BY <1>1, <1>2, <1>5, Zenon DEF Paired
    <2> HIDE DEF q, B
    <2>2. q \in B[t] /\ H.vs[t][q].to = first
      BY <2>1 DEF Mate
    <2>3. q = r
      BY <1>7, <1>8, <1>11, <2>2, Zenon
    <2> QED
      BY <1>11, <2>2, <2>3
  <1>13. KeptSet(G, S, first, i, len + 1) = AddedSet(n, B, first, len + 1, t, r)
    <2>1. t = G.vs[first][i].to /\ t \notin S /\ r = G.vs[first][i].rev
      BY DEF t, r
    <2>2. B = KeptSet(G, S, first, i - 1, len)
      OBVIOUS
    <2> HIDE DEF len, B
    <2>3. KeptSet(G, S, first, i, len + 1) =
            AddedSet(Len(G.vs), KeptSet(G, S, first, i - 1, len), first, len + 1, t, r)
      BY <1>5, <2>1, KeptAdded
    <2> QED
      BY <2>2, <2>3, Zenon DEF n
  <1> HIDE DEF B
  <1>14. Paired(ws, KeptSet(G, S, first, i, len + 1))
    <2>1. KeptSet(G, S, first, i, len + 1) = AddedSet(Len(H.vs), B, first, len + 1, t, r)
      BY <1>5, <1>13
    <2>2. /\ first \in 1 .. Len(H.vs) /\ t \in 1 .. Len(H.vs) /\ first # t
          /\ r \in 1 .. Len(H.vs[t])
      BY <1>1, <1>5, <1>7, <1>8
    <2>3. \A j \in B[first] : H.vs[first][j].to # t
      BY <1>12
    <2> QED
      BY <1>2, <1>5, <1>9, <1>11, <2>1, <2>2, <2>3, JoinedPaired, Zenon
  <1>15. ws \in Adj /\ Len(ws) = n /\ Len(ws[first]) = len + 1
    BY <1>5, <1>9 DEF Joined
  <1>16. IsPut(H, ws, H.deg, H.m, I)
    BY <1>2, <1>5, <1>15, PutFacts DEF Kept, ws
  <1>17. I \in Objects /\ I.vs = ws /\ I.deg = H.deg /\ I.m = H.m /\ SameNames(G, I)
    BY <1>2, <1>15, <1>16 DEF IsPut, SameNames, n
  <1>18. KeptCount(G, first, i, len + 1) = KeptCount(G, first, i - 1, len)
    <2>1. len + 1 + (L - i) = len + (L - (i - 1))
      <3>1. i \in Int /\ len \in Int /\ L \in Int
        BY <1>1, <1>5
      <3> HIDE DEF len
      <3> QED
        BY <3>1, OneMore
    <2> QED
      BY <2>1 DEF KeptCount, L
  <1>19. ASSUME NEW u \in 1 .. n, u # first PROVE SameRow(G, I, u)
    <2>1. SameRow(G, H, u) /\ Len(ws[u]) = Len(H.vs[u])
      BY <1>2, <1>5, <1>9, <1>19 DEF Joined
    <2>2. ASSUME NEW j \in 1 .. Len(G.vs[u])
          PROVE  ws[u][j].to = G.vs[u][j].to /\ ws[u][j].w = G.vs[u][j].w
      <3>1. CASE u = t /\ j = r
        BY <1>7, <1>9, <3>1, Zenon DEF Joined
      <3>2. CASE ~(u = t /\ j = r)
        <4>1. ws[u][j] = H.vs[u][j]
          BY <1>5, <1>9, <1>19, <2>1, <3>2, Zenon DEF Joined, SameRow
        <4> QED
          BY <2>1, <4>1 DEF SameRow
      <3> QED
        BY <3>1, <3>2
    <2> QED
      BY <1>17, <2>1, <2>2 DEF SameRow
  <1>20. I.deg[first] = RowSum(I.vs[first]) + Sum(f, i + 1 .. L)
    <2>1. TailSplits(f, i, L)
      <3>1. L \in Nat /\ i \in 1 .. L
        BY <1>1 DEF L
      <3> QED
        BY <1>4, <3>1, TailSum
    <2>2. RowSum(H.vs[first]) \in Int
      BY <1>1, <1>5, RowFacts, WeightFacts
    <2>3. RowSum(ws[first]) = RowSum(H.vs[first]) + e.w
      BY <1>10 DEF JoinedSums
    <2>4. Sum(f, i .. L) = e.w + Sum(f, i + 1 .. L) /\ Sum(f, i + 1 .. L) \in Int
      BY <1>1, <1>4, <2>1 DEF TailSplits, L
    <2>5. H.deg[first] = RowSum(ws[first]) + Sum(f, i + 1 .. L)
      <3> DEFINE a == H.deg[first]
                 b == RowSum(H.vs[first])
                 x == RowSum(ws[first])
                 q == Sum(f, i + 1 .. L)
                 w == e.w
                 z == Sum(f, i .. L)
      <3>1. a = b + z /\ z = w + q /\ x = b + w /\ b \in Int /\ q \in Int /\ w \in Int
        BY <1>3, <1>4, <2>2, <2>3, <2>4
      <3> HIDE DEF a, b, q, w, z, x
      <3>2. a = x + q
        BY <3>1
      <3> QED
        BY <3>2 DEF a, x, q
    <2> QED
      BY <1>17, <2>5
  <1> HIDE DEF len
  <1>21. Len(I.vs[first]) = len + 1 /\ Len(I.deg) = n
    BY <1>2, <1>15, <1>17
  <1>22. I.m = Sum(KeptCount(G, first, i, len + 1), 1 .. n)
    BY <1>2, <1>17, <1>18
  <1> QED
    BY <1>14, <1>17, <1>19, <1>20, <1>21, <1>22 DEF Keeping, n, L, f

\* The other vertices of the set are untouched; their edges into it do not count.
Inner(H, S, first, A, c) ==
    /\ Live(H, A, c, S \ {first}, S \ {first}, 0)
    /\ \A u \in S \ {first} : /\ A[u] = {j \in 1 .. Len(H.vs[u]) : H.vs[u][j].to \notin S}
                              /\ c[u] = Len(H.vs[u])

\* The loop over the edges of first has ended.
LEMMA KeepEnds ==
    ASSUME NEW G, NEW A, NEW S, NEW first, Whole(G, A, S, first), NEW H,
           Keeping(G, H, S, first, Len(G.vs[first]))
    PROVE  \E B, d : Inner(H, S, first, B, d)
  <1> DEFINE n == Len(G.vs)
             L == Len(G.vs[first])
             len == Len(H.vs[first])
             f == Weight(G.vs[first])
             B == KeptSet(G, S, first, L, len)
             d == KeptCount(G, first, L, len)
  <1>1. n \in Nat /\ first \in 1 .. n /\ first \in S /\ L \in Nat /\ S \subseteq 1 .. n
        /\ \A u \in 1 .. n : Len(G.vs[u]) \in Nat
    BY DEF Whole
  <1>2. /\ H \in Objects /\ SameNames(G, H) /\ Len(H.deg) = n
        /\ Paired(H.vs, B) /\ H.m = Sum(d, 1 .. n)
        /\ \A u \in 1 .. n : u # first => SameRow(G, H, u)
        /\ H.deg[first] = RowSum(H.vs[first]) + Sum(f, L + 1 .. L)
    BY DEF Keeping
  <1>3. H.vs \in Adj /\ H.m \in Int /\ Len(H.vs) = n /\ len \in Nat
    BY <1>1, <1>2, ObjectFacts, RowFacts, Zenon DEF SameNames
  <1>4. H.deg[first] = RowSum(H.vs[first])
    <2>1. L + 1 .. L = {}
      BY <1>1
    <2>2. Sum(f, L + 1 .. L) = 0
      <3> HIDE DEF f, L
      <3> QED
        BY <2>1, SumEmpty, Zenon
    <2>3. RowSum(H.vs[first]) \in Int
      BY <1>1, <1>3, RowFacts, WeightFacts
    <2> HIDE DEF f, L
    <2> QED
      BY <1>2, <2>2, <2>3
  <1>5. ASSUME NEW u \in 1 .. n, u # first
        PROVE  H.deg[u] = RowSum(H.vs[u]) /\ Len(H.vs[u]) = Len(G.vs[u])
    <2>1. SameRow(G, H, u)
      BY <1>2, <1>5
    <2>2. G.vs[u] \in Row /\ H.vs[u] \in Row /\ G.deg[u] = RowSum(G.vs[u])
      BY <1>3, RowFacts, Zenon DEF Whole
    <2>3. Len(G.vs[u]) = Len(H.vs[u]) /\ \A i \in 1 .. Len(G.vs[u]) : G.vs[u][i].w = H.vs[u][i].w
      BY <2>1 DEF SameRow
    <2>4. RowSum(H.vs[u]) = RowSum(G.vs[u])
      BY <2>2, <2>3, RowSumSame, Zenon
    <2> QED
      BY <2>1, <2>2, <2>4 DEF SameRow
  <1>6. d[first] = len /\ \A u \in 1 .. n : u # first => d[u] = Len(H.vs[u])
    <2>1. d[first] = len + (L - L) /\ \A u \in 1 .. n : u # first => d[u] = Len(G.vs[u])
      BY <1>1 DEF KeptCount
    <2> HIDE DEF d, len, L, n
    <2>2. len + (L - L) = len
      BY <1>1, <1>3
    <2> QED
      BY <1>5, <2>1, <2>2
  <1>7. d \in [1 .. n -> Int]
    <2>1. \A u \in 1 .. n : d[u] = Len(H.vs[u]) /\ Len(H.vs[u]) \in Int
      BY <1>3, <1>6, RowFacts
    <2>2. d = [u \in 1 .. n |-> d[u]]
      BY DEF KeptCount
    <2> HIDE DEF d
    <2> QED
      BY <2>1, <2>2, Zenon
  <1>8. ASSUME NEW u \in 1 .. n, u \notin S PROVE B[u] = 1 .. Len(H.vs[u])
    <2>1. u # first
      BY <1>1, <1>8
    <2>2. B[u] = {j \in 1 .. Len(G.vs[u]) : G.vs[u][j].to = first => G.vs[u][j].rev <= L}
      BY <1>8, <2>1 DEF KeptSet
    <2>3. ASSUME NEW j \in 1 .. Len(G.vs[u]), G.vs[u][j].to = first
          PROVE  G.vs[u][j].rev <= L
      <3>1. Whole2(G, u, j, first, G.vs[u][j].rev)
        BY <2>3, WholeMates, Zenon
      <3>2. G.vs[u][j].rev \in 1 .. L
        BY <3>1, Zenon DEF Whole2
      <3> QED
        BY <1>1, <3>2
    <2> HIDE DEF B, L
    <2> QED
      BY <1>5, <2>1, <2>2, <2>3
  <1>9. B[first] = 1 .. len
    BY <1>1 DEF KeptSet
  <1>10. ASSUME NEW u \in S, u # first
         PROVE  B[u] = {j \in 1 .. Len(H.vs[u]) : H.vs[u][j].to \notin S}
    <2>1. B[u] = {j \in 1 .. Len(G.vs[u]) : G.vs[u][j].to \notin S}
      BY <1>1, <1>10 DEF KeptSet
    <2>2. SameRow(G, H, u)
      BY <1>1, <1>2, <1>10
    <2> HIDE DEF B
    <2> QED
      BY <2>1, <2>2 DEF SameRow
  <1> HIDE DEF B, d, n, L, f
  <1>11. /\ \A u \in 1 .. n : u \notin S \ {first} => B[u] = 1 .. Len(H.vs[u])
         /\ \A u \in 1 .. n : u \notin S \ {first} => d[u] = Len(H.vs[u]) /\ H.deg[u] = RowSum(H.vs[u])
    BY <1>4, <1>5, <1>6, <1>8, <1>9
  <1>12. H.m = Sum(d, 1 .. n) + 0
    BY <1>2, <1>3
  <1>13. Live(H, B, d, S \ {first}, S \ {first}, 0)
    BY <1>2, <1>3, <1>7, <1>11, <1>12 DEF Live
  <1>14. \A u \in S \ {first} : d[u] = Len(H.vs[u])
    BY <1>1, <1>6
  <1>15. Inner(H, S, first, B, d)
    BY <1>10, <1>13, <1>14 DEF Inner
  <1> QED
    BY <1>15

KeepRun(G, S, first, base, n, r) ==
    /\ r[0] = base /\ \A i \in 1 .. n : r[i] = KeepPass(r[i - 1], G.vs[first], S, first, i)
    /\ KeepLoop(G.vs[first], S, first, base, Indices(n)) = r[n]

\* The run of that loop.
LEMMA KeepLoopRuns ==
    ASSUME NEW G, NEW S, NEW first, NEW base, NEW n \in Nat
    PROVE  \E r : KeepRun(G, S, first, base, n, r)
  <1>1. DOMAIN Indices(n) = 1 .. n /\ Len(Indices(n)) = n /\ \A i \in 1 .. n : Indices(n)[i] = i
    BY IndicesFacts
  <1>2. \E r : /\ IsRun(r, "Keep", <<G.vs[first], S, first>>, base, Indices(n))
               /\ KeepLoop(G.vs[first], S, first, base, Indices(n)) = r[n]
    BY <1>1, KeepRuns
  <1> QED
    BY <1>1, <1>2 DEF IsRun, Pass, KeepRun

\* A pass of that loop.
LEMMA KeepStep ==
    ASSUME NEW G, NEW A, NEW S, NEW first, Whole(G, A, S, first), NEW H,
           NEW i \in 1 .. Len(G.vs[first]), Keeping(G, H, S, first, i - 1),
           NEW I, I = KeepPass(H, G.vs[first], S, first, i)
    PROVE  Keeping(G, I, S, first, i)
  <1> DEFINE e == G.vs[first][i]
  <1>1. H \in Objects /\ SameNames(G, H) /\ first \in 1 .. Len(G.vs) /\ first \in S
    BY DEF Keeping, Whole
  <1>2. CASE e.to \in S
    <2>1. I = [H EXCEPT !.m = @ - 1, !.deg[first] = @ - e.w]
      BY <1>2 DEF KeepPass
    <2>2. I = Dropped(H, first, e.w)
      BY <1>1, <2>1, DroppedIs, Zenon
    <2> QED
      BY <1>2, <2>2, KeepSkip
  <1>3. CASE e.to \notin S
    <2>1. I = [H EXCEPT !.vs[first] = Append(@, e), !.vs[e.to][e.rev].rev = Len(H.vs[first]) + 1]
      BY <1>3, Zenon DEF KeepPass
    <2>2. Whole2(G, first, i, e.to, e.rev)
      BY <1>1, WholeMates, Zenon
    <2>3. e.to # first /\ e.to \in 1 .. Len(H.vs) /\ first \in 1 .. Len(H.vs)
      BY <1>1, <2>2, Zenon DEF Whole2, SameNames
    <2> HIDE DEF e
    <2>4. I = Kept(H, first, e)
      BY <1>1, <2>1, <2>3, KeptIs, Zenon
    <2> QED
      BY <1>3, <2>4, KeepTake DEF e
  <1> QED
    BY <1>2, <1>3

\* What the loop leaves.
DroppedInner(G, S, first, H) ==
    /\ \E A, c : Inner(H, S, first, A, c)
    /\ SameNames(G, H)

\* After the loop no edge of first counts that stays in the set.
LEMMA DropInnerDrops ==
    ASSUME NEW G, Alive(G), NEW S, S \subseteq 1 .. Len(G.vs), NEW first \in S
    PROVE  DroppedInner(G, S, first, DropInner(G, S, first))
  <1> DEFINE L == Len(G.vs[first])
             base == Emptied(G, first)
  <1>1. PICK A : Whole(G, A, S, first)
    BY WholeFacts, Zenon
  <1>2. L \in Nat /\ G.vs[first] \in Row
    BY <1>1, RowFacts DEF Whole
  <1>3. DropInner(G, S, first) = KeepLoop(G.vs[first], S, first, base, Indices(L))
    <2>1. [i \in DOMAIN G.vs[first] |-> i] = Indices(L)
      BY <1>2, IndicesAre
    <2> QED
      BY <2>1, Zenon DEF DropInner, FoldLeftDomain, KeepLoop, KeepPass, Emptied
  <1> HIDE DEF L, base
  <1>4. PICK r : KeepRun(G, S, first, base, L, r)
    BY <1>2, KeepLoopRuns, Zenon
  <1>5. /\ r[0] = base /\ \A i \in 1 .. L : r[i] = KeepPass(r[i - 1], G.vs[first], S, first, i)
        /\ KeepLoop(G.vs[first], S, first, base, Indices(L)) = r[L]
    BY <1>4 DEF KeepRun
  <1> DEFINE T == {j \in 0 .. L : Keeping(G, r[j], S, first, j)}
  <1>6. 0 \in T
    BY <1>1, <1>2, <1>5, KeepStarts DEF base
  <1>7. ASSUME NEW j \in 1 .. L, j - 1 \in T PROVE j \in T
    <2>1. Keeping(G, r[j - 1], S, first, j - 1)
      BY <1>7
    <2>2. Keeping(G, r[j], S, first, j)
      BY <1>1, <1>5, <2>1, KeepStep DEF L
    <2> QED
      BY <2>2
  <1> HIDE DEF T
  <1>8. L \in T
    <2>1. \A j \in 0 .. L : j \in T
      BY <1>2, <1>6, <1>7, UpTo, Zenon
    <2> QED
      BY <1>2, <2>1
  <1>9. Keeping(G, r[L], S, first, L)
    BY <1>8 DEF T
  <1>10. \E B, d : Inner(r[L], S, first, B, d)
    BY <1>1, <1>9, KeepEnds DEF L
  <1>11. SameNames(G, r[L])
    BY <1>9 DEF Keeping
  <1> QED
    BY <1>3, <1>5, <1>10, <1>11 DEF DroppedInner

-----------------------------------------------------------------------------
(* The edges of the other vertices of a set are taken.                       *)

Entry == [i : Nat, rev : Nat]
IsMap(map) == \A t \in DOMAIN map : map[t] \in Entry
\* The map after an edge to t: edge i of first leads there, and its other end is q.
IsNext(map, t, i, q, new) ==
    /\ IsMap(new) /\ DOMAIN new = DOMAIN map \cup {t}
    /\ new[t].i = i /\ new[t].rev = q
    /\ \A u \in DOMAIN map : u # t => new[u] = map[u]

\* The map gets an entry for the end t.
LEMMA NotedFacts ==
    ASSUME NEW map, IsMap(map), NEW t, NEW i \in Nat, NEW q \in Nat
    PROVE  IsNext(map, t, i, q, Noted(map, t, i, q))
  <1> DEFINE x == [i |-> i, rev |-> q]
             new == Noted(map, t, i, q)
  <1>1. x \in Entry /\ x.i = i /\ x.rev = q
    BY DEF Entry
  <1> HIDE DEF x
  <1>2. new = [u \in DOMAIN map \cup {t} |-> IF u = t THEN x ELSE map[u]]
    BY DEF Noted, x
  <1> HIDE DEF new
  <1>3. DOMAIN new = DOMAIN map \cup {t} /\ new[t] = x
        /\ \A u \in DOMAIN map : u # t => new[u] = map[u]
    BY <1>2
  <1>4. IsMap(new)
    BY <1>1, <1>3 DEF IsMap
  <1> QED
    BY <1>1, <1>3, <1>4 DEF IsNext, new

\* The map is told a new index of the other copy.
LEMMA MovedFacts ==
    ASSUME NEW map, IsMap(map), NEW t \in DOMAIN map, NEW q \in Nat
    PROVE  IsNext(map, t, map[t].i, q, [map EXCEPT ![t].rev = q])
  <1> DEFINE x == [map[t] EXCEPT !.rev = q]
             new == [map EXCEPT ![t] = x]
  <1>1. map[t] \in Entry
    BY DEF IsMap
  <1>2. x \in Entry /\ x.i = map[t].i /\ x.rev = q
    BY <1>1 DEF Entry
  <1> HIDE DEF x
  <1>3. DOMAIN new = DOMAIN map \cup {t} /\ new[t] = x
        /\ \A u \in DOMAIN map : u # t => new[u] = map[u]
    OBVIOUS
  <1>4. [map EXCEPT ![t].rev = q] = new
    BY DEF x
  <1> HIDE DEF new
  <1>5. IsMap(new)
    BY <1>2, <1>3 DEF IsMap
  <1> QED
    BY <1>2, <1>3, <1>4, <1>5, Zenon DEF IsNext

\* The map stays.
LEMMA SameNext ==
    ASSUME NEW map, IsMap(map), NEW t \in DOMAIN map
    PROVE  IsNext(map, t, map[t].i, map[t].rev, map)
  BY DEF IsNext

-----------------------------------------------------------------------------
\* J is the graph when the edges of first that stay in the set are dropped.  The first
\* p[u] edges of u are gone through.
Taking(J, st, S, first, p, A, c) ==
    /\ Live(st.g, A, c, S \ {first}, S \ {first}, 0) /\ SameNames(J, st.g)
    /\ \A u \in S \ {first} :
          /\ SameEnds(J, st.g, u)
          /\ A[u] = {j \in p[u] + 1 .. Len(J.vs[u]) : J.vs[u][j].to \notin S}
          /\ c[u] = Len(J.vs[u]) - p[u]
    /\ IsMap(st.map)
    /\ \A t : t \notin S => Knows(st.g, A, first, st.map, t)

IsState(st) == st = [g |-> st.g, map |-> st.map]
Within(J, S, first, v, i, p, q) ==
    /\ J \in Objects /\ S \subseteq 1 .. Len(J.vs) /\ first \in S
    /\ v \in S \ {first} /\ i \in 1 .. Len(J.vs[v]) /\ p[v] = i - 1 /\ q[v] = i
    /\ \A u \in S \ {first} : u # v => q[u] = p[u]

Counted(H) == Put(H, H.vs, H.deg, H.m - 1)
\* An edge within the set is no longer counted.
LEMMA TakeInner ==
    ASSUME NEW J, NEW S, NEW first, NEW v, NEW i, NEW p, NEW q, Within(J, S, first, v, i, p, q),
           NEW st, NEW A, NEW c, Taking(J, st, S, first, p, A, c), J.vs[v][i].to \in S,
           NEW new, new = [g |-> Counted(st.g), map |-> st.map]
    PROVE  \E d : Taking(J, new, S, first, q, A, d)
  <1> DEFINE H == st.g
             I == new.g
             n == Len(J.vs)
             rest == S \ {first}
             d == [c EXCEPT ![v] = c[v] - 1]
  <1>1. /\ J \in Objects /\ S \subseteq 1 .. n /\ first \in S /\ v \in rest /\ v \in 1 .. n
        /\ i \in 1 .. Len(J.vs[v]) /\ p[v] = i - 1 /\ q[v] = i
        /\ \A u \in rest : u # v => q[u] = p[u]
    BY DEF Within
  <1>2. /\ Live(H, A, c, rest, rest, 0) /\ SameNames(J, H) /\ IsMap(st.map)
        /\ \A t : t \notin S => Knows(H, A, first, st.map, t)
        /\ \A u \in rest : /\ SameEnds(J, H, u)
                           /\ A[u] = {j \in p[u] + 1 .. Len(J.vs[u]) : J.vs[u][j].to \notin S}
                           /\ c[u] = Len(J.vs[u]) - p[u]
    BY DEF Taking
  <1>3. n \in Nat /\ J.vs \in Adj /\ \A u \in 1 .. n : Len(J.vs[u]) \in Nat
    BY <1>1, ObjectFacts, RowFacts, Zenon
  <1>4. /\ H \in Objects /\ Paired(H.vs, A) /\ Len(H.deg) = Len(H.vs) /\ Len(H.vs) = n
        /\ c \in [1 .. n -> Int] /\ H.m = Sum(c, 1 .. n) + 0
        /\ \A u \in 1 .. n : u \notin rest => /\ A[u] = 1 .. Len(H.vs[u]) /\ c[u] = Len(H.vs[u])
                                              /\ H.deg[u] = RowSum(H.vs[u])
    BY <1>2 DEF Live, SameNames
  <1>5. IsPut(H, H.vs, H.deg, H.m - 1, Counted(H))
    <2>1. H.vs \in Adj /\ H.deg \in Seq(Int) /\ H.m - 1 \in Int
      BY <1>4, ObjectFacts
    <2> QED
      BY <1>4, <2>1, PutFacts DEF Counted
  <1>6. I = Counted(H) /\ new.map = st.map
    OBVIOUS
  <1>7. I \in Objects /\ I.vs = H.vs /\ I.deg = H.deg /\ I.m = H.m - 1 /\ SameNames(J, I)
    BY <1>2, <1>5, <1>6 DEF IsPut, SameNames
  <1>8. d \in [1 .. n -> Int] /\ d[v] = c[v] - 1 /\ \A u \in 1 .. n : u # v => d[u] = c[u]
    BY <1>1, <1>4
  <1> HIDE DEF d, n, H, I
  <1>9. Fewer(c, d, n, v)
    BY <1>1, <1>3, <1>4, <1>8, SumFewer, Zenon
  <1>10. I.m = Sum(d, 1 .. n) + 0
    <2>1. I.m \in Int
      BY <1>7, ObjectFacts
    <2>2. H.m \in Int
      BY <1>4, ObjectFacts
    <2>3. IsFiniteSet(1 .. n) /\ \A u \in 1 .. n : c[u] \in Int
      <3>1. IsFiniteSet(1 .. n)
        BY <1>3, FS_Interval
      <3> QED
        BY <1>4, <3>1
    <2>4. Sum(c, 1 .. n) \in Int
      BY <2>3, SumInt, Zenon
    <2> QED
      BY <1>4, <1>7, <1>9, <2>1, <2>2, <2>4 DEF Fewer
  <1>11. Live(I, A, d, rest, rest, 0)
    <2>1. \A u \in 1 .. n : u \notin rest => d[u] = Len(H.vs[u])
      BY <1>1, <1>4, <1>8, Zenon
    <2> QED
      BY <1>4, <1>7, <1>8, <1>10, <2>1 DEF Live
  <1>12. ASSUME NEW u \in rest
         PROVE  /\ SameEnds(J, I, u)
                /\ A[u] = {j \in q[u] + 1 .. Len(J.vs[u]) : J.vs[u][j].to \notin S}
                /\ d[u] = Len(J.vs[u]) - q[u]
    <2>1. SameEnds(J, I, u)
      BY <1>2, <1>7 DEF SameEnds
    <2>2. CASE u # v
      <3>1. q[u] = p[u] /\ d[u] = c[u]
        BY <1>1, <1>8, <2>2 DEF n
      <3> QED
        BY <1>2, <2>1, <3>1
    <2>3. CASE u = v
      <3>1. c[v] = Len(J.vs[v]) - (i - 1) /\ d[v] = Len(J.vs[v]) - i
        <4>1. c[v] = Len(J.vs[v]) - (i - 1)
          BY <1>1, <1>2
        <4>2. Len(J.vs[v]) \in Nat
          BY <1>1, <1>3
        <4> QED
          BY <1>1, <1>8, <4>1, <4>2
      <3>2. A[v] = {j \in i .. Len(J.vs[v]) : J.vs[v][j].to \notin S}
        <4>1. p[v] + 1 = i
          BY <1>1
        <4> QED
          BY <1>1, <1>2, <4>1, Zenon
      <3>3. {j \in i .. Len(J.vs[v]) : J.vs[v][j].to \notin S}
            = {j \in i + 1 .. Len(J.vs[v]) : J.vs[v][j].to \notin S}
        <4>1. \A j \in i .. Len(J.vs[v]) : j = i \/ j \in i + 1 .. Len(J.vs[v])
          BY <1>1
        <4>2. \A j \in i + 1 .. Len(J.vs[v]) : j \in i .. Len(J.vs[v])
          BY <1>1
        <4> QED
          BY <4>1, <4>2
      <3> QED
        BY <1>1, <2>1, <2>3, <3>1, <3>2, <3>3
    <2> QED
      BY <2>2, <2>3
  <1>13. \A t : t \notin S => Knows(I, A, first, st.map, t)
    BY <1>2, <1>7 DEF Knows
  <1>14. Taking(J, new, S, first, q, A, d)
    BY <1>2, <1>6, <1>7, <1>11, <1>12, <1>13 DEF Taking, I
  <1> QED
    BY <1>14

NextIndex(H, first, k) == IF k = 0 THEN Len(H.vs[first]) + 1 ELSE k
NextRev(H, f, k, r) == IF k = 0 \/ r = Len(H.vs[f.to]) THEN f.rev ELSE r
\* What the map says of the end of an edge that is taken.
LEMMA KnowsTaken ==
    ASSUME NEW H, NEW A, NEW first, NEW f, NEW k, NEW r, Finds(H, A, first, f, k, r),
           Len(H.vs[first]) \in Nat, A[first] \subseteq 1 .. Len(H.vs[first]),
           NEW I, NEW B, TookAny(H, A, first, f, k, r, I, B),
           NEW map, NEW new, IsNext(map, f.to, NextIndex(H, first, k), NextRev(H, f, k, r), new)
    PROVE  Knows(I, B, first, new, f.to)
  <1>1. f.to \in DOMAIN new /\ new[f.to].i = NextIndex(H, first, k)
        /\ new[f.to].rev = NextRev(H, f, k, r)
    BY DEF IsNext
  <1>2. CASE k = 0
    <2>1. /\ I.vs[first][Len(H.vs[first]) + 1].to = f.to
          /\ I.vs[first][Len(H.vs[first]) + 1].rev = f.rev
          /\ Len(H.vs[first]) + 1 \in B[first]
      BY <1>2 DEF TookAny, TookNew
    <2> QED
      BY <1>1, <1>2, <2>1 DEF Knows, NextIndex, NextRev
  <1>3. CASE k # 0
    <2>1. k \in A[first] /\ H.vs[first][k].to = f.to /\ r = H.vs[first][k].rev
      BY <1>3 DEF Finds
    <2>2. /\ I.vs[first][k].to = H.vs[first][k].to /\ B[first] = A[first]
          /\ I.vs[first][k].rev = IF r = Len(H.vs[f.to]) THEN f.rev ELSE r
      BY <1>3, <2>1 DEF TookAny, TookKnown
    <2>3. NextIndex(H, first, k) = k
          /\ NextRev(H, f, k, r) = IF r = Len(H.vs[f.to]) THEN f.rev ELSE r
      BY <1>3 DEF NextIndex, NextRev
    <2> QED
      BY <1>1, <2>1, <2>2, <2>3 DEF Knows
  <1> QED
    BY <1>2, <1>3

\* The entry of another end stays right.
LEMMA KnowsOther ==
    ASSUME NEW I, NEW B, NEW v, NEW map, NEW t, Knows(I, B, v, map, t),
           NEW s, s # t, NEW i, NEW q, NEW new, IsNext(map, s, i, q, new)
    PROVE  Knows(I, B, v, new, t)
  BY DEF Knows, IsNext

\* An edge that leaves the set is taken.
LEMMA TakeOuter ==
    ASSUME NEW J, NEW S, NEW first, NEW v, NEW i, NEW p, NEW q, Within(J, S, first, v, i, p, q),
           NEW st, NEW A, NEW c, Taking(J, st, S, first, p, A, c),
           NEW f, f = st.g.vs[v][i], J.vs[v][i].to \notin S,
           NEW k, NEW r, Finds(st.g, A, first, f, k, r),
           NEW new, new.g = TakeEdge(st.g, first, f, k, r),
           IsNext(st.map, f.to, NextIndex(st.g, first, k), NextRev(st.g, f, k, r), new.map)
    PROVE  \E B, d : Taking(J, new, S, first, q, B, d)
  <1> DEFINE H == st.g
             I == new.g
             n == Len(J.vs)
             rest == S \ {first}
             t == f.to
  <1>1. /\ J \in Objects /\ S \subseteq 1 .. n /\ first \in S /\ v \in rest /\ v \in 1 .. n
        /\ first \in 1 .. n /\ v # first
        /\ i \in 1 .. Len(J.vs[v]) /\ p[v] = i - 1 /\ q[v] = i
        /\ \A u \in rest : u # v => q[u] = p[u]
    BY DEF Within
  <1>2. /\ Live(H, A, c, rest, rest, 0) /\ SameNames(J, H) /\ IsMap(st.map)
        /\ \A s : s \notin S => Knows(H, A, first, st.map, s)
        /\ \A u \in rest : /\ SameEnds(J, H, u)
                           /\ A[u] = {j \in p[u] + 1 .. Len(J.vs[u]) : J.vs[u][j].to \notin S}
                           /\ c[u] = Len(J.vs[u]) - p[u]
    BY DEF Taking
  <1>3. n \in Nat /\ J.vs \in Adj /\ \A u \in 1 .. n : Len(J.vs[u]) \in Nat
    BY <1>1, ObjectFacts, RowFacts
  <1>4. /\ H \in Objects /\ Paired(H.vs, A) /\ Len(H.vs) = n /\ H.vs \in Adj
        /\ A[first] = 1 .. Len(H.vs[first])
    BY <1>1, <1>2, ObjectFacts DEF Live, SameNames
  <1>5. Len(H.vs[first]) \in Nat /\ A[first] \subseteq 1 .. Len(H.vs[first])
    BY <1>1, <1>4, RowFacts
  <1>6. f.to \notin S
    BY <1>1, <1>2, Zenon DEF SameEnds
  <1>7. i \in A[v]
    <2>1. i \in p[v] + 1 .. Len(J.vs[v])
      BY <1>1, <1>3
    <2> QED
      BY <1>1, <1>2, <2>1, Zenon
  <1> HIDE DEF n, H, I
  <1>8. PICK B, d : /\ Live(I, B, d, rest, rest, 0) /\ Took(H, A, c, first, v, i, t, I, B, d)
                    /\ TookAny(H, A, first, f, k, r, I, B)
    <2>1. 0 \in Int /\ first \in 1 .. Len(H.vs) /\ first \notin rest /\ v \in rest /\ v \in 1 .. Len(H.vs)
      BY <1>1, <1>4
    <2>2. f = H.vs[v][i] /\ f.to \notin rest /\ f.to # first
      BY <1>1, <1>6 DEF H
    <2>3. Finds(H, A, first, f, k, r) /\ I = TakeEdge(H, first, f, k, r)
      BY DEF H, I
    <2> HIDE DEF rest, t
    <2>4. \E B, d : /\ Live(I, B, d, rest, rest, 0) /\ Took(H, A, c, first, v, i, f.to, I, B, d)
                    /\ TookAny(H, A, first, f, k, r, I, B)
      BY <1>2, <1>7, <2>1, <2>2, <2>3, TakeStep, Zenon
    <2> QED
      BY <2>4 DEF t
  <1>9. /\ SameNames(H, I)
        /\ \A u \in 1 .. n : u # first /\ u # t =>
              /\ Len(I.vs[u]) = Len(H.vs[u])
              /\ \A j \in 1 .. Len(H.vs[u]) : I.vs[u][j].to = H.vs[u][j].to
        /\ \A u \in 1 .. n : u # first /\ u # t /\ u # v => B[u] = A[u] /\ d[u] = c[u]
        /\ B[v] = A[v] \ {i} /\ d[v] = c[v] - 1
    BY <1>4, <1>8 DEF Took
  <1>10. ASSUME NEW u \in rest
         PROVE  /\ SameEnds(J, I, u)
                /\ B[u] = {j \in q[u] + 1 .. Len(J.vs[u]) : J.vs[u][j].to \notin S}
                /\ d[u] = Len(J.vs[u]) - q[u]
    <2>1. u \in 1 .. n /\ u # first /\ u # t
      BY <1>1, <1>6
    <2>2. SameEnds(J, I, u)
      <3>1. SameEnds(J, H, u)
        BY <1>2
      <3>2. SameEnds(H, I, u)
        BY <1>9, <2>1 DEF SameEnds
      <3> QED
        BY <3>1, <3>2 DEF SameEnds
    <2>3. CASE u # v
      <3>1. q[u] = p[u] /\ d[u] = c[u] /\ B[u] = A[u]
        BY <1>1, <1>9, <2>1, <2>3
      <3> QED
        BY <1>2, <2>2, <3>1
    <2>4. CASE u = v
      <3>1. d[v] = Len(J.vs[v]) - i
        <4>1. c[v] = Len(J.vs[v]) - (i - 1)
          BY <1>1, <1>2
        <4>2. Len(J.vs[v]) \in Nat
          BY <1>1, <1>3
        <4> QED
          BY <1>1, <1>9, <4>1, <4>2
      <3>2. A[v] = {j \in i .. Len(J.vs[v]) : J.vs[v][j].to \notin S}
        <4>1. p[v] + 1 = i
          BY <1>1
        <4> QED
          BY <1>1, <1>2, <4>1
      <3>3. {j \in i .. Len(J.vs[v]) : J.vs[v][j].to \notin S} \ {i}
            = {j \in i + 1 .. Len(J.vs[v]) : J.vs[v][j].to \notin S}
        <4>1. \A j \in i .. Len(J.vs[v]) : j = i \/ j \in i + 1 .. Len(J.vs[v])
          BY <1>1
        <4>2. \A j \in i + 1 .. Len(J.vs[v]) : j \in i .. Len(J.vs[v]) /\ j # i
          BY <1>1
        <4> QED
          BY <4>1, <4>2
      <3>4. B[v] = {j \in i + 1 .. Len(J.vs[v]) : J.vs[v][j].to \notin S}
        BY <1>9, <3>2, <3>3
      <3> QED
        BY <1>1, <2>2, <2>4, <3>1, <3>4
    <2> QED
      BY <2>3, <2>4
  <1>11. ASSUME NEW s, s \notin S PROVE Knows(I, B, first, new.map, s)
    <2>1. Finds(H, A, first, f, k, r)
          /\ IsNext(st.map, f.to, NextIndex(H, first, k), NextRev(H, f, k, r), new.map)
      BY DEF H
    <2>2. CASE s = f.to
      <3>1. Knows(I, B, first, new.map, f.to)
        BY <1>5, <1>8, <2>1, KnowsTaken, Zenon
      <3> QED
        BY <2>2, <3>1
    <2>3. CASE s # f.to
      <3>1. Knows(H, A, first, st.map, s)
        BY <1>2, <1>11
      <3>2. Knows(I, B, first, st.map, s)
        BY <1>5, <1>8, <2>1, <2>3, <3>1, KnowsKept
      <3> QED
        BY <2>1, <2>3, <3>2, KnowsOther
    <2> QED
      BY <2>2, <2>3
  <1>12. SameNames(J, I) /\ IsMap(new.map)
    BY <1>2, <1>9, Zenon DEF SameNames, IsNext
  <1>13. Taking(J, new, S, first, q, B, d)
    BY <1>8, <1>10, <1>11, <1>12 DEF Taking, I
  <1> QED
    BY <1>13

Taken(J, st, S, first, p) == IsState(st) /\ \E A, c : Taking(J, st, S, first, p, A, c)

\* One edge less is counted, written field by field.
LEMMA CountedIs ==
    ASSUME NEW st, IsState(st), st.g \in Objects
    PROVE  [st EXCEPT !.g.m = @ - 1] = [g |-> Counted(st.g), map |-> st.map]
  <1> DEFINE H == st.g
             map == st.map
  <1>1. st = [g |-> H, map |-> map]
    BY DEF IsState
  <1>2. [H EXCEPT !.m = H.m - 1] = Counted(H)
    BY Zenon DEF Counted, Put, Objects
  <1> HIDE DEF H, map
  <1>3. [st EXCEPT !.g.m = @ - 1] = [g |-> [H EXCEPT !.m = H.m - 1], map |-> map]
    BY <1>1
  <1> QED
    BY <1>2, <1>3 DEF H, map

\* One edge of one vertex of the set is taken.
LEMMA FromSetStep ==
    ASSUME NEW J, NEW S, NEW first, NEW v, NEW i, NEW p, NEW q, Within(J, S, first, v, i, p, q),
           NEW st, Taken(J, st, S, first, p), NEW new, new = FromSetPass(st, first, S, v, i)
    PROVE  Taken(J, new, S, first, q)
  <1> DEFINE e == st.g.vs[v][i]
             H == st.g
             t == e.to
             known == st.map[t]
  <1>1. PICK A, c : Taking(J, st, S, first, p, A, c)
    BY DEF Taken
  <1>2. IsState(st) /\ H \in Objects /\ IsMap(st.map)
    BY <1>1 DEF Taken, Taking, Live
  <1>3. new = TakeFromSet(st, first, S, e)
    BY DEF FromSetPass
  <1>4. /\ v \in 1 .. Len(H.vs) /\ i \in 1 .. Len(H.vs[v]) /\ t = J.vs[v][i].to /\ H.vs \in Adj
        /\ first \in 1 .. Len(H.vs) /\ first \notin S \ {first}
    BY <1>1, <1>2, ObjectFacts DEF Within, Taking, SameEnds, SameNames
  <1>5. e \in Edge /\ e.rev \in Nat /\ Len(H.vs[first]) \in Nat
    BY <1>4, RowFacts, Zenon DEF Edge
  <1>6. A[first] \subseteq 1 .. Len(H.vs[first])
    <2>1. Paired(H.vs, A)
      BY <1>1 DEF Taking, Live
    <2> QED
      BY <1>4, <2>1 DEF Paired
  <1>7. t \notin S => Knows(H, A, first, st.map, t)
    BY <1>1 DEF Taking
  <1>8. CASE t \in S
    <2>1. new = [st EXCEPT !.g.m = @ - 1]
      BY <1>3, <1>8 DEF TakeFromSet
    <2>2. new = [g |-> Counted(st.g), map |-> st.map]
      BY <1>2, <2>1, CountedIs
    <2>3. J.vs[v][i].to \in S
      BY <1>4, <1>8
    <2>4. \E d : Taking(J, new, S, first, q, A, d)
      BY <1>1, <2>2, <2>3, TakeInner
    <2>5. IsState(new)
      BY <2>2 DEF IsState
    <2> QED
      BY <2>4, <2>5 DEF Taken
  <1>9. CASE t \notin S /\ t \in DOMAIN st.map
    <2> DEFINE map == IF known.rev = Len(H.vs[t]) THEN [st.map EXCEPT ![t].rev = e.rev] ELSE st.map
    <2>1. new = [g |-> TakeEdge(H, first, e, known.i, known.rev), map |-> map]
      BY <1>3, <1>9, Zenon DEF TakeFromSet
    <2>2. /\ known.i \in A[first] /\ H.vs[first][known.i].to = t
          /\ known.rev = H.vs[first][known.i].rev
      BY <1>7, <1>9, Zenon DEF Knows
    <2>3. known.i # 0
      <3>1. known.i \in 1 .. Len(H.vs[first])
        BY <1>6, <2>2, Zenon
      <3> HIDE DEF known, H
      <3> QED
        BY <1>5, <3>1
    <2> HIDE DEF e, H, known
    <2>4. Finds(H, A, first, e, known.i, known.rev)
      BY <2>2, <2>3 DEF Finds
    <2>5. IsNext(st.map, t, NextIndex(H, first, known.i), NextRev(H, e, known.i, known.rev), map)
      <3>1. NextIndex(H, first, known.i) = known.i
        BY <2>3 DEF NextIndex
      <3>2. CASE known.rev = Len(H.vs[t])
        <4>1. NextRev(H, e, known.i, known.rev) = e.rev /\ map = [st.map EXCEPT ![t].rev = e.rev]
          BY <2>3, <3>2 DEF NextRev
        <4>2. IsNext(st.map, t, st.map[t].i, e.rev, [st.map EXCEPT ![t].rev = e.rev])
          BY <1>2, <1>5, <1>9, MovedFacts
        <4> QED
          BY <3>1, <4>1, <4>2 DEF known
      <3>3. CASE known.rev # Len(H.vs[t])
        <4>1. NextRev(H, e, known.i, known.rev) = known.rev /\ map = st.map
          BY <2>3, <3>3 DEF NextRev
        <4>2. IsNext(st.map, t, st.map[t].i, st.map[t].rev, st.map)
          BY <1>2, <1>9, SameNext
        <4> QED
          BY <3>1, <4>1, <4>2 DEF known
      <3> QED
        BY <3>2, <3>3
    <2> HIDE DEF map
    <2>6. new.g = TakeEdge(H, first, e, known.i, known.rev) /\ new.map = map
      BY <2>1
    <2>7. J.vs[v][i].to \notin S
      BY <1>4, <1>9
    <2>8. \E B, d : Taking(J, new, S, first, q, B, d)
      BY <1>1, <2>4, <2>5, <2>6, <2>7, TakeOuter, Zenon DEF H, e
    <2>9. IsState(new)
      BY <2>1, <2>6 DEF IsState
    <2> QED
      BY <2>8, <2>9 DEF Taken
  <1>10. CASE t \notin S /\ t \notin DOMAIN st.map
    <2> DEFINE map == Noted(st.map, t, Len(H.vs[first]) + 1, e.rev)
    <2>1. new = [g |-> TakeEdge(H, first, e, 0, 0), map |-> map]
      BY <1>3, <1>10, Zenon DEF TakeFromSet
    <2> HIDE DEF map, e, H
    <2>2. Finds(H, A, first, e, 0, 0)
      BY <1>7, <1>10 DEF Finds, Knows
    <2>3. Len(H.vs[first]) + 1 \in Nat
      BY <1>5
    <2>4. IsNext(st.map, t, NextIndex(H, first, 0), NextRev(H, e, 0, 0), map)
      <3>1. NextIndex(H, first, 0) = Len(H.vs[first]) + 1 /\ NextRev(H, e, 0, 0) = e.rev
        BY DEF NextIndex, NextRev
      <3>2. IsNext(st.map, t, Len(H.vs[first]) + 1, e.rev, map)
        BY <1>2, <1>5, <2>3, NotedFacts DEF map
      <3> QED
        BY <3>1, <3>2
    <2>5. new.g = TakeEdge(H, first, e, 0, 0) /\ new.map = map
      BY <2>1
    <2>6. J.vs[v][i].to \notin S
      BY <1>4, <1>10
    <2>7. \E B, d : Taking(J, new, S, first, q, B, d)
      BY <1>1, <2>2, <2>4, <2>5, <2>6, TakeOuter, Zenon DEF H, e
    <2>8. IsState(new)
      BY <2>1, <2>5 DEF IsState
    <2> QED
      BY <2>7, <2>8 DEF Taken
  <1> QED
    BY <1>8, <1>9, <1>10

-----------------------------------------------------------------------------
FromSetRun(first, S, v, base, n, r) ==
    /\ r[0] = base /\ \A i \in 1 .. n : r[i] = FromSetPass(r[i - 1], first, S, v, i)
    /\ FromSetLoop(first, S, v, base, Indices(n)) = r[n]

\* The run of the loop over the edges of one vertex of the set.
LEMMA FromSetLoopRuns ==
    ASSUME NEW first, NEW S, NEW v, NEW base, NEW n \in Nat
    PROVE  \E r : FromSetRun(first, S, v, base, n, r)
  <1>1. DOMAIN Indices(n) = 1 .. n /\ Len(Indices(n)) = n /\ \A i \in 1 .. n : Indices(n)[i] = i
    BY IndicesFacts
  <1>2. \E r : /\ IsRun(r, "FromSet", <<first, S, v>>, base, Indices(n))
               /\ FromSetLoop(first, S, v, base, Indices(n)) = r[n]
    BY <1>1, FromSetRuns
  <1> QED
    BY <1>1, <1>2 DEF IsRun, Pass, FromSetRun

\* All edges of v are gone through.
Passed(J, S, first, v, p, q) ==
    /\ J \in Objects /\ S \subseteq 1 .. Len(J.vs) /\ first \in S /\ v \in S \ {first}
    /\ p[v] = 0 /\ q[v] = Len(J.vs[v]) /\ \A u \in S \ {first} : u # v => q[u] = p[u]

UpToEdge(S, first, v, p, j) == [u \in S \ {first} |-> IF u = v THEN j ELSE p[u]]
\* What is not asked of the progress does not matter.
LEMMA TakenSame ==
    ASSUME NEW J, NEW st, NEW S, NEW first, NEW p, Taken(J, st, S, first, p),
           NEW q, \A u \in S \ {first} : q[u] = p[u]
    PROVE  Taken(J, st, S, first, q)
  BY DEF Taken, Taking

\* All edges of one vertex of the set are taken.
LEMMA SetStep ==
    ASSUME NEW J, NEW S, NEW first, NEW v, NEW p, NEW q, Passed(J, S, first, v, p, q),
           NEW st, Taken(J, st, S, first, p), NEW new, new = SetPass(st, first, S, v)
    PROVE  Taken(J, new, S, first, q)
  <1> DEFINE L == Len(J.vs[v])
             P(j) == UpToEdge(S, first, v, p, j)
             rest == S \ {first}
  <1>1. /\ J \in Objects /\ S \subseteq 1 .. Len(J.vs) /\ first \in S /\ v \in rest
        /\ v \in 1 .. Len(J.vs) /\ p[v] = 0 /\ q[v] = L /\ \A u \in rest : u # v => q[u] = p[u]
    BY DEF Passed
  <1>2. L \in Nat
    BY <1>1, ObjectFacts, RowFacts
  <1>3. st.g.vs[v] \in Row /\ Len(st.g.vs[v]) = L
    <2>1. PICK A, c : Taking(J, st, S, first, p, A, c)
      BY DEF Taken
    <2>2. st.g \in Objects /\ Len(st.g.vs) = Len(J.vs) /\ SameEnds(J, st.g, v)
      BY <1>1, <2>1 DEF Taking, Live, SameNames
    <2>3. st.g.vs \in Adj
      BY <2>2, ObjectFacts
    <2> QED
      BY <1>1, <2>2, <2>3, RowFacts DEF SameEnds
  <1>4. new = FromSetLoop(first, S, v, st, Indices(L))
    <2>1. [i \in DOMAIN st.g.vs[v] |-> i] = Indices(L)
      BY <1>3, IndicesAre
    <2> QED
      BY <2>1, Zenon DEF SetPass, FoldLeftDomain, FromSetLoop, FromSetPass
  <1> HIDE DEF L
  <1>5. PICK r : FromSetRun(first, S, v, st, L, r)
    BY <1>2, FromSetLoopRuns
  <1>6. /\ r[0] = st /\ \A i \in 1 .. L : r[i] = FromSetPass(r[i - 1], first, S, v, i)
        /\ new = r[L]
    BY <1>4, <1>5 DEF FromSetRun
  <1>7. \A j : P(j)[v] = j /\ \A u \in rest : u # v => P(j)[u] = p[u]
    BY <1>1 DEF UpToEdge
  <1> HIDE DEF P, rest
  <1> DEFINE T == {j \in 0 .. L : Taken(J, r[j], S, first, P(j))}
  <1>8. 0 \in T
    <2>1. \A u \in rest : P(0)[u] = p[u]
      BY <1>1, <1>7
    <2>2. Taken(J, st, S, first, P(0))
      BY <2>1, TakenSame DEF rest
    <2> QED
      BY <1>2, <1>6, <2>2
  <1>9. ASSUME NEW j \in 1 .. L, j - 1 \in T PROVE j \in T
    <2>1. Taken(J, r[j - 1], S, first, P(j - 1))
      BY <1>9
    <2>2. Within(J, S, first, v, j, P(j - 1), P(j))
      <3>1. j \in 1 .. Len(J.vs[v])
        BY DEF L
      <3>2. P(j - 1)[v] = j - 1 /\ P(j)[v] = j /\ \A u \in rest : u # v => P(j)[u] = P(j - 1)[u]
        BY <1>7
      <3> QED
        BY <1>1, <3>1, <3>2 DEF Within, rest
    <2>3. r[j] = FromSetPass(r[j - 1], first, S, v, j)
      BY <1>6
    <2>4. Taken(J, r[j], S, first, P(j))
      BY <2>1, <2>2, <2>3, FromSetStep
    <2> QED
      BY <2>4
  <1> HIDE DEF T
  <1>10. L \in T
    <2>1. \A j \in 0 .. L : j \in T
      BY <1>2, <1>8, <1>9, UpTo
    <2> QED
      BY <1>2, <2>1
  <1>11. Taken(J, new, S, first, P(L))
    BY <1>6, <1>10 DEF T
  <1>12. \A u \in rest : q[u] = P(L)[u]
    BY <1>1, <1>7
  <1> QED
    BY <1>11, <1>12, TakenSame DEF rest

-----------------------------------------------------------------------------
\* order lists the members of rest, each once.
Enumerates(order, rest, m) ==
    /\ m \in Nat /\ DOMAIN order = 1 .. m /\ Len(order) = m
    /\ \A k \in 1 .. m : order[k] \in rest
    /\ \A u \in rest : \E k \in 1 .. m : order[k] = u
    /\ \A j, k \in 1 .. m : order[j] = order[k] => j = k

\* Any order of the other vertices of the set lists each once.
LEMMA SeqsEnumerate ==
    ASSUME NEW rest, IsFiniteSet(rest), NEW order \in SetToSeqs(rest)
    PROVE  Enumerates(order, rest, Cardinality(rest))
  <1> DEFINE m == Cardinality(rest)
  <1>1. m \in Nat
    BY FS_CardinalityType
  <1>2. order \in [1 .. m -> rest] /\ \A i, j \in 1 .. m : i # j => order[i] # order[j]
    BY DEF SetToSeqs
  <1> HIDE DEF m
  <1>3. order \in Injection(1 .. m, rest)
    BY <1>2 DEF Injection, IsInjective
  <1>4. IsFiniteSet(1 .. m) /\ Cardinality(1 .. m) = m
    BY <1>1, FS_Interval
  <1>5. order \in Surjection(1 .. m, rest)
    BY <1>3, <1>4, FS_Injection DEF m
  <1>6. \A u \in rest : \E k \in 1 .. m : order[k] = u
    BY <1>5 DEF Surjection
  <1>7. Len(order) = m /\ DOMAIN order = 1 .. m
    BY <1>1, <1>2
  <1>8. Enumerates(order, rest, m)
    BY <1>1, <1>2, <1>6, <1>7 DEF Enumerates
  <1> QED
    BY <1>8 DEF m

\* The order of one vertex.
LEMMA OneEnumerates ==
    ASSUME NEW v
    PROVE  Enumerates(<<v>>, {v}, 1)
  BY DEF Enumerates

SetRun(first, S, base, order, m, r) ==
    /\ r[0] = base /\ \A i \in 1 .. m : r[i] = SetPass(r[i - 1], first, S, order[i])
    /\ SetLoop(first, S, base, order) = r[m]

\* The run of the loop over the vertices of the set.
LEMMA SetLoopRuns ==
    ASSUME NEW first, NEW S, NEW base, NEW order, NEW rest, NEW m, Enumerates(order, rest, m)
    PROVE  \E r : SetRun(first, S, base, order, m, r)
  <1>1. m \in Nat /\ DOMAIN order = 1 .. m /\ Len(order) = m
    BY DEF Enumerates
  <1>2. \E r : /\ IsRun(r, "Set", <<first, S>>, base, order)
               /\ SetLoop(first, S, base, order) = r[m]
    BY <1>1, SetRuns
  <1> QED
    BY <1>1, <1>2 DEF IsRun, Pass, SetRun

\* The first j vertices of order are gone through.
Progress(J, rest, order, j) ==
    [u \in rest |-> IF \E k \in 1 .. j : order[k] = u THEN Len(J.vs[u]) ELSE 0]

\* What is gone through after j vertices of the order, and after one more.
LEMMA ProgressPasses ==
    ASSUME NEW J \in Objects, NEW S, S \subseteq 1 .. Len(J.vs), NEW first \in S,
           NEW rest, rest = S \ {first},
           NEW order, NEW m, Enumerates(order, rest, m), NEW j \in 1 .. m
    PROVE  Passed(J, S, first, order[j], Progress(J, rest, order, j - 1), Progress(J, rest, order, j))
  <1> DEFINE v == order[j]
             P(i) == Progress(J, rest, order, i)
  <1>1. m \in Nat /\ v \in rest /\ \A i, k \in 1 .. m : order[i] = order[k] => i = k
    BY DEF Enumerates
  <1>2. ~ \E k \in 1 .. j - 1 : order[k] = v
    BY <1>1
  <1>3. \E k \in 1 .. j : order[k] = v
    BY <1>1
  <1>4. \A u \in rest : u # v => ((\E k \in 1 .. j - 1 : order[k] = u) <=> \E k \in 1 .. j : order[k] = u)
    <2> SUFFICES ASSUME NEW u \in rest, u # v, NEW k \in 1 .. j, order[k] = u
                 PROVE  k \in 1 .. j - 1
      BY <1>1
    <2>1. k # j
      OBVIOUS
    <2> QED
      BY <1>1, <2>1
  <1>5. P(j - 1)[v] = 0 /\ P(j)[v] = Len(J.vs[v])
    BY <1>1, <1>2, <1>3 DEF Progress
  <1>6. \A u \in rest : u # v => P(j)[u] = P(j - 1)[u]
    BY <1>4 DEF Progress
  <1> HIDE DEF P, v
  <1>7. Passed(J, S, first, v, P(j - 1), P(j))
    BY <1>1, <1>5, <1>6 DEF Passed
  <1> QED
    BY <1>7 DEF P, v

-----------------------------------------------------------------------------
\* The map of the first vertex when its edges into the set are dropped.
LEMMA IndexIsMap ==
    ASSUME NEW s \in Row, NEW I \in SUBSET (1 .. Len(s)), NEW map, map = IndexEdges(s, I)
    PROVE  IsMap(map) /\ \A t : Indexed(s, I, map, t)
  <1>1. Len(s) \in Nat
    BY LenProperties DEF Row
  <1>2. \A t : Indexed(s, I, map, t)
    BY <1>1, IndexEdgesFacts, Zenon
  <1>3. ASSUME NEW t \in DOMAIN map PROVE map[t] \in Entry
    <2> DEFINE i == Min({j \in I : s[j].to = t})
    <2>1. map[t] = [i |-> i, rev |-> s[i].rev]
      BY <1>3 DEF IndexEdges
    <2> HIDE DEF i
    <2>2. map[t].i = i
      BY <2>1
    <2>3. i \in I
      BY <1>2, <1>3, <2>2 DEF Indexed
    <2>4. i \in 1 .. Len(s)
      BY <2>3
    <2>5. s[i] \in Edge
      BY <1>1, <2>4, ElementOfSeq DEF Row
    <2>6. i \in Nat /\ s[i].rev \in Nat
      BY <2>4, <2>5 DEF Edge
    <2> QED
      BY <2>1, <2>6 DEF Entry
  <1> QED
    BY <1>2, <1>3 DEF IsMap

\* The map is right when the loop starts.
LEMMA TakingStarts ==
    ASSUME NEW J, NEW S, S \subseteq 1 .. Len(J.vs), NEW first \in S, NEW A, NEW c,
           Inner(J, S, first, A, c), NEW map,
           map = IndexEdges(J.vs[first], DOMAIN J.vs[first]),
           NEW p, \A u \in S \ {first} : p[u] = 0
    PROVE  Taken(J, [g |-> J, map |-> map], S, first, p)
  <1> DEFINE st == [g |-> J, map |-> map]
             rest == S \ {first}
  <1>1. st.g = J /\ st.map = map /\ IsState(st)
    BY DEF IsState
  <1> HIDE DEF st
  <1>2. Live(J, A, c, rest, rest, 0)
    BY DEF Inner
  <1>3. J \in Objects /\ J.vs \in Adj /\ Paired(J.vs, A) /\ A[first] = 1 .. Len(J.vs[first])
    BY <1>2, ObjectFacts DEF Live
  <1>4. J.vs[first] \in Row /\ DOMAIN J.vs[first] = 1 .. Len(J.vs[first])
    BY <1>3, RowFacts
  <1>5. IsMap(map) /\ \A t : Indexed(J.vs[first], 1 .. Len(J.vs[first]), map, t)
    BY <1>4, IndexIsMap
  <1>6. \A t : Knows(J, A, first, map, t)
    BY <1>3, <1>5 DEF Knows, Indexed
  <1>7. ASSUME NEW u \in rest
        PROVE  /\ SameEnds(J, J, u)
               /\ A[u] = {j \in p[u] + 1 .. Len(J.vs[u]) : J.vs[u][j].to \notin S}
               /\ c[u] = Len(J.vs[u]) - p[u]
    <2>1. A[u] = {j \in 1 .. Len(J.vs[u]) : J.vs[u][j].to \notin S} /\ c[u] = Len(J.vs[u])
      BY <1>7 DEF Inner
    <2>2. Len(J.vs[u]) \in Nat /\ p[u] = 0 /\ p[u] + 1 = 1
      BY <1>3, <1>7, RowFacts
    <2> QED
      BY <2>1, <2>2 DEF SameEnds
  <1>8. SameNames(J, J)
    BY DEF SameNames
  <1>9. Taking(J, st, S, first, p, A, c)
    BY <1>1, <1>2, <1>5, <1>6, <1>7, <1>8 DEF Taking, rest
  <1>10. Taken(J, st, S, first, p)
    BY <1>1, <1>9 DEF Taken
  <1> QED
    BY <1>10 DEF st

\* The edges of the other vertices are gone.
Drained(J, H, rest) ==
    \E A, c : /\ Live(H, A, c, rest, rest, 0) /\ SameNames(J, H)
              /\ \A u \in rest : A[u] = {} /\ c[u] = 0

\* When all is gone through, no edge of the other vertices counts.
LEMMA TakenDrains ==
    ASSUME NEW J \in Objects, NEW st, NEW S, S \subseteq 1 .. Len(J.vs), NEW first \in S, NEW p,
           Taken(J, st, S, first, p), \A u \in S \ {first} : p[u] = Len(J.vs[u])
    PROVE  Drained(J, st.g, S \ {first})
  <1> DEFINE rest == S \ {first}
  <1>1. PICK A, c : Taking(J, st, S, first, p, A, c)
    BY DEF Taken
  <1>2. ASSUME NEW u \in rest PROVE A[u] = {} /\ c[u] = 0
    <2>1. /\ A[u] = {j \in p[u] + 1 .. Len(J.vs[u]) : J.vs[u][j].to \notin S}
          /\ c[u] = Len(J.vs[u]) - p[u]
      BY <1>1, <1>2 DEF Taking
    <2>2. p[u] = Len(J.vs[u]) /\ Len(J.vs[u]) \in Nat
      BY <1>2, ObjectFacts, RowFacts
    <2> QED
      BY <2>1, <2>2
  <1>3. Live(st.g, A, c, rest, rest, 0) /\ SameNames(J, st.g)
    BY <1>1 DEF Taking
  <1> HIDE DEF rest
  <1>4. Drained(J, st.g, rest)
    BY <1>2, <1>3 DEF Drained
  <1> QED
    BY <1>4 DEF rest

\* In any order, the loop takes every edge that leaves the set to first.
LEMMA SetDrains ==
    ASSUME NEW J, NEW S, S \subseteq 1 .. Len(J.vs), NEW first \in S, NEW A, NEW c,
           Inner(J, S, first, A, c), NEW map,
           map = IndexEdges(J.vs[first], DOMAIN J.vs[first]),
           NEW order, NEW m, Enumerates(order, S \ {first}, m)
    PROVE  Drained(J, SetLoop(first, S, [g |-> J, map |-> map], order).g, S \ {first})
  <1> DEFINE rest == S \ {first}
             base == [g |-> J, map |-> map]
             P(j) == Progress(J, rest, order, j)
  <1>1. PICK r : SetRun(first, S, base, order, m, r)
    BY SetLoopRuns
  <1>2. /\ r[0] = base /\ \A i \in 1 .. m : r[i] = SetPass(r[i - 1], first, S, order[i])
        /\ SetLoop(first, S, base, order) = r[m]
    BY <1>1 DEF SetRun
  <1>3. m \in Nat /\ J \in Objects
    BY DEF Enumerates, Inner, Live
  <1>4. \A u \in rest : P(0)[u] = 0
    BY DEF Progress
  <1>5. \A u \in rest : P(m)[u] = Len(J.vs[u])
    BY DEF Progress, Enumerates
  <1>6. Taken(J, base, S, first, P(0))
    BY <1>4, TakingStarts, Zenon DEF rest, base
  <1>7. \A j \in 1 .. m : Passed(J, S, first, order[j], P(j - 1), P(j))
    BY <1>3, ProgressPasses
  <1> HIDE DEF P, base, rest
  <1> DEFINE T == {j \in 0 .. m : Taken(J, r[j], S, first, P(j))}
  <1>8. 0 \in T
    BY <1>2, <1>3, <1>6
  <1>9. ASSUME NEW j \in 1 .. m, j - 1 \in T PROVE j \in T
    <2>1. Taken(J, r[j - 1], S, first, P(j - 1))
      BY <1>9
    <2>2. r[j] = SetPass(r[j - 1], first, S, order[j])
      BY <1>2
    <2>3. Passed(J, S, first, order[j], P(j - 1), P(j))
      BY <1>7
    <2>4. Taken(J, r[j], S, first, P(j))
      BY <2>1, <2>2, <2>3, SetStep
    <2> QED
      BY <2>4
  <1> HIDE DEF T
  <1>10. \A j \in 0 .. m : j \in T
    BY <1>3, <1>8, <1>9, UpTo, Zenon
  <1>11. m \in T
    BY <1>3, <1>10
  <1>12. Taken(J, r[m], S, first, P(m))
    BY <1>11 DEF T
  <1>13. \A u \in S \ {first} : P(m)[u] = Len(J.vs[u])
    BY <1>5 DEF rest
  <1>14. Drained(J, r[m].g, S \ {first})
    BY <1>3, <1>12, <1>13, TakenDrains, Zenon
  <1> QED
    BY <1>2, <1>14 DEF base

-----------------------------------------------------------------------------
(* The other vertices of the set are removed, from the last one on.          *)

UpTo2(rest, k) == {u \in rest : u <= k}
\* Of the vertices of the set those up to k are still there, without edges.
Shrunk(H, rest, first, k, R) ==
    /\ Named(Len(H.vs), H.last, H.cont, H.pos, R)
    /\ k <= Len(H.vs) /\ first \in 1 .. Len(H.vs)
    /\ \E A, c : /\ Live(H, A, c, UpTo2(rest, k), UpTo2(rest, k), 0)
                 /\ \A u \in UpTo2(rest, k) : A[u] = {} /\ c[u] = 0

Least(first, rest, n) ==
    /\ first \in 1 .. n /\ rest \subseteq 1 .. n /\ \A u \in rest : first < u

OneLess(rest, v) == UpTo2(rest, v - 1) = UpTo2(rest, v) \ {v}

\* The vertices of the set up to v, and up to v - 1.
LEMMA UpToLess ==
    ASSUME NEW n \in Nat, NEW rest, rest \subseteq 1 .. n, NEW v \in 1 .. n
    PROVE  OneLess(rest, v)
  <1>1. \A u \in rest : u <= v - 1 <=> u <= v /\ u # v
    OBVIOUS
  <1> QED
    BY <1>1, Zenon DEF UpTo2, OneLess

\* All of the vertices of the set, and none.
LEMMA UpToFacts ==
    ASSUME NEW n \in Nat, NEW rest, rest \subseteq 1 .. n
    PROVE  UpTo2(rest, n) = rest /\ UpTo2(rest, 0) = {}
  <1>1. \A u \in rest : u \in Int /\ 1 <= u /\ u <= n
    OBVIOUS
  <1>2. UpTo2(rest, n) = rest
    BY <1>1, Zenon DEF UpTo2
  <1>3. UpTo2(rest, 0) = {}
    <2>1. \A u \in rest : ~(u <= 0)
      BY <1>1
    <2> QED
      BY <2>1, Zenon DEF UpTo2
  <1> QED
    BY <1>2, <1>3

\* A vertex that is not in the set stays.
LEMMA ShrinkSame ==
    ASSUME NEW H, NEW rest, NEW first, NEW n \in Nat, Least(first, rest, n), NEW v \in 1 .. n, NEW R,
           Shrunk(H, rest, first, v, R), v \notin rest
    PROVE  Shrunk(H, rest, first, v - 1, R)
  <1>1. UpTo2(rest, v - 1) = UpTo2(rest, v)
    <2>1. UpTo2(rest, v - 1) = UpTo2(rest, v) \ {v}
      <3>1. rest \subseteq 1 .. n
        BY DEF Least
      <3>2. OneLess(rest, v)
        BY <3>1, UpToLess, Zenon
      <3> QED
        BY <3>2 DEF OneLess
    <2>2. v \notin UpTo2(rest, v)
      BY DEF UpTo2
    <2> QED
      BY <2>1, <2>2
  <1>2. Len(H.vs) \in Nat
    BY DEF Shrunk, Named
  <1>3. v <= Len(H.vs) => v - 1 <= Len(H.vs)
    BY <1>2
  <1> QED
    BY <1>1, <1>3 DEF Shrunk

\* A vertex of the set is removed.
LEMMA ShrinkStep ==
    ASSUME NEW H, NEW rest, NEW first, NEW n \in Nat, Least(first, rest, n), NEW v \in 1 .. n, NEW R,
           Len(R) \in Nat, Shrunk(H, rest, first, v, R), v \in rest,
           NEW I, I = MoveLast(Absorb(H, first, v), v)
    PROVE  Shrunk(I, rest, first, v - 1, R)
  <1> DEFINE X == UpTo2(rest, v)
             Y == UpTo2(rest, v - 1)
             L == Len(H.vs)
  <1>1. first < v /\ first \in Nat /\ \A u \in rest : u \in Nat
    BY DEF Least
  <1>2. L \in Nat /\ v <= L /\ first \in 1 .. L /\ Named(L, H.last, H.cont, H.pos, R)
    BY DEF Shrunk, Named
  <1>3. PICK A, c : /\ Live(H, A, c, X, X, 0)
                    /\ \A u \in X : A[u] = {} /\ c[u] = 0
    BY DEF Shrunk
  <1>4. Y = X \ {v} /\ v \in X /\ (\A u \in X : u <= v) /\ (\A u \in Y : u \in 1 .. v - 1)
    <2>1. Y = X \ {v}
      <3>1. rest \subseteq 1 .. n
        BY DEF Least
      <3>2. OneLess(rest, v)
        BY <3>1, UpToLess, Zenon
      <3> QED
        BY <3>2 DEF OneLess
    <2>2. v \in X /\ \A u \in X : u <= v /\ u \in Nat /\ 1 <= u
      BY <1>1 DEF UpTo2, Least
    <2> QED
      BY <2>1, <2>2
  <1> HIDE DEF X, Y
  <1>5. v \in 1 .. L /\ v # first /\ A[v] = {} /\ c[v] = 0 /\ (v # L => L \notin X \cup X)
    BY <1>1, <1>2, <1>3, <1>4
  <1>6. PICK B, d : Removed(H, A, c, X, X, 0, v, I, B, d, R)
    <2>1. \E B, d : Removed(H, A, c, X, X, 0, v, I, B, d, R)
      BY <1>2, <1>3, <1>5, RemoveStep
    <2> QED
      BY <2>1
  <1>7. /\ Live(I, B, d, Y, Y, 0) /\ Len(I.vs) = L - 1
        /\ B = MovedSet(L - 1, A, L, v) /\ d = MovedSet(L - 1, c, L, v)
        /\ Named(Len(I.vs), I.last, I.cont, I.pos, R)
    BY <1>4, <1>5, <1>6 DEF Removed
  <1>8. ASSUME NEW u \in Y PROVE B[u] = {} /\ d[u] = 0
    <2>1. u \in 1 .. L - 1 /\ u # v /\ u \in X
      BY <1>2, <1>4, <1>8
    <2>2. B[u] = A[u] /\ d[u] = c[u]
      BY <1>7, <2>1 DEF MovedSet, Source
    <2> QED
      BY <1>3, <2>1, <2>2
  <1>9. v - 1 <= Len(I.vs) /\ first \in 1 .. Len(I.vs)
    BY <1>1, <1>2, <1>7
  <1> QED
    BY <1>7, <1>8, <1>9 DEF Shrunk, Y

RemoveRun(n, S, first, base, r) ==
    /\ r[0] = base /\ \A i \in 1 .. n : r[i] = RemovePass(r[i - 1], n, S, first, i)
    /\ RemoveLoop(n, S, first, base, Indices(n)) = r[n]

\* The run of the loop that removes vertices.
LEMMA RemoveLoopRuns ==
    ASSUME NEW n \in Nat, NEW S, NEW first, NEW base
    PROVE  \E r : RemoveRun(n, S, first, base, r)
  <1>1. DOMAIN Indices(n) = 1 .. n /\ Len(Indices(n)) = n /\ \A i \in 1 .. n : Indices(n)[i] = i
    BY IndicesFacts
  <1>2. \E r : /\ IsRun(r, "Remove", <<n, S, first>>, base, Indices(n))
               /\ RemoveLoop(n, S, first, base, Indices(n)) = r[n]
    BY <1>1, RemoveRuns
  <1> QED
    BY <1>1, <1>2 DEF IsRun, Pass, RemoveRun

\* All vertices of the set but first are removed.
LEMMA Removes ==
    ASSUME NEW n \in Nat, NEW S, NEW first, NEW rest, rest = S \ {first}, Least(first, rest, n),
           NEW R, Len(R) \in Nat, NEW base, Shrunk(base, rest, first, n, R)
    PROVE  Sound(RemoveLoop(n, S, first, base, Indices(n)), R)
  <1>1. PICK r : RemoveRun(n, S, first, base, r)
    BY RemoveLoopRuns
  <1>2. /\ r[0] = base /\ \A i \in 1 .. n : r[i] = RemovePass(r[i - 1], n, S, first, i)
        /\ RemoveLoop(n, S, first, base, Indices(n)) = r[n]
    BY <1>1 DEF RemoveRun
  <1> DEFINE T == {i \in 0 .. n : Shrunk(r[i], rest, first, n - i, R)}
  <1>3. 0 \in T
    BY <1>2
  <1>4. ASSUME NEW i \in 1 .. n, i - 1 \in T PROVE i \in T
    <2> DEFINE v == n + 1 - i
               H == r[i - 1]
    <2>1. v \in 1 .. n /\ v = n - (i - 1) /\ v - 1 = n - i
      OBVIOUS
    <2>2. Shrunk(H, rest, first, v, R)
      BY <1>4, <2>1
    <2>3. r[i] = IF v \in rest THEN MoveLast(Absorb(H, first, v), v) ELSE H
      BY <1>2 DEF RemovePass
    <2> HIDE DEF v, H
    <2>4. Shrunk(r[i], rest, first, v - 1, R)
      BY <2>1, <2>2, <2>3, ShrinkSame, ShrinkStep, Zenon
    <2> QED
      BY <2>1, <2>4
  <1> HIDE DEF T
  <1>5. \A i \in 0 .. n : i \in T
    BY <1>3, <1>4, UpTo, Zenon
  <1>6. Shrunk(r[n], rest, first, 0, R)
    <2>1. n \in T
      BY <1>5
    <2>2. n - n = 0
      OBVIOUS
    <2> QED
      BY <2>1, <2>2 DEF T
  <1>7. UpTo2(rest, 0) = {}
    BY UpToFacts, Zenon DEF Least
  <1> QED
    BY <1>2, <1>6, <1>7, Zenon DEF Shrunk, Sound, Alive

\* The contraction of a set of vertices into the one with the smallest index.
LEMMA SetContracts ==
    ASSUME NEW G, NEW R, Len(R) \in Nat, Sound(G, R), NEW S, S \subseteq 1 .. Len(G.vs),
           NEW first \in S, \A u \in S : first <= u,
           NEW order, NEW m, Enumerates(order, S \ {first}, m)
    PROVE  Sound(ContractVertexSet(G, S, first, order), R)
  <1> DEFINE rest == S \ {first}
             n == Len(G.vs)
             J == DropInner(G, S, first)
             map == IndexEdges(J.vs[first], DOMAIN J.vs[first])
             K == SetLoop(first, S, [g |-> J, map |-> map], order).g
  <1>1. Alive(G) /\ Named(n, G.last, G.cont, G.pos, R) /\ n \in Nat
    BY DEF Sound, Named
  <1>2. [i \in DOMAIN G.vs |-> i] = Indices(n)
    BY <1>1, AliveFacts DEF Alive, Indices
  <1>3. ContractVertexSet(G, S, first, order) = RemoveLoop(n, S, first, K, Indices(n))
    BY <1>2, Zenon DEF ContractVertexSet, RemoveLoop, RemovePass, SetLoop, SetPass, FoldLeftDomain
  <1>4. DroppedInner(G, S, first, J)
    BY <1>1, DropInnerDrops, Zenon
  <1> HIDE DEF J
  <1>5. PICK A, c : Inner(J, S, first, A, c)
    BY <1>4 DEF DroppedInner
  <1>6. SameNames(G, J)
    BY <1>4 DEF DroppedInner
  <1>7. S \subseteq 1 .. Len(J.vs)
    BY <1>6 DEF SameNames
  <1>8. Drained(J, K, rest)
    BY <1>5, <1>7, SetDrains, Zenon
  <1> HIDE DEF map, K, rest
  <1>9. PICK B, d : /\ Live(K, B, d, rest, rest, 0) /\ SameNames(J, K)
                    /\ \A u \in rest : B[u] = {} /\ d[u] = 0
    BY <1>8 DEF Drained
  <1>10. SameNames(G, K)
    BY <1>6, <1>9 DEF SameNames
  <1>11. Least(first, rest, n)
    BY <1>1 DEF Least, rest
  <1>12. UpTo2(rest, n) = rest
    BY <1>1, <1>11, UpToFacts, Zenon DEF Least
  <1>13. Shrunk(K, rest, first, n, R)
    <2>1. Named(Len(K.vs), K.last, K.cont, K.pos, R) /\ Len(K.vs) = n
      BY <1>1, <1>10 DEF SameNames
    <2>2. n <= Len(K.vs) /\ first \in 1 .. Len(K.vs)
      BY <1>1, <1>11, <2>1 DEF Least
    <2> QED
      BY <1>9, <1>12, <2>1, <2>2 DEF Shrunk
  <1>14. rest = S \ {first}
    BY DEF rest
  <1>15. Sound(RemoveLoop(n, S, first, K, Indices(n)), R)
    BY <1>1, <1>11, <1>13, <1>14, Removes
  <1> QED
    BY <1>3, <1>15

-----------------------------------------------------------------------------
(* The contractions, for all indices.                                        *)

LEMMA TargetContracts ==
    ASSUME NEW G, NEW R, Len(R) \in Nat, Sound(G, R),
           NEW v \in 1 .. Len(G.vs), NEW gone \in 1 .. Len(G.vs), v # gone,
           \A k \in 1 .. Len(G.vs[gone]) : G.vs[gone][k].to # v
    PROVE  Sound(ContractSparseTargetNoEdge(G, v, gone), R)
  <1>1. CASE v # gone + 1
    BY <1>1, NoEdgeContracts
  <1>2. CASE v = gone + 1
    <2> DEFINE S == {v, gone}
    <2>1. ContractSparseTargetNoEdge(G, v, gone) = ContractVertexSet(G, S, gone, <<v>>)
      BY <1>2 DEF ContractSparseTargetNoEdge
    <2>2. S \subseteq 1 .. Len(G.vs) /\ gone \in S
      OBVIOUS
    <2>3. \A u \in S : gone <= u
      BY <1>2
    <2>4. S \ {gone} = {v}
      OBVIOUS
    <2>5. Enumerates(<<v>>, S \ {gone}, 1)
      BY <2>4, OneEnumerates
    <2> HIDE DEF S
    <2>6. Sound(ContractVertexSet(G, S, gone, <<v>>), R)
      BY <2>2, <2>3, <2>5, SetContracts, Zenon
    <2> QED
      BY <2>1, <2>6
  <1> QED
    BY <1>1, <1>2

\* contractEdgeSparseTarget keeps what holds between calls.
LEMMA SparseEdgeContracts ==
    ASSUME NEW G, NEW R, Len(R) \in Nat, Sound(G, R), NEW v \in 1 .. Len(G.vs),
           NEW i \in 1 .. Len(G.vs[v])
    PROVE  Sound(ContractEdgeSparseTarget(G, v, i), R)
  <1>1. CASE v # G.vs[v][i].to + 1
    BY <1>1, SparseContracts
  <1>2. CASE v = G.vs[v][i].to + 1
    <2>1. ContractEdgeSparseTarget(G, v, i) = ContractEdge(G, v, i)
      BY <1>2, Zenon DEF ContractEdgeSparseTarget
    <2> QED
      BY <2>1, EdgeContracts
  <1> QED
    BY <1>1, <1>2

\* contractVertexSet keeps what holds between calls, whatever the order of the set.
LEMMA VerticesContract ==
    ASSUME NEW G, NEW R, Len(R) \in Nat, Sound(G, R), NEW S \in SUBSET (1 .. Len(G.vs)), S # {},
           NEW order \in SetToSeqs(S \ {Min(S)})
    PROVE  Sound(ContractVertexSet(G, S, Min(S), order), R)
  <1>1. Len(G.vs) \in Nat
    BY DEF Sound, Named
  <1>2. Min(S) \in S /\ \A y \in S : Min(S) <= y
    BY <1>1, LeastExists, Zenon
  <1>3. IsFiniteSet(S \ {Min(S)})
    <2>1. IsFiniteSet(1 .. Len(G.vs))
      BY <1>1, FS_Interval
    <2> QED
      BY <2>1, FS_Subset, Zenon
  <1>4. Enumerates(order, S \ {Min(S)}, Cardinality(S \ {Min(S)}))
    BY <1>3, SeqsEnumerate
  <1> QED
    BY <1>2, <1>4, SetContracts, Zenon

-----------------------------------------------------------------------------
(* Building a graph.                                                         *)

LEMMA SequenceIs ==
    ASSUME NEW X, NEW n \in Nat, NEW s, \A i \in 1 .. n : s[i] \in X, s = [i \in 1 .. n |-> s[i]],
           NEW t, t = SubSeq(s, 1, n)
    PROVE  t = s /\ s \in Seq(X) /\ Len(s) = n
  <1>1. s \in Seq(X)
    BY IsASeq
  <1>2. Len(s) = n
    BY <1>1, LenProperties
  <1>3. SubSeq(s, 1, n) = s
    BY <1>1, <1>2, SubSeqFull
  <1> QED
    BY <1>1, <1>2, <1>3

IsEmpty(n, G) ==
    /\ G \in Objects /\ Len(G.vs) = n /\ Len(G.deg) = n /\ Len(G.cont) = n /\ Len(G.pos) = n
    /\ G.m = 0 /\ G.last = n
    /\ \A v \in 1 .. n : G.vs[v] = <<>> /\ G.deg[v] = 0 /\ G.cont[v] = {v} /\ G.pos[v] = v

\* The fields of a graph without edges.
LEMMA EmptyFacts ==
    ASSUME NEW n \in Nat
    PROVE  IsEmpty(n, Empty(n))
  <1> DEFINE vs == [v \in 1 .. n |-> <<>>]
             deg == [v \in 1 .. n |-> 0]
             cont == [v \in 1 .. n |-> {v}]
             pos == [v \in 1 .. n |-> v]
             G == [vs |-> vs, deg |-> deg, m |-> 0, last |-> n, cont |-> cont, pos |-> pos,
                   exited |-> FALSE]
  <1>1. SubSeq(vs, 1, n) = vs /\ vs \in Adj /\ Len(vs) = n
    <2>1. <<>> \in Row
      BY DEF Row
    <2>2. \A v \in 1 .. n : vs[v] \in Row
      BY <2>1
    <2>3. vs = [i \in 1 .. n |-> vs[i]]
      OBVIOUS
    <2> HIDE DEF vs
    <2> QED
      BY <2>2, <2>3, SequenceIs DEF Adj
  <1>2. SubSeq(deg, 1, n) = deg /\ deg \in Seq(Int) /\ Len(deg) = n
    <2>1. \A v \in 1 .. n : deg[v] \in Int
      OBVIOUS
    <2>2. deg = [i \in 1 .. n |-> deg[i]]
      OBVIOUS
    <2> HIDE DEF deg
    <2> QED
      BY <2>1, <2>2, SequenceIs
  <1>3. SubSeq(cont, 1, n) = cont /\ cont \in Seq(SUBSET Nat) /\ Len(cont) = n
    <2>1. \A v \in 1 .. n : cont[v] \in SUBSET Nat
      OBVIOUS
    <2>2. cont = [i \in 1 .. n |-> cont[i]]
      OBVIOUS
    <2> HIDE DEF cont
    <2> QED
      BY <2>1, <2>2, SequenceIs
  <1>4. SubSeq(pos, 1, n) = pos /\ pos \in Seq(Nat) /\ Len(pos) = n
    <2>1. \A v \in 1 .. n : pos[v] \in Nat
      OBVIOUS
    <2>2. pos = [i \in 1 .. n |-> pos[i]]
      OBVIOUS
    <2> HIDE DEF pos
    <2> QED
      BY <2>1, <2>2, SequenceIs
  <1>5. Empty(n) = G
    BY <1>1, <1>2, <1>3, <1>4, Zenon DEF Empty, Sequence
  <1>6. \A v \in 1 .. n : vs[v] = <<>> /\ deg[v] = 0 /\ cont[v] = {v} /\ pos[v] = v
    OBVIOUS
  <1> HIDE DEF vs, deg, cont, pos
  <1>7. IsEmpty(n, G)
    BY <1>1, <1>2, <1>3, <1>4, <1>6 DEF IsEmpty, Objects
  <1> QED
    BY <1>5, <1>7

\* A graph without edges has no edge that does not count.
LEMMA EmptyAlive ==
    ASSUME NEW n \in Nat, NEW G, IsEmpty(n, G)
    PROVE  Alive(G)
  <1> DEFINE A == [u \in 1 .. n |-> {}]
             c == [u \in 1 .. n |-> 0]
  <1>1. G \in Objects /\ Len(G.vs) = n /\ Len(G.deg) = n /\ G.m = 0
    BY DEF IsEmpty
  <1>2. ASSUME NEW u \in 1 .. n
        PROVE  A[u] = 1 .. Len(G.vs[u]) /\ c[u] = Len(G.vs[u]) /\ G.deg[u] = RowSum(G.vs[u])
               /\ A[u] = {} /\ c[u] = 0
    <2>1. G.vs[u] = <<>> /\ G.deg[u] = 0
      BY DEF IsEmpty
    <2>2. Len(G.vs[u]) = 0 /\ RowSum(G.vs[u]) = 0
      BY <2>1, RowSumEmpty
    <2> QED
      BY <2>1, <2>2
  <1>3. A \in [1 .. n -> SUBSET Nat] /\ c \in [1 .. n -> Int]
    OBVIOUS
  <1> HIDE DEF A, c
  <1>4. Paired(G.vs, A)
    BY <1>1, <1>2, <1>3 DEF Paired
  <1>5. Sum(c, 1 .. n) = 0
    <2>1. IsFiniteSet(1 .. n)
      BY FS_Interval
    <2> QED
      BY <1>2, <2>1, SumZero
  <1>6. Live(G, A, c, {}, {}, 0)
    BY <1>1, <1>2, <1>3, <1>4, <1>5 DEF Live
  <1> QED
    BY <1>6 DEF Alive

\* In a new graph every vertex has its own index for a name.
LEMMA EmptyNamed ==
    ASSUME NEW n \in Nat, NEW G, IsEmpty(n, G)
    PROVE  Named(n, G.last, G.cont, G.pos, <<>>)
  <1>1. /\ G.cont \in Seq(SUBSET Nat) /\ G.pos \in Seq(Nat) /\ Len(G.cont) = n /\ Len(G.pos) = n
        /\ G.last = n /\ \A v \in 1 .. n : G.cont[v] = {v} /\ G.pos[v] = v
    BY ObjectFacts DEF IsEmpty
  <1>2. Inverse2(n, G.cont, G.pos)
    BY <1>1 DEF Inverse2
  <1>3. Len(<<>>) = 0
    OBVIOUS
  <1>4. Below(n, G.cont, G.pos, <<>>)
    BY <1>3 DEF Below
  <1>5. Away(n, G.pos, <<>>)
    BY <1>1, <1>3 DEF Away
  <1> QED
    BY <1>1, <1>2, <1>4, <1>5 DEF Named

-----------------------------------------------------------------------------
\* A graph of n vertices that is being built: its edges are among those in P.
Entering(n, H, P) ==
    /\ Alive(H) /\ SameNames(Empty(n), H)
    /\ \A s \in 1 .. n : \A j \in 1 .. Len(H.vs[s]) :
          s < H.vs[s][j].to => <<s, H.vs[s][j].to>> \in P

\* Before the first edge is entered.
LEMMA EnteringStarts ==
    ASSUME NEW n \in Nat, NEW P
    PROVE  Entering(n, Empty(n), P)
  <1>1. IsEmpty(n, Empty(n))
    BY EmptyFacts
  <1>2. Alive(Empty(n))
    BY <1>1, EmptyAlive
  <1>3. \A s \in 1 .. n : Len(Empty(n).vs[s]) = 0
    BY <1>1 DEF IsEmpty
  <1> QED
    BY <1>2, <1>3 DEF Entering, SameNames

\* The pairs may be bounded more loosely.
LEMMA EnteringMore ==
    ASSUME NEW n, NEW H, NEW P, Entering(n, H, P), NEW Q, P \subseteq Q
    PROVE  Entering(n, H, Q)
  BY DEF Entering

\* An edge is entered between a pair that has none.
LEMMA EnterStep ==
    ASSUME NEW n \in Nat, NEW H, NEW P, Entering(n, H, P), NEW s \in 1 .. n, NEW t \in 1 .. n, s < t,
           <<s, t>> \notin P, NEW w \in Int, NEW Q, P \subseteq Q, <<s, t>> \in Q
    PROVE  Entering(n, NewEdge(H, s, t, w), Q)
  <1> DEFINE I == NewEdge(H, s, t, w)
  <1>1. Len(H.vs) = n
    BY EmptyFacts DEF Entering, SameNames, IsEmpty
  <1>2. \A j \in 1 .. Len(H.vs[s]) : H.vs[s][j].to # t
    BY Zenon DEF Entering
  <1>3. Made(H, s, t, w, I)
    BY <1>1, <1>2, NewEdgeMakes, Zenon DEF Entering
  <1> HIDE DEF I
  <1>4. Alive(I) /\ SameNames(Empty(n), I)
    BY <1>3 DEF Made, Entering, SameNames
  <1>5. EnteredTwo(H.vs, s, t, w, n, I.vs)
    BY <1>1, <1>3 DEF Made
  <1>6. ASSUME NEW u \in 1 .. n, NEW j \in 1 .. Len(I.vs[u]), u < I.vs[u][j].to
        PROVE  <<u, I.vs[u][j].to>> \in Q
    <2>1. CASE j \in 1 .. Len(H.vs[u])
      <3>1. I.vs[u][j] = H.vs[u][j]
        BY <1>5, <2>1 DEF EnteredTwo
      <3> QED
        BY <1>6, <2>1, <3>1 DEF Entering
    <2>2. CASE j \notin 1 .. Len(H.vs[u])
      <3>1. H.vs \in Adj
        BY ObjectFacts DEF Entering, Alive, Live
      <3>2. Len(H.vs[u]) \in Nat
        BY <1>1, <3>1, RowFacts
      <3>3. u = s \/ u = t
        BY <1>5, <2>2, Zenon DEF EnteredTwo
      <3>4. j = Len(H.vs[u]) + 1
        <4>1. Len(I.vs[u]) = Len(H.vs[u]) + 1
          BY <1>5, <3>3, Zenon DEF EnteredTwo
        <4> QED
          BY <2>2, <3>2, <4>1
      <3>5. u = s => I.vs[u][j].to = t
        BY <1>5, <3>4 DEF EnteredTwo
      <3>6. u = t => I.vs[u][j].to = s
        BY <1>5, <3>4 DEF EnteredTwo
      <3> QED
        BY <1>6, <3>3, <3>5, <3>6
    <2> QED
      BY <2>1, <2>2
  <1>7. Entering(n, I, Q)
    BY <1>4, <1>6 DEF Entering
  <1> QED
    BY <1>7 DEF I

\* The other call for an edge changes nothing.
LEMMA EnterSame ==
    ASSUME NEW H, NEW s, NEW t, NEW w, s >= t
    PROVE  NewEdge(H, s, t, w) = H
  BY DEF NewEdge

-----------------------------------------------------------------------------
\* The edges that are entered when those of the vertices before v and the first i of v
\* are read.
ReadPairs(G, v, i) ==
    {p \in (1 .. Len(G.vs)) \X (1 .. Len(G.vs)) :
        p[1] < v \/ (p[1] = v /\ \E k \in 1 .. i : G.vs[v][k].to = p[2])}

\* A pass over the edges of v: an edge is entered at its smaller end only.
LEMMA CopyEdgeStep ==
    ASSUME NEW G, NEW A, NEW S, NEW first, Whole(G, A, S, first),
           NEW v \in 1 .. Len(G.vs), NEW i \in 1 .. Len(G.vs[v]),
           NEW H, Entering(Len(G.vs), H, ReadPairs(G, v, i - 1)),
           NEW I, I = CopyEdgePass(H, v, G.vs[v][i])
    PROVE  Entering(Len(G.vs), I, ReadPairs(G, v, i))
  <1> DEFINE n == Len(G.vs)
             e == G.vs[v][i]
             t == e.to
             P == ReadPairs(G, v, i - 1)
             Q == ReadPairs(G, v, i)
  <1>1. Whole2(G, v, i, t, e.rev)
    BY WholeMates, Zenon
  <1>2. /\ n \in Nat /\ Len(G.vs[v]) \in Nat /\ t \in 1 .. n /\ t # v /\ e.w \in Int
        /\ \A k \in 1 .. Len(G.vs[v]) : G.vs[v][k].to = t => k = i
    BY <1>1, Zenon DEF Whole2, Whole, Edge
  <1>3. P \subseteq Q
    BY <1>2 DEF ReadPairs
  <1>4. I = NewEdge(H, v, t, e.w)
    BY DEF CopyEdgePass
  <1>5. CASE v < t
    <2>1. <<v, t>> \in Q
      BY <1>2 DEF ReadPairs
    <2>2. <<v, t>> \notin P
      <3>1. ~(v < v)
        BY <1>2
      <3>2. ~ \E k \in 1 .. i - 1 : G.vs[v][k].to = t
        BY <1>2
      <3> QED
        BY <3>1, <3>2, Zenon DEF ReadPairs
    <2> HIDE DEF n, e, t, P, Q
    <2>3. Entering(n, H, P)
      BY DEF n, P
    <2>4. v \in 1 .. n
      BY DEF n
    <2>5. Entering(n, NewEdge(H, v, t, e.w), Q)
      BY <1>2, <1>3, <1>5, <2>1, <2>2, <2>3, <2>4, EnterStep
    <2> QED
      BY <1>4, <2>5 DEF n, Q
  <1>6. CASE v >= t
    <2>1. I = H
      BY <1>4, <1>6, EnterSame
    <2> QED
      BY <1>3, <2>1, EnteringMore
  <1> QED
    BY <1>2, <1>5, <1>6

CopyEdgeRun(v, base, s, n, r) ==
    /\ r[0] = base /\ \A i \in 1 .. n : r[i] = CopyEdgePass(r[i - 1], v, s[i])
    /\ CopyEdgeLoop(v, base, s) = r[n]

\* The run of the loop over the edges of a vertex.
LEMMA CopyEdgeLoopRuns ==
    ASSUME NEW v, NEW base, NEW s \in Row, NEW n, n = Len(s)
    PROVE  \E r : CopyEdgeRun(v, base, s, n, r)
  <1>1. n \in Nat /\ DOMAIN s = 1 .. n
    BY LenProperties DEF Row
  <1>2. \E r : IsRun(r, "CopyEdge", <<v>>, base, s) /\ CopyEdgeLoop(v, base, s) = r[n]
    BY <1>1, CopyEdgeRuns
  <1> QED
    BY <1>1, <1>2 DEF IsRun, Pass, CopyEdgeRun

\* All edges of one vertex are entered.
LEMMA CopyVertexStep ==
    ASSUME NEW G, NEW A, NEW S, NEW first, Whole(G, A, S, first),
           NEW v \in 1 .. Len(G.vs), NEW H, Entering(Len(G.vs), H, ReadPairs(G, v, 0)),
           NEW I, I = CopyVertexPass(H, G.vs, v)
    PROVE  Entering(Len(G.vs), I, ReadPairs(G, v + 1, 0))
  <1> DEFINE L == Len(G.vs[v])
             n == Len(G.vs)
  <1>1. G.vs[v] \in Row /\ L \in Nat /\ n \in Nat
    BY RowFacts DEF Whole
  <1>2. I = CopyEdgeLoop(v, H, G.vs[v])
    BY Zenon DEF CopyVertexPass, CopyEdgeLoop, CopyEdgePass
  <1> HIDE DEF L
  <1>3. PICK r : CopyEdgeRun(v, H, G.vs[v], L, r)
    BY <1>1, CopyEdgeLoopRuns, Zenon DEF L
  <1>4. /\ r[0] = H /\ \A i \in 1 .. L : r[i] = CopyEdgePass(r[i - 1], v, G.vs[v][i])
        /\ I = r[L]
    BY <1>2, <1>3 DEF CopyEdgeRun
  <1> DEFINE T == {i \in 0 .. L : Entering(n, r[i], ReadPairs(G, v, i))}
  <1>5. 0 \in T
    BY <1>1, <1>4
  <1>6. ASSUME NEW i \in 1 .. L, i - 1 \in T PROVE i \in T
    <2>1. Entering(n, r[i - 1], ReadPairs(G, v, i - 1)) /\ i \in 1 .. Len(G.vs[v])
      BY <1>6 DEF L
    <2>2. r[i] = CopyEdgePass(r[i - 1], v, G.vs[v][i])
      BY <1>4
    <2>3. Entering(n, r[i], ReadPairs(G, v, i))
      BY <2>1, <2>2, CopyEdgeStep, Zenon
    <2> QED
      BY <2>3
  <1> HIDE DEF T
  <1>7. L \in T
    <2>1. \A i \in 0 .. L : i \in T
      BY <1>1, <1>5, <1>6, UpTo, Zenon
    <2> QED
      BY <1>1, <2>1
  <1>8. Entering(n, I, ReadPairs(G, v, L))
    BY <1>4, <1>7 DEF T
  <1>9. ReadPairs(G, v, L) \subseteq ReadPairs(G, v + 1, 0)
    BY <1>1 DEF ReadPairs
  <1> QED
    BY <1>8, <1>9, EnteringMore

CopyVertexRun(vs, base, n, r) ==
    /\ r[0] = base /\ \A i \in 1 .. n : r[i] = CopyVertexPass(r[i - 1], vs, i)
    /\ CopyVertexLoop(vs, base, Indices(n)) = r[n]

\* The run of the loop over the vertices.
LEMMA CopyVertexLoopRuns ==
    ASSUME NEW vs, NEW base, NEW n \in Nat
    PROVE  \E r : CopyVertexRun(vs, base, n, r)
  <1>1. DOMAIN Indices(n) = 1 .. n /\ Len(Indices(n)) = n /\ \A i \in 1 .. n : Indices(n)[i] = i
    BY IndicesFacts
  <1>2. \E r : /\ IsRun(r, "CopyVertex", <<vs>>, base, Indices(n))
               /\ CopyVertexLoop(vs, base, Indices(n)) = r[n]
    BY <1>1, CopyVertexRuns
  <1> QED
    BY <1>1, <1>2 DEF IsRun, Pass, CopyVertexRun

\* A copy has all pairs, and the names of a new graph.
LEMMA Rebuilds ==
    ASSUME NEW G, Alive(G)
    PROVE  Alive(Rebuild(G)) /\ SameNames(Empty(Len(G.vs)), Rebuild(G))
  <1> DEFINE n == Len(G.vs)
  <1>1. n \in Nat /\ DOMAIN G.vs = 1 .. n
    BY AliveFacts DEF Alive
  <1>2. [i \in DOMAIN G.vs |-> i] = Indices(n)
    BY <1>1 DEF Indices
  <1>3. Rebuild(G) = CopyVertexLoop(G.vs, Empty(n), Indices(n))
    BY <1>2, Zenon DEF Rebuild, FoldLeftDomain, CopyVertexLoop, CopyVertexPass
  <1>4. CASE n = 0
    <2>1. PICK r : CopyVertexRun(G.vs, Empty(n), n, r)
      BY <1>1, CopyVertexLoopRuns, Zenon
    <2>2. Rebuild(G) = Empty(n)
      BY <1>3, <1>4, <2>1 DEF CopyVertexRun
    <2>3. Entering(n, Empty(n), {})
      BY <1>1, EnteringStarts
    <2> QED
      BY <2>2, <2>3 DEF Entering
  <1>5. CASE n # 0
    <2>1. 1 \in {1} /\ {1} \subseteq 1 .. n
      BY <1>1, <1>5
    <2>2. PICK A : Whole(G, A, {1}, 1)
      BY <2>1, WholeFacts
    <2>3. PICK r : CopyVertexRun(G.vs, Empty(n), n, r)
      BY <1>1, CopyVertexLoopRuns, Zenon
    <2>4. /\ r[0] = Empty(n) /\ \A i \in 1 .. n : r[i] = CopyVertexPass(r[i - 1], G.vs, i)
          /\ Rebuild(G) = r[n]
      BY <1>3, <2>3 DEF CopyVertexRun
    <2> DEFINE T == {i \in 0 .. n : Entering(n, r[i], ReadPairs(G, i + 1, 0))}
    <2>5. 0 \in T
      BY <1>1, <2>4, EnteringStarts
    <2>6. ASSUME NEW i \in 1 .. n, i - 1 \in T PROVE i \in T
      <3>1. i - 1 + 1 = i
        OBVIOUS
      <3>2. Entering(n, r[i - 1], ReadPairs(G, i, 0)) /\ i \in 1 .. Len(G.vs)
        BY <2>6, <3>1
      <3>3. r[i] = CopyVertexPass(r[i - 1], G.vs, i)
        BY <2>4
      <3>4. Entering(n, r[i], ReadPairs(G, i + 1, 0))
        BY <2>2, <3>2, <3>3, CopyVertexStep
      <3> QED
        BY <3>4
    <2> HIDE DEF T
    <2>7. n \in T
      <3>1. \A i \in 0 .. n : i \in T
        BY <1>1, <2>5, <2>6, UpTo, Zenon
      <3> QED
        BY <1>1, <3>1
    <2>8. Entering(n, Rebuild(G), ReadPairs(G, n + 1, 0))
      BY <2>4, <2>7 DEF T
    <2> QED
      BY <2>8 DEF Entering
  <1> QED
    BY <1>4, <1>5

\* The copy of a graph holds what holds between calls.
LEMMA RebuildKeeps ==
    ASSUME NEW G, NEW R, Sound(G, R)
    PROVE  Sound(Rebuild(G), <<>>)
  <1> DEFINE n == Len(G.vs)
             H == Rebuild(G)
  <1>1. n \in Nat /\ Alive(G)
    BY DEF Sound, Named
  <1>2. Alive(H) /\ SameNames(Empty(n), H)
    BY <1>1, Rebuilds
  <1>3. IsEmpty(n, Empty(n))
    BY <1>1, EmptyFacts
  <1>4. Named(n, Empty(n).last, Empty(n).cont, Empty(n).pos, <<>>)
    BY <1>1, <1>3, EmptyNamed
  <1>5. Len(H.vs) = n
    BY <1>2, <1>3 DEF SameNames, IsEmpty
  <1> HIDE DEF H
  <1>6. Sound(H, <<>>)
    BY <1>2, <1>4, <1>5 DEF Sound, SameNames
  <1> QED
    BY <1>6 DEF H

IsRenamed(G, pos, cont, H) ==
    /\ H \in Objects /\ H.vs = G.vs /\ H.deg = G.deg /\ H.m = G.m /\ H.last = G.last
    /\ H.cont = cont /\ H.pos = pos

\* An object with other blocks and positions.
LEMMA RenamedFacts ==
    ASSUME NEW G \in Objects, NEW pos \in Seq(Nat), NEW cont \in Seq(SUBSET Nat)
    PROVE  IsRenamed(G, pos, cont, Renamed(G, pos, cont))
  BY Zenon DEF Renamed, IsRenamed, Objects

\* A graph read from its serialised form holds what holds between calls.
LEMMA TransmitKeeps ==
    ASSUME NEW G, Sound(G, <<>>)
    PROVE  Sound(Transmit(G), <<>>)
  <1> DEFINE n == Len(G.vs)
             H == Rebuild(G)
             cont == [v \in DOMAIN G.vs |-> {x \in DOMAIN G.pos : G.pos[x] = v}]
             I == Renamed(H, G.pos, cont)
  <1>1. n \in Nat /\ Alive(G) /\ Away(n, G.pos, <<>>) /\ G.pos \in Seq(Nat)
    BY DEF Sound, Named
  <1>2. DOMAIN G.vs = 1 .. n
    BY <1>1, AliveFacts DEF Alive
  <1>3. Alive(H) /\ SameNames(Empty(n), H)
    BY <1>1, Rebuilds
  <1>4. Transmit(G) = I
    BY DEF Transmit, Renamed
  <1>5. IsEmpty(n, Empty(n))
    BY <1>1, EmptyFacts
  <1> HIDE DEF H
  <1>6. H.last = n /\ Len(H.vs) = n /\ H \in Objects
    BY <1>3, <1>5 DEF IsEmpty, SameNames, Alive, Live
  <1>7. DOMAIN G.pos = 1 .. Len(G.pos) /\ Len(G.pos) \in Nat
    BY <1>1, LenProperties
  <1>8. cont \in Seq(SUBSET Nat) /\ Len(cont) = n
    <2>1. \A v \in 1 .. n : cont[v] \in SUBSET Nat
      BY <1>2, <1>7
    <2>2. cont = [i \in 1 .. n |-> cont[i]]
      BY <1>2
    <2> HIDE DEF cont
    <2>3. cont \in Seq(SUBSET Nat)
      BY <1>1, <2>1, <2>2, IsASeq
    <2> QED
      BY <1>1, <2>2, <2>3, LenProperties
  <1>9. \A v \in 1 .. n : cont[v] = {x \in 1 .. Len(G.pos) : G.pos[x] = v}
    BY <1>2, <1>7
  <1> HIDE DEF cont
  <1>10. IsRenamed(H, G.pos, cont, I)
    BY <1>1, <1>6, <1>8, RenamedFacts
  <1> HIDE DEF I
  <1>11. /\ I \in Objects /\ I.vs = H.vs /\ I.deg = H.deg /\ I.m = H.m /\ I.last = n
         /\ I.cont = cont /\ I.pos = G.pos
    BY <1>6, <1>10 DEF IsRenamed
  <1>12. Alive(I)
    BY <1>3, <1>11, LiveRenamed DEF Alive
  <1>13. Inverse2(n, cont, G.pos)
    BY <1>9 DEF Inverse2
  <1>14. Below(n, cont, G.pos, <<>>)
    <2>1. Len(<<>>) = 0
      OBVIOUS
    <2> QED
      BY <2>1 DEF Below
  <1>15. Named(n, n, cont, G.pos, <<>>)
    BY <1>1, <1>8, <1>13, <1>14 DEF Named
  <1>16. Sound(I, <<>>)
    BY <1>6, <1>11, <1>12, <1>15 DEF Sound
  <1> QED
    BY <1>4, <1>16

-----------------------------------------------------------------------------
(* The initial graph.                                                        *)

EdgeList(n, s) ==
    /\ \E m \in Nat : DOMAIN s = 1 .. m /\ Len(s) = m
    /\ \A i \in DOMAIN s : s[i][1] \in 1 .. n /\ s[i][2] \in s[i][1] + 1 .. n /\ s[i][3] \in Int
    /\ \A i, j \in DOMAIN s : s[i][1] = s[j][1] /\ s[i][2] = s[j][2] => i = j

InsertRun(base, s, m, r) ==
    /\ r[0] = base /\ \A i \in 1 .. m : r[i] = InsertPass(r[i - 1], s[i])
    /\ InsertLoop(base, s) = r[m]

\* The run of the loop over the given edges.
LEMMA InsertLoopRuns ==
    ASSUME NEW base, NEW s, NEW m \in Nat, DOMAIN s = 1 .. m, Len(s) = m
    PROVE  \E r : InsertRun(base, s, m, r)
  <1>1. \E r : IsRun(r, "Insert", <<>>, base, s) /\ InsertLoop(base, s) = r[m]
    BY InsertRuns
  <1> QED
    BY <1>1 DEF IsRun, Pass, InsertRun

Pairs(s, i) == {<<s[k][1], s[k][2]>> : k \in 1 .. i}

\* A given edge is entered.
LEMMA InsertStep ==
    ASSUME NEW n \in Nat, NEW s, EdgeList(n, s), NEW i \in DOMAIN s,
           NEW H, Entering(n, H, Pairs(s, i - 1)), NEW I, I = InsertPass(H, s[i])
    PROVE  Entering(n, I, Pairs(s, i))
  <1> DEFINE a == s[i][1]
             b == s[i][2]
             w == s[i][3]
             P == Pairs(s, i - 1)
             Q == Pairs(s, i)
  <1>1. PICK m \in Nat : DOMAIN s = 1 .. m
    BY Zenon DEF EdgeList
  <1>2. a \in 1 .. n /\ b \in 1 .. n /\ a < b /\ w \in Int
    BY DEF EdgeList
  <1>3. \A j \in DOMAIN s : s[j][1] = a /\ s[j][2] = b => j = i
    BY Zenon DEF EdgeList
  <1>4. I = NewEdge(H, a, b, w)
    BY DEF InsertPass
  <1>5. <<a, b>> \in Q /\ P \subseteq Q
    BY <1>1 DEF Pairs
  <1>6. <<a, b>> \notin P
    <2> SUFFICES ASSUME NEW k \in 1 .. i - 1, <<a, b>> = <<s[k][1], s[k][2]>> PROVE FALSE
      BY DEF Pairs
    <2>1. k \in DOMAIN s /\ k # i
      BY <1>1
    <2> QED
      BY <1>3, <2>1
  <1> HIDE DEF a, b, w, P, Q
  <1>7. Entering(n, H, P)
    BY DEF P
  <1>8. Entering(n, NewEdge(H, a, b, w), Q)
    BY <1>2, <1>5, <1>6, <1>7, EnterStep
  <1> QED
    BY <1>4, <1>8 DEF Q

\* A graph built from a list of edges holds what holds between calls.
LEMMA InsertKeeps ==
    ASSUME NEW n \in Nat, NEW s, EdgeList(n, s)
    PROVE  Sound(InsertLoop(Empty(n), s), <<>>)
  <1> DEFINE H == InsertLoop(Empty(n), s)
  <1>1. PICK m \in Nat : DOMAIN s = 1 .. m /\ Len(s) = m
    BY DEF EdgeList
  <1>2. PICK r : InsertRun(Empty(n), s, m, r)
    BY <1>1, InsertLoopRuns
  <1>3. /\ r[0] = Empty(n) /\ \A i \in 1 .. m : r[i] = InsertPass(r[i - 1], s[i])
        /\ H = r[m]
    BY <1>2 DEF InsertRun
  <1> HIDE DEF H
  <1> DEFINE T == {i \in 0 .. m : Entering(n, r[i], Pairs(s, i))}
  <1>4. 0 \in T
    BY <1>3, EnteringStarts
  <1>5. ASSUME NEW i \in 1 .. m, i - 1 \in T PROVE i \in T
    <2>1. Entering(n, r[i - 1], Pairs(s, i - 1)) /\ i \in DOMAIN s
      BY <1>1, <1>5
    <2>2. r[i] = InsertPass(r[i - 1], s[i])
      BY <1>3
    <2>3. Entering(n, r[i], Pairs(s, i))
      BY <2>1, <2>2, InsertStep
    <2> QED
      BY <2>3
  <1> HIDE DEF T
  <1>6. m \in T
    <2>1. \A i \in 0 .. m : i \in T
      BY <1>4, <1>5, UpTo
    <2> QED
      BY <2>1
  <1>7. Alive(H) /\ SameNames(Empty(n), H)
    BY <1>3, <1>6 DEF T, Entering
  <1>8. IsEmpty(n, Empty(n))
    BY EmptyFacts
  <1>9. Named(n, Empty(n).last, Empty(n).cont, Empty(n).pos, <<>>)
    BY <1>8, EmptyNamed
  <1>10. Sound(H, <<>>)
    BY <1>7, <1>8, <1>9 DEF Sound, SameNames, IsEmpty
  <1> QED
    BY <1>10 DEF H

-----------------------------------------------------------------------------
(* The calls.                                                                *)

\* Between calls the object is sound, and the caller's stack holds blocks.
Intact == Sound(g, removed) /\ removed \in Seq(Blocks)

\* Between calls; the vertices are the indices of the arrays.
LEMMA IntactFacts ==
    ASSUME Intact
    PROVE  /\ Sound(g, removed) /\ Len(removed) \in Nat /\ Len(g.vs) \in Nat
           /\ Vertices = 1 .. Len(g.vs)
           /\ \A v \in Vertices : DOMAIN g.vs[v] = 1 .. Len(g.vs[v])
  <1>1. Sound(g, removed) /\ Alive(g)
    BY DEF Intact, Sound
  <1>2. Len(removed) \in Nat
    BY LenProperties DEF Intact
  <1>3. PICK A, c : Live(g, A, c, {}, {}, 0)
    BY <1>1 DEF Alive
  <1> QED
    BY <1>1, <1>2, <1>3, AliveFacts DEF Vertices

\* The graphs the system starts from.
LEMMA InitIntact ==
    ASSUME Init
    PROVE  Intact
  <1>1. PICK s \in Starts : g = InsertLoop(Empty(s.n), s.edges)
    BY Zenon DEF Init, InsertLoop, InsertPass
  <1>3. removed = <<>>
    BY Zenon DEF Init
  <1>4. s.n \in Nat /\ EdgeList(s.n, s.edges)
    <2> DEFINE n == s.n
               E == s.edges
    <2>1. /\ n \in Nat /\ E \in Seq((1 .. n) \X (1 .. n) \X Nat)
          /\ \A i \in DOMAIN E : E[i][1] < E[i][2]
          /\ \A i, j \in DOMAIN E : E[i][1] = E[j][1] /\ E[i][2] = E[j][2] => i = j
      BY StartsAssumption
    <2> HIDE DEF n, E
    <2>2. Len(E) \in Nat /\ DOMAIN E = 1 .. Len(E)
      BY <2>1, LenProperties
    <2>3. \A i \in DOMAIN E : E[i] \in (1 .. n) \X (1 .. n) \X Nat
      BY <2>1, <2>2, ElementOfSeq
    <2>4. ASSUME NEW i \in DOMAIN E
          PROVE  E[i][1] \in 1 .. n /\ E[i][2] \in E[i][1] + 1 .. n /\ E[i][3] \in Int
      <3>1. E[i][1] \in 1 .. n /\ E[i][2] \in 1 .. n /\ E[i][3] \in Nat
        BY <2>3
      <3>2. E[i][1] < E[i][2]
        BY <2>1
      <3> QED
        BY <2>1, <3>1, <3>2
    <2>5. EdgeList(n, E)
      BY <2>1, <2>2, <2>4, Zenon DEF EdgeList
    <2> QED
      BY <2>1, <2>5 DEF n, E
  <1>5. Sound(g, removed)
    BY <1>1, <1>3, <1>4, InsertKeeps
  <1>6. removed \in Seq(Blocks)
    BY <1>3
  <1> QED
    BY <1>5, <1>6 DEF Intact

\* A call of new_edge.
LEMMA NewEdgeIntact ==
    ASSUME Intact, CallNewEdge
    PROVE  Intact'
  <1>1. PICK s \in Vertices, t \in Vertices, w \in Weights :
           s < t /\ t \notin Neighbors(s) /\ g' = NewEdge(g, s, t, w)
    BY DEF CallNewEdge, Call
  <1>2. w \in Int
    BY WeightsAssumption
  <1>3. s \in 1 .. Len(g.vs) /\ t \in 1 .. Len(g.vs)
    BY IntactFacts
  <1>4. \A j \in 1 .. Len(g.vs[s]) : g.vs[s][j].to # t
    BY <1>1, IntactFacts DEF Neighbors
  <1>5. Sound(g', removed)
    BY <1>1, <1>2, <1>3, <1>4, IntactFacts, NewEdgeKeeps, Zenon
  <1> QED
    BY <1>5 DEF CallNewEdge, Intact

\* A call of setEdgeWeight.
LEMMA SetIntact ==
    ASSUME Intact, CallSetEdgeWeight
    PROVE  Intact'
  <1>1. PICK v \in Vertices, w \in Weights : \E i \in DOMAIN g.vs[v] : g' = SetEdgeWeight(g, v, i, w)
    BY DEF CallSetEdgeWeight, Call
  <1>2. PICK i \in DOMAIN g.vs[v] : g' = SetEdgeWeight(g, v, i, w)
    BY <1>1
  <1>3. w \in Int /\ v \in 1 .. Len(g.vs) /\ i \in 1 .. Len(g.vs[v])
    BY WeightsAssumption, IntactFacts
  <1>4. Sound(g', removed)
    BY <1>2, <1>3, IntactFacts, SetKeeps, Zenon
  <1> QED
    BY <1>4 DEF CallSetEdgeWeight, Intact

\* A call of deleteEdge.
LEMMA DeleteEdgeIntact ==
    ASSUME Intact, CallDeleteEdge
    PROVE  Intact'
  <1>1. PICK v \in Vertices : \E i \in DOMAIN g.vs[v] : g' = DeleteEdge(g, v, i)
    BY DEF CallDeleteEdge, Call
  <1>2. PICK i \in DOMAIN g.vs[v] : g' = DeleteEdge(g, v, i)
    BY <1>1
  <1>3. v \in 1 .. Len(g.vs) /\ i \in 1 .. Len(g.vs[v])
    BY IntactFacts
  <1>4. Sound(g', removed)
    BY <1>2, <1>3, IntactFacts, DeleteKeeps
  <1> QED
    BY <1>4 DEF CallDeleteEdge, Intact

\* A call of deleteVertex.
LEMMA DeleteVertexIntact ==
    ASSUME Intact, CallDeleteVertex
    PROVE  Intact'
  <1> DEFINE Deletes(v, near) ==
               g' = DeleteVertex(g, v) /\ removed' = Append(removed, [near |-> near, cont |-> g.cont[v]])
  <1>7. PICK v \in Vertices : \E t \in Neighbors(v) : \E near \in g.cont[t] : Deletes(v, near)
    BY DEF CallDeleteVertex, Call
  <1>8. PICK t \in Neighbors(v) : \E near \in g.cont[t] : Deletes(v, near)
    BY <1>7
  <1>1. PICK near \in g.cont[t] : Deletes(v, near)
    BY <1>8
  <1>2. PICK i \in DOMAIN g.vs[v] : t = g.vs[v][i].to
    BY DEF Neighbors
  <1>3. v \in 1 .. Len(g.vs) /\ i \in 1 .. Len(g.vs[v])
    BY IntactFacts
  <1>4. removed' = Deleted(g, removed, v, near)
    BY <1>1 DEF Deleted
  <1>5. removed \in Seq(Blocks) /\ Sound(g, removed) /\ near \in g.cont[g.vs[v][i].to]
    BY <1>2 DEF Intact
  <1>6. Sound(DeleteVertex(g, v), Deleted(g, removed, v, near))
        /\ Deleted(g, removed, v, near) \in Seq(Blocks)
    BY <1>3, <1>5, DeleteVertexKeeps
  <1> QED
    BY <1>1, <1>4, <1>6, Zenon DEF Intact

\* A call of reInsertVertex.
LEMMA ReInsertIntact ==
    ASSUME Intact, CallReInsert
    PROVE  Intact'
  <1>1. PICK w \in Weights : g' = ReInsert(g, Last(removed).near, Last(removed).cont, w)
    BY DEF CallReInsert, Call
  <1>2. removed # <<>> /\ removed' = Front(removed)
    BY DEF CallReInsert
  <1>3. removed \in Seq(Blocks) /\ Sound(g, removed)
    BY DEF Intact
  <1>4. Len(removed) # 0
    BY <1>2, <1>3, EmptySeq
  <1>5. Last(removed) = removed[Len(removed)] /\ Front(removed) \in Seq(Blocks)
    BY <1>3, <1>4, LastFacts
  <1>6. w \in Int
    BY WeightsAssumption
  <1>7. Sound(g', Front(removed))
    BY <1>1, <1>3, <1>4, <1>5, <1>6, ReInsertKeeps
  <1> QED
    BY <1>2, <1>5, <1>7 DEF Intact

\* A call of contractVertexSet.
LEMMA ContractSetIntact ==
    ASSUME Intact, CallContractVertexSet
    PROVE  Intact'
  <1>1. PICK S \in SUBSET Vertices :
           /\ Cardinality(S) > 1
           /\ \E order \in SetToSeqs(S \ {Min(S)}) : g' = ContractVertexSet(g, S, Min(S), order)
    BY DEF CallContractVertexSet, Call
  <1>2. PICK order \in SetToSeqs(S \ {Min(S)}) : g' = ContractVertexSet(g, S, Min(S), order)
    BY <1>1
  <1>3. S # {}
    BY <1>1, FS_EmptySet
  <1>4. S \in SUBSET (1 .. Len(g.vs))
    BY IntactFacts
  <1>5. Sound(g', removed)
    BY <1>2, <1>3, <1>4, IntactFacts, VerticesContract
  <1> QED
    BY <1>5 DEF CallContractVertexSet, Intact

\* A call of contractEdge.
LEMMA ContractEdgeIntact ==
    ASSUME Intact, CallContractEdge
    PROVE  Intact'
  <1>1. PICK v \in Vertices : \E i \in DOMAIN g.vs[v] : g' = ContractEdge(g, v, i)
    BY DEF CallContractEdge, Call
  <1>2. PICK i \in DOMAIN g.vs[v] : g' = ContractEdge(g, v, i)
    BY <1>1
  <1>3. v \in 1 .. Len(g.vs) /\ i \in 1 .. Len(g.vs[v])
    BY IntactFacts
  <1>4. Sound(g', removed)
    BY <1>2, <1>3, IntactFacts, EdgeContracts, Zenon
  <1> QED
    BY <1>4 DEF CallContractEdge, Intact

\* Neighbors know each other.
LEMMA NotNeighbors ==
    ASSUME NEW G, Alive(G), NEW v \in 1 .. Len(G.vs), NEW t \in 1 .. Len(G.vs),
           \A i \in 1 .. Len(G.vs[v]) : G.vs[v][i].to # t
    PROVE  \A k \in 1 .. Len(G.vs[t]) : G.vs[t][k].to # v
  <1> SUFFICES ASSUME NEW k \in 1 .. Len(G.vs[t]), G.vs[t][k].to = v PROVE FALSE
    OBVIOUS
  <1>1. PICK A : Whole(G, A, {t}, t)
    BY WholeFacts, Zenon
  <1>2. Whole2(G, t, k, G.vs[t][k].to, G.vs[t][k].rev)
    BY <1>1, WholeMates, Zenon
  <1> QED
    BY <1>2 DEF Whole2

\* A call of contractEdgeSparseTarget or contractSparseTargetNoEdge.
LEMMA SparseIntact ==
    ASSUME Intact, CallContractSparse
    PROVE  Intact'
  <1>1. PICK v \in Vertices, t \in Vertices :
           \/ \E i \in DOMAIN g.vs[v] : g.vs[v][i].to = t /\ g' = ContractEdgeSparseTarget(g, v, i)
           \/ v # t /\ t \notin Neighbors(v) /\ g' = ContractSparseTargetNoEdge(g, v, t)
    BY DEF CallContractSparse, Call
  <1>2. /\ v \in 1 .. Len(g.vs) /\ t \in 1 .. Len(g.vs) /\ Sound(g, removed)
        /\ Len(removed) \in Nat /\ DOMAIN g.vs[v] = 1 .. Len(g.vs[v])
    BY IntactFacts
  <1>3. Sound(g', removed)
    <2>1. ASSUME NEW i \in DOMAIN g.vs[v], g' = ContractEdgeSparseTarget(g, v, i)
          PROVE  Sound(g', removed)
      BY <1>2, <2>1, SparseEdgeContracts
    <2>2. ASSUME v # t, t \notin Neighbors(v), g' = ContractSparseTargetNoEdge(g, v, t)
          PROVE  Sound(g', removed)
      <3>1. \A i \in 1 .. Len(g.vs[v]) : g.vs[v][i].to # t
        BY <1>2, <2>2 DEF Neighbors
      <3>2. \A k \in 1 .. Len(g.vs[t]) : g.vs[t][k].to # v
        BY <1>2, <3>1, NotNeighbors, Zenon DEF Sound
      <3> QED
        BY <1>2, <2>2, <3>2, TargetContracts
    <2> QED
      BY <1>1, <2>1, <2>2
  <1> QED
    BY <1>3 DEF CallContractSparse, Intact

\* The graph is copied, or sent and read again.
LEMMA CopyIntact ==
    ASSUME Intact, CallCopy
    PROVE  Intact'
  <1>1. removed = <<>> /\ removed' = removed /\ (g' = Simplify(g) \/ g' = Transmit(g))
    BY DEF CallCopy, Call
  <1>2. Sound(g, <<>>)
    BY <1>1 DEF Intact
  <1>3. Sound(g', <<>>)
    BY <1>1, <1>2, RebuildKeeps, TransmitKeeps DEF Simplify
  <1> QED
    BY <1>1, <1>3 DEF Intact

-----------------------------------------------------------------------------
(* Theorems.                                                                 *)

\* For every graph, every number of calls and every choice of edges and sets: NewEdge,
\* setEdgeWeight, deleteEdge, deleteVertex, reInsertVertex, contractVertexSet, the
\* contractions of one edge and the copies of a graph leave adjacency arrays whose
\* edges are paired, degrees and edge counts that agree with them, and names that are
\* where the two maps and the stack of deleted blocks say.
THEOREM StaysIntact == Spec => []Intact
  <1>1. Init => Intact
    BY InitIntact
  <1>2. Intact /\ [Next]_vars => Intact'
    <2> SUFFICES ASSUME Intact, [Next]_vars PROVE Intact'
      OBVIOUS
    <2>1. CASE UNCHANGED vars
      BY <2>1 DEF Intact, vars
    <2> QED
      BY <2>1, NewEdgeIntact, SetIntact, DeleteEdgeIntact, DeleteVertexIntact, ReInsertIntact,
         ContractSetIntact, ContractEdgeIntact, SparseIntact, CopyIntact DEF Next
  <1> QED
    BY <1>1, <1>2, PTL DEF Spec

\* Both copies of every edge point to each other and agree.
LEMMA LinkedHolds ==
    ASSUME Intact
    PROVE  Linked
  <1>1. /\ Alive(g) /\ Len(g.vs) \in Nat /\ Vertices = 1 .. Len(g.vs)
        /\ \A v \in Vertices : DOMAIN g.vs[v] = 1 .. Len(g.vs[v])
    BY IntactFacts DEF Sound
  <1>2. SUFFICES ASSUME NEW v \in Vertices, NEW i \in DOMAIN g.vs[v], NEW e, e = g.vs[v][i]
                 PROVE  /\ e.rev \in DOMAIN g.vs[e.to]
                        /\ g.vs[e.to][e.rev] = RevEdge(v, e.w, i)
                        /\ e.to # v
                        /\ \A j \in DOMAIN g.vs[v] : g.vs[v][j].to = e.to => j = i
    BY DEF Linked
  <1>3. v \in 1 .. Len(g.vs) /\ i \in 1 .. Len(g.vs[v])
    BY <1>1
  <1>4. PICK A : Whole(g, A, {v}, v)
    BY <1>1, <1>3, WholeFacts, Zenon
  <1>5. Whole2(g, v, i, e.to, e.rev) /\ g.vs \in Adj
    BY <1>2, <1>3, <1>4, WholeMates, Zenon DEF Whole
  <1> DEFINE t == e.to
             r == e.rev
             f == g.vs[t][r]
  <1>6. /\ t \in 1 .. Len(g.vs) /\ t # v /\ r \in 1 .. Len(g.vs[t])
        /\ f.to = v /\ f.w = e.w /\ f.rev = i
        /\ \A k \in 1 .. Len(g.vs[v]) : g.vs[v][k].to = t => k = i
    BY <1>2, <1>5, Zenon DEF Whole2
  <1>7. f \in Edge
    BY <1>5, <1>6, RowFacts
  <1>8. f = RevEdge(v, e.w, i)
    <2> HIDE DEF f
    <2> QED
      BY <1>6, <1>7 DEF Edge, RevEdge
  <1> QED
    BY <1>1, <1>6, <1>8, Zenon

\* The cached degrees and the number of edges are those of the arrays.
LEMMA DegreesHold ==
    ASSUME Intact
    PROVE  DegreesAgree
  <1>1. /\ Alive(g) /\ Len(g.vs) \in Nat /\ Vertices = 1 .. Len(g.vs)
        /\ \A v \in Vertices : DOMAIN g.vs[v] = 1 .. Len(g.vs[v])
    BY IntactFacts DEF Sound
  <1>2. PICK A, c : Live(g, A, c, {}, {}, 0)
    BY <1>1 DEF Alive
  <1>3. ASSUME NEW v \in Vertices
        PROVE  g.deg[v] = SumFunction([i \in DOMAIN g.vs[v] |-> g.vs[v][i].w])
    <2> DEFINE s == g.vs[v]
               f == [i \in DOMAIN s |-> s[i].w]
    <2>1. g.deg[v] = RowSum(s)
      BY <1>1, <1>2, AliveFacts
    <2>2. RowSum(s) = Sum(f, DOMAIN s)
      BY DEF RowSum, Weight
    <2>3. DOMAIN f = DOMAIN s
      OBVIOUS
    <2> HIDE DEF f
    <2>4. SumFunction(f) = Sum(f, DOMAIN s)
      BY <2>3 DEF SumFunction, Sum
    <2> QED
      BY <2>1, <2>2, <2>4 DEF f
  <1>4. g.m = SumFunction([v \in Vertices |-> Len(g.vs[v])])
    <2> DEFINE f == [v \in Vertices |-> Len(g.vs[v])]
               N == 1 .. Len(g.vs)
    <2>1. g.m = Sum(c, N) + 0 /\ c \in [N -> Int]
      BY <1>2 DEF Live
    <2>2. \A v \in N : c[v] = f[v] /\ c[v] \in Int
      BY <1>1, <1>2, <2>1, AliveFacts
    <2>3. IsFiniteSet(N)
      BY <1>1, FS_Interval
    <2>4. DOMAIN f = N
      BY <1>1
    <2> HIDE DEF f, N
    <2>5. Sum(c, N) = Sum(f, N)
      BY <2>2, <2>3, SumSame
    <2>6. Sum(c, N) \in Int
      BY <2>2, <2>3, SumInt
    <2>7. SumFunction(f) = Sum(f, N)
      BY <2>4 DEF SumFunction, Sum
    <2>8. g.m = SumFunction(f)
      BY <2>1, <2>5, <2>6, <2>7
    <2> QED
      BY <2>8 DEF f
  <1> QED
    BY <1>3, <1>4 DEF DegreesAgree

\* Every name is where its vertex is, or in a block of the stack.
LEMMA PlacedHolds ==
    ASSUME Intact
    PROVE  Placed
  <1> DEFINE n == Len(g.vs)
  <1>1. /\ Named(n, g.last, g.cont, g.pos, removed) /\ n \in Nat /\ Vertices = 1 .. n
        /\ Len(removed) \in Nat
    BY IntactFacts DEF Sound
  <1>2. DOMAIN g.pos = 1 .. Len(g.pos) /\ \A x \in 1 .. Len(g.pos) : g.pos[x] \in Nat
    BY <1>1, LenProperties, ElementOfSeq DEF Named
  <1>3. DOMAIN removed = 1 .. Len(removed)
    BY LenProperties DEF Intact
  <1>4. \A x \in DOMAIN g.pos : \A v \in Vertices : x \in g.cont[v] <=> g.pos[x] = v
    BY <1>1, <1>2, Zenon DEF Named, Inverse2
  <1>5. ASSUME NEW k \in DOMAIN removed, NEW x \in removed[k].cont
        PROVE  g.pos[x] > n
    <2>1. k \in 1 .. Len(removed) /\ x \in 1 .. Len(g.pos) /\ g.pos[x] >= n + Len(removed) - k + 1
      BY <1>1, <1>3, <1>5 DEF Named, Below
    <2>2. g.pos[x] \in Nat
      BY <1>2, <2>1
    <2> HIDE DEF n
    <2> QED
      BY <1>1, <2>1, <2>2
  <1> QED
    BY <1>4, <1>5 DEF Placed

\* For every graph and any sequence of calls: the two copies of an edge hold each
\* other's index and one weight, without loops and parallel edges, so no reverse index
\* is left stale by internalDeleteEdge or by the renaming of the last vertex.
THEOREM EdgesLinked == Spec => []Linked
  BY StaysIntact, LinkedHolds, PTL

\* For every graph and any sequence of calls: weighted_degree is the sum of the weights
\* in the adjacency array of a vertex, and num_edges the number of stored edges.
THEOREM DegreesRight == Spec => []DegreesAgree
  BY StaysIntact, DegreesHold, PTL

\* For every graph and any sequence of calls: current_position and contained_in_this are
\* inverse to each other, and the names of a deleted vertex stay behind the last vertex
\* until it is inserted again, while contractions go on renaming vertices.
THEOREM NamesPlaced == Spec => []Placed
  BY StaysIntact, PlacedHolds, PTL

=============================================================================

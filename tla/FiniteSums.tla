------------------------------ MODULE FiniteSums ------------------------------
(***************************************************************************)
(* Sums of a function over a finite set, SumFunctionOnSet of the module    *)
(* Functions: what the recursive function behind it computes, by induction *)
(* over the set.  Induction is stated for sets of sets rather than for a   *)
(* predicate, so that it can be applied: a smallest counterexample exists  *)
(* since strict inclusion of finite sets is well-founded.                  *)
(***************************************************************************)
EXTENDS Integers, FiniteSets, Functions, FiniteSetTheorems, TLAPS

\* If a set belongs to T when its strict subsets do, T has all subsets of S.
LEMMA SubsetInduction ==
    ASSUME NEW S, IsFiniteSet(S), NEW T,
           \A U \in SUBSET S : (\A V \in SUBSET U : V # U => V \in T) => U \in T
    PROVE  \A U \in SUBSET S : U \in T
  <1> DEFINE Bad == (SUBSET S) \ T
  <1>1. IsWellFoundedOn(StrictSubsetOrdering(S), SUBSET S)
    BY FS_StrictSubsetOrderingWellFounded, FS_FiniteSubsetsOfFinite
  <1>2. SUFFICES ASSUME Bad # {} PROVE FALSE
    OBVIOUS
  <1>3. \E U \in Bad : \A V \in Bad : <<V, U>> \notin StrictSubsetOrdering(S)
    <2>1. Bad \subseteq SUBSET S
      OBVIOUS
    <2> HIDE DEF Bad
    <2> QED
      BY <1>1, <1>2, <2>1, WFMin
  <1>4. PICK U \in Bad : \A V \in Bad : <<V, U>> \notin StrictSubsetOrdering(S)
    BY <1>3
  <1>5. \A V \in SUBSET U : V # U => V \in T
    BY <1>4 DEF StrictSubsetOrdering
  <1> QED
    BY <1>5

-----------------------------------------------------------------------------
(* The equation of the sum.                                                  *)

Sum(f, S) == SumFunctionOnSet(f, S)
Chosen(s) == CHOOSE x \in s : TRUE
IsSumOf(iter, f, S) ==
    iter = [s \in SUBSET S |-> IF s = {} THEN 0 ELSE f[Chosen(s)] + iter[s \ {Chosen(s)}]]

LEMMA ChosenIn == ASSUME NEW s, s # {} PROVE Chosen(s) \in s
  BY DEF Chosen

LEMMA SumIsChosen ==
    ASSUME NEW f, NEW S
    PROVE  Sum(f, S) = (CHOOSE iter : IsSumOf(iter, f, S))[S]
  BY DEF Sum, SumFunctionOnSet, FoldFunctionOnSet, MapThenFoldSet, IsSumOf, Chosen

\* At most one function satisfies the recursion.
LEMMA SumIsUnique ==
    ASSUME NEW f, NEW S, IsFiniteSet(S), NEW g, IsSumOf(g, f, S), NEW h, IsSumOf(h, f, S)
    PROVE  g[S] = h[S]
  <1> DEFINE T == {U \in SUBSET S : g[U] = h[U]}
  <1>1. ASSUME NEW U \in SUBSET S, \A V \in SUBSET U : V # U => V \in T
        PROVE  U \in T
    <2>1. CASE U = {}
      BY <2>1 DEF IsSumOf
    <2>2. CASE U # {}
      <3>1. U \ {Chosen(U)} \in T
        BY <1>1, <2>2, ChosenIn
      <3>2. /\ g[U] = f[Chosen(U)] + g[U \ {Chosen(U)}]
            /\ h[U] = f[Chosen(U)] + h[U \ {Chosen(U)}]
        BY <2>2 DEF IsSumOf
      <3> QED
        BY <3>1, <3>2
    <2> QED
      BY <2>1, <2>2
  <1> HIDE DEF T
  <1>2. \A U \in SUBSET S : U \in T
    BY <1>1, SubsetInduction
  <1> QED
    BY <1>2 DEF T

\* What the recursive definition was meant to say.
LEMMA SumEquation ==
    ASSUME NEW f, NEW S, IsFiniteSet(S)
    PROVE  Sum(f, S) = IF S = {} THEN 0 ELSE f[Chosen(S)] + Sum(f, S \ {Chosen(S)})
  <1> DEFINE Step(U) == IF U = {} THEN 0 ELSE f[Chosen(U)] + Sum(f, U \ {Chosen(U)})
             T == {U \in SUBSET S : Sum(f, U) = Step(U)}
  <1>1. ASSUME NEW U \in SUBSET S, \A V \in SUBSET U : V # U => V \in T
        PROVE  U \in T
    <2> DEFINE h == [s \in SUBSET U |-> IF s = U THEN Step(U) ELSE Sum(f, s)]
    <2>1. \A s \in SUBSET U : h[s] = Step(s)
      BY <1>1
    <2>2. \A s \in SUBSET U : s # {} => h[s \ {Chosen(s)}] = Sum(f, s \ {Chosen(s)})
      BY ChosenIn
    <2>3. IsSumOf(h, f, U)
      <3>1. ASSUME NEW s \in SUBSET U
            PROVE  h[s] = IF s = {} THEN 0 ELSE f[Chosen(s)] + h[s \ {Chosen(s)}]
        BY <2>1, <2>2
      <3> HIDE DEF h
      <3>2. h = [s \in SUBSET U |-> h[s]]
        BY DEF h
      <3> QED
        BY <3>1, <3>2 DEF IsSumOf
    <2> HIDE DEF h
    <2>4. IsSumOf(CHOOSE iter : IsSumOf(iter, f, U), f, U)
      BY <2>3
    <2>5. IsFiniteSet(U)
      BY FS_Subset
    <2>6. Sum(f, U) = h[U]
      BY <2>3, <2>4, <2>5, SumIsUnique, SumIsChosen
    <2> QED
      BY <2>1, <2>6
  <1> HIDE DEF T
  <1>2. \A U \in SUBSET S : U \in T
    BY <1>1, SubsetInduction
  <1> QED
    BY <1>2 DEF T

LEMMA SumEmpty == ASSUME NEW f PROVE Sum(f, {}) = 0
  BY SumEquation, FS_EmptySet

-----------------------------------------------------------------------------
(* Laws of sums of integers.                                                 *)

LEMMA SumInt ==
    ASSUME NEW f, NEW S, IsFiniteSet(S), \A x \in S : f[x] \in Int
    PROVE  Sum(f, S) \in Int
  <1> DEFINE T == {U \in SUBSET S : Sum(f, U) \in Int}
  <1>1. ASSUME NEW U \in SUBSET S, \A V \in SUBSET U : V # U => V \in T
        PROVE  U \in T
    <2>1. IsFiniteSet(U)
      BY FS_Subset
    <2>2. CASE U = {}
      BY <2>2, SumEmpty
    <2>3. CASE U # {}
      <3>1. Sum(f, U \ {Chosen(U)}) \in Int /\ f[Chosen(U)] \in Int
        BY <1>1, <2>3, ChosenIn
      <3> QED
        BY <2>1, <2>3, <3>1, SumEquation
    <2> QED
      BY <2>2, <2>3
  <1> HIDE DEF T
  <1>2. \A U \in SUBSET S : U \in T
    BY <1>1, SubsetInduction
  <1> QED
    BY <1>2 DEF T

\* Any element may be taken out first.
LEMMA SumSplit ==
    ASSUME NEW f, NEW S, IsFiniteSet(S), \A x \in S : f[x] \in Int
    PROVE  \A x \in S : Sum(f, S) = f[x] + Sum(f, S \ {x})
  <1> DEFINE T == {U \in SUBSET S : \A x \in U : Sum(f, U) = f[x] + Sum(f, U \ {x})}
  <1>1. ASSUME NEW U \in SUBSET S, \A V \in SUBSET U : V # U => V \in T
        PROVE  U \in T
    <2> SUFFICES ASSUME NEW x \in U PROVE Sum(f, U) = f[x] + Sum(f, U \ {x})
      OBVIOUS
    <2> DEFINE c == Chosen(U)
    <2>1. c \in U
      BY ChosenIn
    <2> HIDE DEF c
    <2>2. Sum(f, U) = f[c] + Sum(f, U \ {c})
      BY SumEquation, FS_Subset DEF c
    <2>3. CASE x # c
      <3>1. x \in U \ {c} /\ c \in U \ {x} /\ (U \ {c}) \ {x} = (U \ {x}) \ {c}
        BY <2>1, <2>3
      <3>2. U \ {c} \in T /\ U \ {x} \in T
        BY <1>1, <2>1
      <3>3. Sum(f, U \ {c}) = f[x] + Sum(f, (U \ {c}) \ {x})
        BY <3>1, <3>2
      <3>4. Sum(f, U \ {x}) = f[c] + Sum(f, (U \ {x}) \ {c})
        BY <3>1, <3>2
      <3>5. f[x] \in Int /\ f[c] \in Int /\ Sum(f, (U \ {x}) \ {c}) \in Int
        BY <2>1, SumInt, FS_Subset
      <3>6. Sum(f, (U \ {c}) \ {x}) = Sum(f, (U \ {x}) \ {c})
        BY <3>1
      <3> QED
        BY <2>2, <3>3, <3>4, <3>5, <3>6
    <2> QED
      BY <2>2, <2>3
  <1> HIDE DEF T
  <1>2. \A U \in SUBSET S : U \in T
    BY <1>1, SubsetInduction
  <1> QED
    BY <1>2 DEF T

\* Elements are added one by one.
LEMMA AddingInduction ==
    ASSUME NEW S, IsFiniteSet(S), NEW T, {} \in T,
           \A U \in SUBSET S : \A x \in S \ U : U \in T => U \cup {x} \in T
    PROVE  \A U \in SUBSET S : U \in T
  <1>1. ASSUME NEW U \in SUBSET S, \A V \in SUBSET U : V # U => V \in T
        PROVE  U \in T
    <2>1. CASE U # {}
      <3>1. PICK x \in U : TRUE
        BY <2>1
      <3>2. U \ {x} \in T /\ U = (U \ {x}) \cup {x}
        BY <1>1
      <3> QED
        BY <3>2
    <2> QED
      BY <2>1
  <1> QED
    BY <1>1, SubsetInduction

LEMMA SumInsert ==
    ASSUME NEW f, NEW S, IsFiniteSet(S), NEW x, x \notin S,
           f[x] \in Int, \A y \in S : f[y] \in Int
    PROVE  Sum(f, S \cup {x}) = f[x] + Sum(f, S)
  <1>1. IsFiniteSet(S \cup {x}) /\ (S \cup {x}) \ {x} = S /\ x \in S \cup {x}
    BY FS_AddElement
  <1>2. \A y \in S \cup {x} : f[y] \in Int
    OBVIOUS
  <1> QED
    BY <1>1, <1>2, SumSplit

LEMMA SumSame ==
    ASSUME NEW f, NEW g, NEW S, IsFiniteSet(S), \A x \in S : f[x] = g[x]
    PROVE  Sum(f, S) = Sum(g, S)
  <1> DEFINE T == {U \in SUBSET S : Sum(f, U) = Sum(g, U)}
  <1>1. ASSUME NEW U \in SUBSET S, \A V \in SUBSET U : V # U => V \in T
        PROVE  U \in T
    <2>1. CASE U = {}
      BY <2>1, SumEmpty
    <2>2. CASE U # {}
      <3>1. Chosen(U) \in U /\ U \ {Chosen(U)} \in T
        BY <1>1, <2>2, ChosenIn
      <3>2. IsFiniteSet(U)
        BY FS_Subset
      <3> QED
        BY <2>2, <3>1, <3>2, SumEquation
    <2> QED
      BY <2>1, <2>2
  <1> HIDE DEF T
  <1>2. \A U \in SUBSET S : U \in T
    BY <1>1, SubsetInduction
  <1> QED
    BY <1>2 DEF T

LEMMA SumMonotone ==
    ASSUME NEW f, NEW g, NEW S, IsFiniteSet(S),
           \A x \in S : f[x] \in Int /\ g[x] \in Int /\ f[x] <= g[x]
    PROVE  Sum(f, S) <= Sum(g, S)
  <1> DEFINE T == {U \in SUBSET S : Sum(f, U) <= Sum(g, U)}
  <1>1. {} \in T
    BY SumEmpty
  <1>2. ASSUME NEW U \in SUBSET S, NEW x \in S \ U, U \in T
        PROVE  U \cup {x} \in T
    <2>1. IsFiniteSet(U)
      BY FS_Subset
    <2>2. Sum(f, U) \in Int /\ Sum(g, U) \in Int
      BY <2>1, SumInt
    <2>3. /\ Sum(f, U \cup {x}) = f[x] + Sum(f, U)
          /\ Sum(g, U \cup {x}) = g[x] + Sum(g, U)
      BY <2>1, SumInsert
    <2>4. Sum(f, U) <= Sum(g, U) /\ f[x] <= g[x] /\ f[x] \in Int /\ g[x] \in Int
      BY <1>2
    <2>5. Sum(f, U \cup {x}) <= Sum(g, U \cup {x})
      BY <2>2, <2>3, <2>4
    <2> QED
      BY <2>5
  <1> HIDE DEF T
  <1>3. \A U \in SUBSET S : U \in T
    BY <1>1, <1>2, AddingInduction
  <1> QED
    BY <1>3 DEF T

\* Terms that are 0 add nothing.
LEMMA SumZero ==
    ASSUME NEW f, NEW S, IsFiniteSet(S), \A x \in S : f[x] = 0
    PROVE  Sum(f, S) = 0
  <1> DEFINE T == {U \in SUBSET S : Sum(f, U) = 0}
  <1>1. {} \in T
    BY SumEmpty
  <1>2. ASSUME NEW U \in SUBSET S, NEW x \in S \ U, U \in T
        PROVE  U \cup {x} \in T
    <2>1. IsFiniteSet(U) /\ f[x] = 0 /\ \A y \in U : f[y] \in Int
      BY FS_Subset
    <2>2. Sum(f, U \cup {x}) = f[x] + Sum(f, U)
      BY <2>1, SumInsert
    <2>3. Sum(f, U \cup {x}) = 0
      BY <1>2, <2>1, <2>2
    <2> QED
      BY <2>3
  <1> HIDE DEF T
  <1>3. \A U \in SUBSET S : U \in T
    BY <1>1, <1>2, AddingInduction
  <1> QED
    BY <1>3 DEF T

\* A sum whose terms are 0 but for one is that one.
LEMMA SumSingle ==
    ASSUME NEW f, NEW S, IsFiniteSet(S), NEW x \in S, f[x] \in Int,
           \A y \in S \ {x} : f[y] = 0
    PROVE  Sum(f, S) = f[x]
  <1>1. IsFiniteSet(S \ {x})
    BY FS_Subset
  <1>2. Sum(f, S \ {x}) = 0
    BY <1>1, SumZero
  <1>3. \A y \in S : f[y] \in Int
    OBVIOUS
  <1>4. Sum(f, S) = f[x] + Sum(f, S \ {x})
    BY <1>3, SumSplit
  <1> QED
    BY <1>2, <1>4

\* No term of natural numbers exceeds their sum.
LEMMA SumBounds ==
    ASSUME NEW f, NEW S, IsFiniteSet(S), \A x \in S : f[x] \in Nat
    PROVE  \A x \in S : f[x] <= Sum(f, S)
  <1> DEFINE z == [x \in S |-> 0]
  <1> SUFFICES ASSUME NEW x \in S PROVE f[x] <= Sum(f, S)
    OBVIOUS
  <1>1. \A y \in S : z[y] = 0
    OBVIOUS
  <1> HIDE DEF z
  <1>2. IsFiniteSet(S \ {x})
    BY FS_Subset
  <1>3. Sum(z, S \ {x}) = 0
    BY <1>1, <1>2, SumZero
  <1>4. Sum(z, S \ {x}) <= Sum(f, S \ {x})
    <2>1. \A y \in S \ {x} : z[y] \in Int /\ f[y] \in Int /\ z[y] <= f[y]
      BY <1>1
    <2> QED
      BY <1>2, <2>1, SumMonotone
  <1>5. \A y \in S : f[y] \in Int
    OBVIOUS
  <1>6. Sum(f, S) = f[x] + Sum(f, S \ {x})
    BY <1>5, SumSplit
  <1>7. Sum(f, S \ {x}) \in Int /\ f[x] \in Int
    BY <1>2, <1>5, SumInt
  <1> QED
    BY <1>3, <1>4, <1>6, <1>7

\* Sums that are equal have equal terms if none of the one exceeds the other's.
LEMMA SumTight ==
    ASSUME NEW f, NEW g, NEW S, IsFiniteSet(S),
           \A x \in S : f[x] \in Int /\ g[x] \in Int /\ f[x] <= g[x],
           Sum(g, S) <= Sum(f, S)
    PROVE  \A x \in S : f[x] = g[x]
  <1> SUFFICES ASSUME NEW x \in S PROVE f[x] = g[x]
    OBVIOUS
  <1>1. IsFiniteSet(S \ {x})
    BY FS_Subset
  <1>2. Sum(f, S) = f[x] + Sum(f, S \ {x}) /\ Sum(g, S) = g[x] + Sum(g, S \ {x})
    BY SumSplit
  <1>3. Sum(f, S \ {x}) <= Sum(g, S \ {x})
    BY <1>1, SumMonotone
  <1>4. Sum(f, S \ {x}) \in Int /\ Sum(g, S \ {x}) \in Int
    BY <1>1, SumInt
  <1>5. f[x] \in Int /\ g[x] \in Int /\ f[x] <= g[x]
    OBVIOUS
  <1> QED
    BY <1>2, <1>3, <1>4, <1>5

LEMMA SumUnion ==
    ASSUME NEW f, NEW S, IsFiniteSet(S), NEW R, IsFiniteSet(R), R \cap S = {},
           \A x \in R \cup S : f[x] \in Int
    PROVE  Sum(f, R \cup S) = Sum(f, R) + Sum(f, S)
  <1> DEFINE T == {U \in SUBSET S : Sum(f, R \cup U) = Sum(f, R) + Sum(f, U)}
  <1>1. {} \in T
    <2>1. Sum(f, R) \in Int /\ R \cup {} = R
      BY SumInt
    <2> QED
      BY <2>1, SumEmpty
  <1>2. ASSUME NEW U \in SUBSET S, NEW x \in S \ U, U \in T
        PROVE  U \cup {x} \in T
    <2>1. IsFiniteSet(U) /\ IsFiniteSet(R \cup U)
      BY FS_Subset, FS_Union
    <2>2. Sum(f, U) \in Int /\ Sum(f, R) \in Int /\ f[x] \in Int
      BY <2>1, SumInt
    <2>3. Sum(f, U \cup {x}) = f[x] + Sum(f, U)
      BY <2>1, SumInsert
    <2>4. Sum(f, (R \cup U) \cup {x}) = f[x] + Sum(f, R \cup U)
      BY <2>1, SumInsert
    <2>5. Sum(f, R \cup (U \cup {x})) = Sum(f, (R \cup U) \cup {x})
      <3>1. R \cup (U \cup {x}) = (R \cup U) \cup {x}
        OBVIOUS
      <3> QED
        BY <3>1
    <2>6. Sum(f, R \cup U) = Sum(f, R) + Sum(f, U)
      BY <1>2
    <2>7. Sum(f, R \cup (U \cup {x})) = Sum(f, R) + Sum(f, U \cup {x})
      BY <2>2, <2>3, <2>4, <2>5, <2>6
    <2> QED
      BY <2>7
  <1> HIDE DEF T
  <1>3. \A U \in SUBSET S : U \in T
    BY <1>1, <1>2, AddingInduction
  <1> QED
    BY <1>3 DEF T

\* One term is changed.
LEMMA SumChanged ==
    ASSUME NEW f, NEW g, NEW S, IsFiniteSet(S), NEW x \in S,
           \A y \in S : f[y] \in Int /\ g[y] \in Int,
           \A y \in S \ {x} : f[y] = g[y]
    PROVE  Sum(g, S) = Sum(f, S) + g[x] - f[x]
  <1>1. IsFiniteSet(S \ {x})
    BY FS_Subset
  <1>2. Sum(f, S) = f[x] + Sum(f, S \ {x}) /\ Sum(g, S) = g[x] + Sum(g, S \ {x})
    BY SumSplit
  <1>3. Sum(f, S \ {x}) = Sum(g, S \ {x}) /\ Sum(f, S \ {x}) \in Int
    BY <1>1, SumSame, SumInt
  <1>4. f[x] \in Int /\ g[x] \in Int
    OBVIOUS
  <1> QED
    BY <1>2, <1>3, <1>4

-----------------------------------------------------------------------------
(* Sums over pairs, for functions that are antisymmetric, as flows are.      *)

IsFlow(f, N) == \A u, v \in N : f[<<u, v>>] \in Int /\ f[<<u, v>>] = -f[<<v, u>>]

\* The sum over all pairs of an element of X and one of Y.
Across(f, X, Y) == Sum(f, X \X Y)

\* Sums over pairs are integers.
LEMMA AcrossInt ==
    ASSUME NEW N, IsFiniteSet(N), NEW f, IsFlow(f, N), NEW X \in SUBSET N, NEW Y \in SUBSET N
    PROVE  /\ IsFiniteSet(X \X Y)
           /\ \A e \in X \X Y : f[e] \in Int
           /\ Across(f, X, Y) \in Int
  <1>1. IsFiniteSet(X \X Y)
    BY FS_Subset, FS_Product
  <1>2. ASSUME NEW e \in X \X Y PROVE f[e] \in Int
    <2>1. PICK u \in N, v \in N : e = <<u, v>>
      OBVIOUS
    <2>2. f[<<u, v>>] \in Int
      BY DEF IsFlow
    <2> QED
      BY <2>1, <2>2
  <1> QED
    BY <1>1, <1>2, SumInt DEF Across

\* No pairs, and a single one.
LEMMA AcrossOne ==
    ASSUME NEW N, NEW f, IsFlow(f, N)
    PROVE  /\ \A X : Across(f, X, {}) = 0 /\ Across(f, {}, X) = 0
           /\ \A u, v \in N : Across(f, {u}, {v}) = f[<<u, v>>]
  <1>1. ASSUME NEW X PROVE Across(f, X, {}) = 0 /\ Across(f, {}, X) = 0
    <2>1. X \X {} = {} /\ {} \X X = {}
      OBVIOUS
    <2> QED
      BY <2>1, SumEmpty DEF Across
  <1>2. ASSUME NEW u \in N, NEW v \in N PROVE Across(f, {u}, {v}) = f[<<u, v>>]
    <2>0. {u} \X {v} = {<<u, v>>}
      OBVIOUS
    <2>1. {u} \X {v} = {} \cup {<<u, v>>} /\ f[<<u, v>>] \in Int
      BY <2>0 DEF IsFlow
    <2>2. Sum(f, {} \cup {<<u, v>>}) = f[<<u, v>>] + Sum(f, {})
      BY <2>1, FS_EmptySet, SumInsert
    <2> QED
      BY <2>1, <2>2, SumEmpty DEF Across
  <1> QED
    BY <1>1, <1>2

\* Two rectangles side by side.
LEMMA AcrossUnion ==
    ASSUME NEW N, IsFiniteSet(N), NEW f, IsFlow(f, N)
    PROVE  \A X, Y, Z \in SUBSET N :
              Y \cap Z = {} =>
                  /\ Across(f, X, Y \cup Z) = Across(f, X, Y) + Across(f, X, Z)
                  /\ Across(f, Y \cup Z, X) = Across(f, Y, X) + Across(f, Z, X)
  <1> SUFFICES ASSUME NEW X \in SUBSET N, NEW Y \in SUBSET N, NEW Z \in SUBSET N, Y \cap Z = {}
               PROVE  /\ Across(f, X, Y \cup Z) = Across(f, X, Y) + Across(f, X, Z)
                      /\ Across(f, Y \cup Z, X) = Across(f, Y, X) + Across(f, Z, X)
    OBVIOUS
  <1>1. /\ IsFiniteSet(X \X Y) /\ IsFiniteSet(X \X Z)
        /\ \A e \in (X \X Y) \cup (X \X Z) : f[e] \in Int
    BY AcrossInt
  <1>2. /\ IsFiniteSet(Y \X X) /\ IsFiniteSet(Z \X X)
        /\ \A e \in (Y \X X) \cup (Z \X X) : f[e] \in Int
    BY AcrossInt
  <1>3. /\ (X \X Y) \cap (X \X Z) = {} /\ (Y \X X) \cap (Z \X X) = {}
        /\ X \X (Y \cup Z) = (X \X Y) \cup (X \X Z)
        /\ (Y \cup Z) \X X = (Y \X X) \cup (Z \X X)
    OBVIOUS
  <1>4. Sum(f, (X \X Y) \cup (X \X Z)) = Sum(f, X \X Y) + Sum(f, X \X Z)
    BY <1>1, <1>3, SumUnion
  <1>5. Sum(f, (Y \X X) \cup (Z \X X)) = Sum(f, Y \X X) + Sum(f, Z \X X)
    BY <1>2, <1>3, SumUnion
  <1> QED
    BY <1>3, <1>4, <1>5 DEF Across

\* What a vertex receives from each other one, as a sum over pairs, and what it gives,
\* which is the same negated.
LEMMA AcrossColumn ==
    ASSUME NEW N, IsFiniteSet(N), NEW f, IsFlow(f, N), NEW v \in N,
           NEW g, \A u \in N : g[u] = f[<<u, v>>]
    PROVE  \A X \in SUBSET N : Across(f, X, {v}) = Sum(g, X) /\ Across(f, {v}, X) = -Sum(g, X)
  <1> DEFINE T == {X \in SUBSET N : Across(f, X, {v}) = Sum(g, X) /\ Across(f, {v}, X) = -Sum(g, X)}
  <1>1. {} \in T
    BY AcrossOne, SumEmpty
  <1>2. ASSUME NEW X \in SUBSET N, NEW x \in N \ X, X \in T
        PROVE  X \cup {x} \in T
    <2>1. Across(f, X, {v}) = Sum(g, X) /\ Across(f, {v}, X) = -Sum(g, X)
      BY <1>2
    <2> HIDE DEF T
    <2>2. {v} \in SUBSET N /\ {x} \in SUBSET N /\ X \cap {x} = {}
      OBVIOUS
    <2>3. /\ Across(f, {v}, X \cup {x}) = Across(f, {v}, X) + Across(f, {v}, {x})
          /\ Across(f, X \cup {x}, {v}) = Across(f, X, {v}) + Across(f, {x}, {v})
      BY <2>2, AcrossUnion
    <2>4. Across(f, {v}, {x}) = f[<<v, x>>] /\ Across(f, {x}, {v}) = f[<<x, v>>]
      BY AcrossOne
    <2>5. \A u \in N : g[u] \in Int
      BY DEF IsFlow
    <2>6. f[<<v, x>>] = -g[x]
      BY DEF IsFlow
    <2>7. f[<<x, v>>] = g[x] /\ g[x] \in Int
      BY <2>5
    <2>8. IsFiniteSet(X)
      BY FS_Subset
    <2>9. Sum(g, X) \in Int
      BY <2>5, <2>8, SumInt
    <2>10. Sum(g, X \cup {x}) = g[x] + Sum(g, X)
      BY <2>5, <2>8, SumInsert
    <2>11. /\ Across(f, X \cup {x}, {v}) = Sum(g, X \cup {x})
           /\ Across(f, {v}, X \cup {x}) = -Sum(g, X \cup {x})
      BY <2>1, <2>3, <2>4, <2>6, <2>7, <2>9, <2>10
    <2> QED
      BY <2>11 DEF T
  <1> HIDE DEF T
  <1>3. \A X \in SUBSET N : X \in T
    BY <1>1, <1>2, AddingInduction
  <1> QED
    BY <1>3 DEF T

\* What the elements of a set receive in all is what crosses into the set.
LEMMA AcrossCut ==
    ASSUME NEW N, IsFiniteSet(N), NEW f, IsFlow(f, N),
           NEW in, \A v \in N : in[v] = Across(f, N, {v})
    PROVE  \A A \in SUBSET N : Sum(in, A) = Across(f, N \ A, A)
  <1> DEFINE T == {A \in SUBSET N : Sum(in, A) = Across(f, N \ A, A)}
  <1>0. \A X, Y, Z \in SUBSET N :
              Y \cap Z = {} =>
                  /\ Across(f, X, Y \cup Z) = Across(f, X, Y) + Across(f, X, Z)
                  /\ Across(f, Y \cup Z, X) = Across(f, Y, X) + Across(f, Z, X)
    BY AcrossUnion
  <1>1. {} \in T
    BY AcrossOne, SumEmpty
  <1>2. ASSUME NEW A \in SUBSET N, NEW a \in N \ A, A \in T
        PROVE  A \cup {a} \in T
    <2> DEFINE B == N \ (A \cup {a})
               aa == {a}
    <2>1. Sum(in, A) = Across(f, N \ A, A)
      BY <1>2
    <2> HIDE DEF T
    <2>0. N \ A = B \cup aa /\ N = (A \cup B) \cup aa
      OBVIOUS
    <2>2. /\ B \cap aa = {} /\ A \cap aa = {} /\ A \cap B = {} /\ (A \cup B) \cap aa = {}
          /\ B \in SUBSET N /\ aa \in SUBSET N /\ A \cup B \in SUBSET N
      OBVIOUS
    <2> HIDE DEF B
    <2>3. Across(f, aa, aa) = 0
      <3>1. f[<<a, a>>] \in Int /\ f[<<a, a>>] = -f[<<a, a>>]
        BY DEF IsFlow
      <3>2. f[<<a, a>>] = 0
        BY <3>1
      <3>3. Across(f, {a}, {a}) = f[<<a, a>>]
        BY AcrossOne
      <3> QED
        BY <3>2, <3>3
    <2>4. Across(f, aa, A) = -Across(f, A, aa)
      <3> DEFINE g == [u \in N |-> f[<<u, a>>]]
      <3>1. \A u \in N : g[u] = f[<<u, a>>]
        OBVIOUS
      <3> HIDE DEF g
      <3>2. Across(f, A, {a}) = Sum(g, A) /\ Across(f, {a}, A) = -Sum(g, A)
        BY <3>1, AcrossColumn
      <3> QED
        BY <3>2
    <2>5. Sum(in, A \cup aa) = in[a] + Sum(in, A)
      <3>1. ASSUME NEW v \in N PROVE in[v] \in Int
        <4>1. N \in SUBSET N /\ {v} \in SUBSET N
          OBVIOUS
        <4>2. Across(f, N, {v}) \in Int
          BY <4>1, AcrossInt
        <4> QED
          BY <4>2
      <3>2. IsFiniteSet(A)
        BY FS_Subset
      <3> QED
        BY <3>1, <3>2, SumInsert
    <2>6. in[a] = Across(f, N, aa)
      OBVIOUS
    <2> HIDE DEF aa
    <2>7. Across(f, N \ A, A) = Across(f, B, A) + Across(f, aa, A)
      <3>1. Across(f, B \cup aa, A) = Across(f, B, A) + Across(f, aa, A)
        BY <1>0, <2>2
      <3> QED
        BY <2>0, <3>1
    <2>8. Across(f, B, A \cup aa) = Across(f, B, A) + Across(f, B, aa)
      BY <1>0, <2>2
    <2>9. Across(f, N, aa) = Across(f, A, aa) + Across(f, B, aa) + Across(f, aa, aa)
      <3>1. Across(f, A \cup B, aa) = Across(f, A, aa) + Across(f, B, aa)
        BY <1>0, <2>2
      <3>2. Across(f, (A \cup B) \cup aa, aa) = Across(f, A \cup B, aa) + Across(f, aa, aa)
        <4> DEFINE C == A \cup B
        <4>1. C \in SUBSET N /\ aa \in SUBSET N /\ C \cap aa = {}
          BY <2>2
        <4> HIDE DEF C
        <4>2. Across(f, C \cup aa, aa) = Across(f, C, aa) + Across(f, aa, aa)
          BY <1>0, <4>1
        <4> QED
          BY <4>2 DEF C
      <3> QED
        BY <2>0, <3>1, <3>2
    <2>10. /\ Across(f, B, A) \in Int /\ Across(f, A, aa) \in Int /\ Across(f, B, aa) \in Int
      BY <2>2, AcrossInt
    <2>11. Sum(in, A \cup aa) = Across(f, B, A \cup aa)
      BY <2>1, <2>3, <2>4, <2>5, <2>6, <2>7, <2>8, <2>9, <2>10
    <2>12. Sum(in, A \cup {a}) = Across(f, N \ (A \cup {a}), A \cup {a})
      BY <2>11 DEF B, aa
    <2> QED
      BY <2>12 DEF T
  <1> HIDE DEF T
  <1>3. \A A \in SUBSET N : A \in T
    BY <1>1, <1>2, AddingInduction
  <1> QED
    BY <1>3 DEF T
=============================================================================

----------------------------- MODULE FoldProofs ------------------------------
(***************************************************************************)
(* What the models' folds over finite sets and sequences compute, as facts *)
(* to cite.  Induction is over sets of naturals and of finite sets, which   *)
(* well-founded minima justify; a fold's recursion step follows from the    *)
(* existence of a function that satisfies it on the subsets of its domain.  *)
(***************************************************************************)
EXTENDS Integers, Sequences, FiniteSets, Functions, SequencesExt,
        FiniteSetTheorems, WellFoundedInduction, TLAPS

-----------------------------------------------------------------------------
(* A set of naturals that is not empty has a least element: the intervals    *)
(* up to its elements are finite sets, which strict inclusion orders well.   *)
LEMMA LeastOf ==
  ASSUME NEW T \in SUBSET Nat, T # {}
  PROVE  \E n \in T : \A m \in T : n <= m
<1> DEFINE R == StrictSubsetOrdering(Nat)
           I == {0 .. n : n \in T}
<1>1. IsWellFoundedOn(R, FiniteSubsetsOf(Nat))
  BY FS_StrictSubsetOrderingWellFounded
<1>2. \A n \in T : 0..n \in FiniteSubsetsOf(Nat)
  BY FS_Interval DEF FiniteSubsetsOf
<1>3. I \subseteq FiniteSubsetsOf(Nat) /\ I # {}
  BY <1>2
<1> HIDE DEF R
<1>4. \E x \in I : \A y \in I : ~ (<<y, x>> \in R)
  BY <1>1, <1>3, WFMin
<1>5. PICK n \in T : \A m \in T : ~ (<<0..m, 0..n>> \in R)
  BY <1>4
<1>6. ASSUME NEW m \in T, m < n PROVE FALSE
  <2>1. 0..m \subseteq 0..n /\ n \in 0..n /\ n \notin 0..m
    BY <1>6
  <2>2. 0..m \subseteq Nat /\ 0..n \subseteq Nat
    OBVIOUS
  <2>3. <<0..m, 0..n>> \in R
    BY <2>1, <2>2 DEF R, StrictSubsetOrdering
  <2> QED BY <2>3, <1>5
<1> QED BY <1>5, <1>6

(* A set that holds 0 and with a number its successor holds every number. *)
LEMMA CountingUp ==
  ASSUME NEW T, 0 \in T, \A n \in Nat : n \in T => n + 1 \in T
  PROVE  \A n \in Nat : n \in T
<1> DEFINE Missing == Nat \ T
<1>1. SUFFICES ASSUME Missing # {} PROVE FALSE
  OBVIOUS
<1>2. PICK n \in Missing : \A m \in Missing : n <= m
  BY <1>1, LeastOf
<1>3. n # 0 /\ n - 1 \in Nat
  BY <1>2
<1>4. n - 1 \in T
  BY <1>2, <1>3
<1>5. (n - 1) + 1 \in T
  BY <1>3, <1>4
<1> QED BY <1>2, <1>5

(* A set of sets that holds the empty one, and with a set every one with one  *)
(* more element of S, holds S.                                                *)
LEMMA AddingUp ==
  ASSUME NEW S, IsFiniteSet(S), NEW P, {} \in P,
         \A T \in SUBSET S, x \in S : T \in P /\ x \notin T => T \cup {x} \in P
  PROVE  S \in P
<1> DEFINE N == {n \in Nat : \A T \in SUBSET S : Cardinality(T) = n => T \in P}
<1>1. \A T \in SUBSET S : IsFiniteSet(T) /\ Cardinality(T) \in Nat
  BY FS_Subset, FS_CardinalityType
<1>2. 0 \in N
  BY <1>1, FS_EmptySet
<1>3. ASSUME NEW n \in Nat, n \in N PROVE n + 1 \in N
  <2>1. ASSUME NEW T \in SUBSET S, Cardinality(T) = n + 1 PROVE T \in P
    <3>1. T # {}
      <4>1. Cardinality({}) = 0 /\ n + 1 # 0
        BY FS_EmptySet
      <4> HIDE DEF N
      <4> QED BY <2>1, <4>1
    <3>2. PICK x \in T : TRUE
      BY <3>1
    <3>3. IsFiniteSet(T)
      BY <1>1
    <3>4. Cardinality(T \ {x}) = Cardinality(T) - 1
      BY <3>2, <3>3, FS_RemoveElement
    <3>5. T \ {x} \in P /\ (T \ {x}) \cup {x} = T
      BY <1>3, <2>1, <3>2, <3>4
    <3> QED BY <3>2, <3>5
  <2> QED BY <2>1
<1>4. Cardinality(S) \in N
  <2> HIDE DEF N
  <2> QED BY <1>1, <1>2, <1>3, CountingUp
<1> QED BY <1>4

-----------------------------------------------------------------------------
(* A fold's recursion: a function on the subsets of a finite set that takes a *)
(* chosen element out at a time.                                              *)
ChoosesFrom(c, S) == \A T \in SUBSET S : T # {} => c[T] \in T
FoldsOn(h, S, base, c, G) ==
  h = [T \in SUBSET S |-> IF T = {} THEN base ELSE G[c[T]][h[T \ {c[T]}]]]

LEMMA FoldExists ==
  ASSUME NEW S, IsFiniteSet(S), NEW D, NEW base \in D, NEW G \in [S -> [D -> D]],
         NEW c, ChoosesFrom(c, S)
  PROVE  \E h \in [SUBSET S -> D] : FoldsOn(h, S, base, c, G)
<1> DEFINE Up(n) == {T \in SUBSET S : Cardinality(T) <= n}
           Step(h, T) == IF T = {} THEN base ELSE G[c[T]][h[T \ {c[T]}]]
           N == {n \in Nat : \E h \in [Up(n) -> D] : \A T \in Up(n) : h[T] = Step(h, T)}
<1>1. \A T \in SUBSET S : IsFiniteSet(T) /\ Cardinality(T) \in Nat
  BY FS_Subset, FS_CardinalityType
<1>2. ASSUME NEW n \in Nat, NEW T \in Up(n + 1), T # {}
      PROVE  T \ {c[T]} \in Up(n) /\ c[T] \in S
  <2>1. c[T] \in T /\ Cardinality(T \ {c[T]}) = Cardinality(T) - 1
    BY <1>1, <1>2, FS_RemoveElement DEF ChoosesFrom
  <2> QED BY <1>1, <1>2, <2>1
<1>3. 0 \in N
  <2> DEFINE h == [T \in Up(0) |-> base]
  <2>1. \A T \in Up(0) : T = {}
    BY <1>1, FS_EmptySet
  <2>2. h \in [Up(0) -> D] /\ \A T \in Up(0) : h[T] = Step(h, T)
    BY <2>1
  <2> QED BY <2>2
<1>4. ASSUME NEW n \in Nat, n \in N PROVE n + 1 \in N
  <2>1. PICK h \in [Up(n) -> D] : \A T \in Up(n) : h[T] = Step(h, T)
    BY <1>4
  <2> DEFINE g == [T \in Up(n + 1) |-> Step(h, T)]
  <2>2. Up(n) \subseteq Up(n + 1)
    BY <1>1
  <2>3. g \in [Up(n + 1) -> D]
    BY <1>2
  <2>4. \A T \in Up(n) : g[T] = h[T]
    BY <2>1, <2>2
  <2>5. \A T \in Up(n + 1) : g[T] = Step(g, T)
    BY <1>2, <2>4
  <2>6. \E k \in [Up(n + 1) -> D] : \A T \in Up(n + 1) : k[T] = Step(k, T)
    <3> HIDE DEF g, Step, Up
    <3> QED BY <2>3, <2>5
  <2>7. n + 1 \in Nat
    OBVIOUS
  <2> HIDE DEF Step, Up
  <2> QED BY <2>6, <2>7
<1>5. Cardinality(S) \in N
  <2> HIDE DEF N
  <2> QED BY <1>1, <1>3, <1>4, CountingUp
<1>6. Up(Cardinality(S)) = SUBSET S
  BY <1>1, FS_Subset
<1>7. PICK h \in [SUBSET S -> D] : \A T \in SUBSET S : h[T] = Step(h, T)
  BY <1>5, <1>6
<1>8. h = [T \in SUBSET S |-> Step(h, T)]
  BY <1>7
<1> QED BY <1>8 DEF FoldsOn

SameStep(g, h, c, S) ==
  /\ g[{}] = h[{}]
  /\ \A T \in SUBSET S : T # {} /\ g[T \ {c[T]}] = h[T \ {c[T]}] => g[T] = h[T]

(* Two functions that one more element leaves equal agree on every subset. *)
LEMMA FoldsAgree ==
  ASSUME NEW R, IsFiniteSet(R), NEW c, ChoosesFrom(c, R), NEW g, NEW h, SameStep(g, h, c, R)
  PROVE  \A T \in SUBSET R : g[T] = h[T]
<1> DEFINE N == {n \in Nat : \A T \in SUBSET R : Cardinality(T) = n => g[T] = h[T]}
<1>1. \A T \in SUBSET R : IsFiniteSet(T) /\ Cardinality(T) \in Nat
  BY FS_Subset, FS_CardinalityType
<1>2. 0 \in N
  BY <1>1, FS_EmptySet DEF SameStep
<1>3. ASSUME NEW n \in Nat, n \in N PROVE n + 1 \in N
  <2>1. SUFFICES ASSUME NEW T \in SUBSET R, Cardinality(T) = n + 1 PROVE g[T] = h[T]
    OBVIOUS
  <2>2. T # {}
    <3>1. Cardinality({}) = 0 /\ n + 1 # 0
      BY FS_EmptySet
    <3> HIDE DEF N
    <3> QED BY <2>1, <3>1
  <2>3. c[T] \in T
    BY <2>2 DEF ChoosesFrom
  <2>4. Cardinality(T \ {c[T]}) = n
    BY <1>1, <2>1, <2>3, FS_RemoveElement
  <2>5. g[T \ {c[T]}] = h[T \ {c[T]}]
    BY <1>3, <2>4
  <2> QED BY <2>2, <2>5 DEF SameStep
<1>4. \A T \in SUBSET R : Cardinality(T) \in N
  <2> HIDE DEF N
  <2> QED BY <1>1, <1>2, <1>3, CountingUp
<1> QED BY <1>4

-----------------------------------------------------------------------------
(* Sums of naturals over a finite set, in whatever order they are added up.   *)
Picks(S) == [T \in SUBSET S |-> CHOOSE x \in T : TRUE]
Adds(f, S) == [x \in S |-> [v \in Nat |-> f[x] + v]]

IsSumOn(h, f, S) ==
  /\ h \in [SUBSET S -> Nat]
  /\ h[{}] = 0
  /\ \A T \in SUBSET S : T # {} => h[T] = f[Picks(S)[T]] + h[T \ {Picks(S)[T]}]

LEMMA PicksChoose == ASSUME NEW S PROVE ChoosesFrom(Picks(S), S)
<1>1. \A T \in SUBSET S : T # {} => (CHOOSE x \in T : TRUE) \in T
  OBVIOUS
<1> QED BY <1>1 DEF Picks, ChoosesFrom

(* The sum's recursion, on every subset. *)
LEMMA SumIsFold ==
  ASSUME NEW S, IsFiniteSet(S), NEW f, \A x \in S : f[x] \in Nat
  PROVE  \E h : IsSumOn(h, f, S) /\ SumFunctionOnSet(f, S) = h[S]
<1> DEFINE Eq(h) == h = [s \in SUBSET S |-> IF s = {} THEN 0
                                 ELSE f[CHOOSE x \in s : TRUE] + h[s \ {CHOOSE x \in s : TRUE}]]
           c == Picks(S)
           G == Adds(f, S)
           D == Nat
           k == CHOOSE h : Eq(h)
<1>1. SumFunctionOnSet(f, S) = k[S]
  BY Zenon DEF SumFunctionOnSet, FoldFunctionOnSet, MapThenFoldSet
<1>2. ChoosesFrom(c, S)
  BY PicksChoose
<1>3. G \in [S -> [D -> D]] /\ 0 \in D
  BY DEF Adds
<1>4. PICK h \in [SUBSET S -> D] : FoldsOn(h, S, 0, c, G)
  <2> HIDE DEF c, G, D
  <2> QED BY <1>2, <1>3, FoldExists
<1>5. /\ h[{}] = 0
      /\ \A T \in SUBSET S : T # {} => h[T] = f[c[T]] + h[T \ {c[T]}]
  <2>1. \A T \in SUBSET S : h[T] = IF T = {} THEN 0 ELSE G[c[T]][h[T \ {c[T]}]]
    BY <1>4 DEF FoldsOn
  <2>2. \A x \in S, v \in Nat : G[x][v] = f[x] + v
    BY DEF Adds
  <2> HIDE DEF c, G
  <2>3. \A T \in SUBSET S : T # {} => c[T] \in S /\ h[T \ {c[T]}] \in Nat
    BY <1>2 DEF ChoosesFrom
  <2> QED BY <2>1, <2>2, <2>3
<1>6. \A T \in SUBSET S : c[T] = CHOOSE x \in T : TRUE
  BY DEF Picks
<1>7. Eq(h)
  <2> HIDE DEF c
  <2> QED BY <1>5, <1>6
<1>8. Eq(k)
  BY <1>7
<1> HIDE DEF k
<1>9. /\ k[{}] = 0
      /\ \A T \in SUBSET S : T # {} => k[T] = f[c[T]] + k[T \ {c[T]}]
  <2> DEFINE rhs == [s \in SUBSET S |-> IF s = {} THEN 0
                                 ELSE f[CHOOSE x \in s : TRUE] + k[s \ {CHOOSE x \in s : TRUE}]]
  <2>1. rhs[{}] = 0
    OBVIOUS
  <2>2. \A T \in SUBSET S : T # {} => rhs[T] = f[c[T]] + k[T \ {c[T]}]
    <3> HIDE DEF c
    <3> QED BY <1>6
  <2>3. k = rhs
    BY <1>8
  <2> HIDE DEF rhs
  <2> QED BY <2>1, <2>2, <2>3
<1> HIDE DEF c, G, D
<1>10. \A T \in SUBSET S : k[T] = h[T]
  <2>1. SameStep(k, h, c, S)
    BY <1>5, <1>9 DEF SameStep
  <2> HIDE DEF Eq
  <2> QED BY <1>2, <2>1, FoldsAgree
<1>11. SumFunctionOnSet(f, S) = h[S]
  BY <1>1, <1>10
<1> QED BY <1>4, <1>5, <1>11 DEF c, D, IsSumOn

LEMMA SumIsNat ==
  ASSUME NEW S, IsFiniteSet(S), NEW f, \A x \in S : f[x] \in Nat
  PROVE  SumFunctionOnSet(f, S) \in Nat
<1>1. PICK h : IsSumOn(h, f, S) /\ SumFunctionOnSet(f, S) = h[S]
  BY SumIsFold
<1> QED BY <1>1 DEF IsSumOn

LEMMA SumOfNone == ASSUME NEW f PROVE SumFunctionOnSet(f, {}) = 0
<1>1. IsFiniteSet({}) /\ \A x \in {} : f[x] \in Nat
  BY FS_EmptySet
<1>2. PICK h : IsSumOn(h, f, {}) /\ SumFunctionOnSet(f, {}) = h[{}]
  BY <1>1, SumIsFold
<1> QED BY <1>2 DEF IsSumOn

(* The same recursion from one set to the next. *)
LEMMA SumTakes ==
  ASSUME NEW S, IsFiniteSet(S), S # {}, NEW f, \A x \in S : f[x] \in Nat
  PROVE  \E x \in S : SumFunctionOnSet(f, S) = f[x] + SumFunctionOnSet(f, S \ {x})
<1> DEFINE x == Picks(S)[S]
           R == S \ {x}
           c == Picks(R)
<1>1. PICK h : IsSumOn(h, f, S) /\ SumFunctionOnSet(f, S) = h[S]
  BY SumIsFold
<1>2. x \in S /\ h[S] = f[x] + h[R]
  BY <1>1, PicksChoose DEF IsSumOn, ChoosesFrom
<1>3. IsFiniteSet(R) /\ \A y \in R : f[y] \in Nat
  BY FS_RemoveElement
<1> HIDE DEF x
<1>4. PICK g : IsSumOn(g, f, R) /\ SumFunctionOnSet(f, R) = g[R]
  <2> HIDE DEF R
  <2> QED BY <1>3, SumIsFold
<1>5. \A T \in SUBSET R : Picks(R)[T] = Picks(S)[T]
  BY DEF Picks
<1>6. \A T \in SUBSET R : T # {} =>
         g[T] = f[c[T]] + g[T \ {c[T]}] /\ h[T] = f[c[T]] + h[T \ {c[T]}]
  BY <1>1, <1>4, <1>5 DEF IsSumOn
<1> HIDE DEF c, R
<1>7. \A T \in SUBSET R : g[T] = h[T]
  <2>1. SameStep(g, h, c, R)
    BY <1>1, <1>4, <1>6 DEF SameStep, IsSumOn
  <2>2. ChoosesFrom(c, R)
    BY PicksChoose DEF c
  <2> QED BY <1>3, <2>1, <2>2, FoldsAgree
<1>8. SumFunctionOnSet(f, S) = f[x] + SumFunctionOnSet(f, R)
  BY <1>1, <1>2, <1>4, <1>7
<1> QED BY <1>2, <1>8 DEF R

(* Any element may be taken first. *)
LEMMA SumWithout ==
  ASSUME NEW S, IsFiniteSet(S), NEW f, \A x \in S : f[x] \in Nat, NEW x \in S
  PROVE  SumFunctionOnSet(f, S) = f[x] + SumFunctionOnSet(f, S \ {x})
<1> DEFINE Sum(T) == SumFunctionOnSet(f, T)
           Good(T) == \A y \in T : Sum(T) = f[y] + Sum(T \ {y})
           N == {n \in Nat : \A T \in SUBSET S : Cardinality(T) = n => Good(T)}
<1>1. \A T \in SUBSET S : IsFiniteSet(T) /\ Cardinality(T) \in Nat
  BY FS_Subset, FS_CardinalityType
<1>2. \A T \in SUBSET S : Sum(T) \in Nat
  BY <1>1, SumIsNat
<1>3. 0 \in N
  BY <1>1, FS_EmptySet
<1>4. ASSUME NEW n \in Nat, n \in N, NEW T \in SUBSET S, Cardinality(T) = n + 1
      PROVE  Good(T)
  <2>1. SUFFICES ASSUME NEW y \in T PROVE Sum(T) = f[y] + Sum(T \ {y})
    OBVIOUS
  <2>2. IsFiniteSet(T) /\ T # {} /\ \A z \in T : f[z] \in Nat
    BY <1>1
  <2> HIDE DEF Sum
  <2>3. PICK z \in T : Sum(T) = f[z] + Sum(T \ {z})
    BY <2>2, SumTakes DEF Sum
  <2>4. CASE z = y
    BY <2>3, <2>4
  <2>5. CASE z # y
    <3> DEFINE Y == T \ {y}
               Z == T \ {z}
               R == T \ {y, z}
    <3>1. Cardinality(Y) = n /\ Cardinality(Z) = n /\ Y \in SUBSET S /\ Z \in SUBSET S
      <4>1. Cardinality(Y) = Cardinality(T) - 1 /\ Cardinality(Z) = Cardinality(T) - 1
        BY <2>2, FS_RemoveElement
      <4> HIDE DEF N
      <4> QED BY <1>4, <4>1
    <3>2. /\ z \in Y /\ y \in Z /\ Y \ {z} = R /\ Z \ {y} = R
      BY <2>5
    <3>3. Sum(Y) = f[z] + Sum(R) /\ Sum(Z) = f[y] + Sum(R)
      BY <1>4, <3>1, <3>2
    <3>4. R \in SUBSET S /\ f[y] \in Nat /\ f[z] \in Nat /\ Sum(R) \in Nat
      BY <1>2, <2>2
    <3> QED BY <2>3, <3>3, <3>4
  <2> QED BY <2>4, <2>5
<1>5. ASSUME NEW n \in Nat, n \in N PROVE n + 1 \in N
  <2>1. \A T \in SUBSET S : Cardinality(T) = n + 1 => Good(T)
    BY <1>4, <1>5
  <2> HIDE DEF Good
  <2> QED BY <2>1
<1>6. Cardinality(S) \in N
  <2> HIDE DEF N
  <2> QED BY <1>1, <1>3, <1>5, CountingUp
<1> QED BY <1>6

LEMMA SumWith ==
  ASSUME NEW S, IsFiniteSet(S), NEW x, x \notin S, NEW f, \A y \in S \cup {x} : f[y] \in Nat
  PROVE  SumFunctionOnSet(f, S \cup {x}) = f[x] + SumFunctionOnSet(f, S)
<1> DEFINE R == S \cup {x}
<1>1. IsFiniteSet(R) /\ R \ {x} = S /\ x \in R /\ \A y \in R : f[y] \in Nat
  BY FS_AddElement
<1>2. SumFunctionOnSet(f, R) = f[x] + SumFunctionOnSet(f, R \ {x})
  <2> HIDE DEF R
  <2> QED BY <1>1, SumWithout
<1> QED BY <1>1, <1>2

(* A sum does not look outside its set, and grows with what it adds up. *)
LEMMA SumsCompare ==
  ASSUME NEW S, IsFiniteSet(S), NEW f, NEW g,
         \A x \in S : f[x] \in Nat /\ g[x] \in Nat /\ f[x] <= g[x]
  PROVE  /\ SumFunctionOnSet(f, S) <= SumFunctionOnSet(g, S)
         /\ (\A x \in S : f[x] = g[x]) => SumFunctionOnSet(f, S) = SumFunctionOnSet(g, S)
<1> DEFINE Good(T) == /\ SumFunctionOnSet(f, T) <= SumFunctionOnSet(g, T)
                      /\ (\A x \in T : f[x] = g[x])
                            => SumFunctionOnSet(f, T) = SumFunctionOnSet(g, T)
           P == {T \in SUBSET S : Good(T)}
<1>1. {} \in P
  <2>1. Good({})
    BY SumOfNone
  <2> QED BY <2>1
<1>2. ASSUME NEW T \in SUBSET S, NEW x \in S, T \in P, x \notin T
      PROVE  T \cup {x} \in P
  <2>1. IsFiniteSet(T) /\ \A y \in T \cup {x} : f[y] \in Nat /\ g[y] \in Nat /\ f[y] <= g[y]
    BY FS_Subset
  <2>2. SumFunctionOnSet(f, T) \in Nat /\ SumFunctionOnSet(g, T) \in Nat
    BY <2>1, SumIsNat
  <2>3. /\ SumFunctionOnSet(f, T \cup {x}) = f[x] + SumFunctionOnSet(f, T)
        /\ SumFunctionOnSet(g, T \cup {x}) = g[x] + SumFunctionOnSet(g, T)
    BY <1>2, <2>1, SumWith
  <2>4. Good(T \cup {x})
    BY <1>2, <2>1, <2>2, <2>3
  <2> QED BY <2>4
<1>3. S \in P
  <2> HIDE DEF P
  <2> QED BY <1>1, <1>2, AddingUp
<1> QED BY <1>3

(* The sum over two sets apart is that over both. *)
LEMMA SumOfBoth ==
  ASSUME NEW S, IsFiniteSet(S), NEW R, IsFiniteSet(R), S \cap R = {},
         NEW f, \A x \in S \cup R : f[x] \in Nat
  PROVE  SumFunctionOnSet(f, R \cup S) = SumFunctionOnSet(f, R) + SumFunctionOnSet(f, S)
<1> DEFINE Sum(T) == SumFunctionOnSet(f, T)
           P == {T \in SUBSET S : Sum(R \cup T) = Sum(R) + Sum(T)}
<1>1. {} \in P
  <2>1. Sum({}) = 0 /\ Sum(R) \in Nat /\ R \cup {} = R
    BY SumOfNone, SumIsNat
  <2> QED BY <2>1
<1>2. ASSUME NEW T \in SUBSET S, NEW x \in S, T \in P, x \notin T
      PROVE  T \cup {x} \in P
  <2>1. IsFiniteSet(T) /\ IsFiniteSet(R \cup T)
    BY FS_Subset, FS_Union
  <2>2. /\ \A y \in T \cup {x} : f[y] \in Nat
        /\ \A y \in (R \cup T) \cup {x} : f[y] \in Nat
        /\ x \notin R \cup T
    BY <1>2
  <2>3. Sum(T \cup {x}) = f[x] + Sum(T)
    BY <1>2, <2>1, <2>2, SumWith
  <2>4. Sum((R \cup T) \cup {x}) = f[x] + Sum(R \cup T)
    BY <2>1, <2>2, SumWith
  <2>5. Sum(T) \in Nat /\ Sum(R) \in Nat /\ f[x] \in Nat
    BY <2>1, <2>2, SumIsNat
  <2>6. (R \cup T) \cup {x} = R \cup (T \cup {x}) /\ Sum(R \cup T) = Sum(R) + Sum(T)
    BY <1>2
  <2> HIDE DEF Sum
  <2>7. Sum(R \cup (T \cup {x})) = Sum(R) + Sum(T \cup {x})
    <3> DEFINE both == Sum(R \cup T)
    <3>1. Sum(R \cup (T \cup {x})) = f[x] + both /\ both = Sum(R) + Sum(T)
      BY <2>4, <2>6
    <3> HIDE DEF both
    <3> QED BY <3>1, <2>3, <2>5
  <2> QED BY <2>7, <1>2
<1>3. S \in P
  <2> HIDE DEF P
  <2> QED BY <1>1, <1>2, AddingUp
<1> QED BY <1>3

(* Nothing adds up to nothing. *)
LEMMA SumOfZeros ==
  ASSUME NEW S, IsFiniteSet(S), NEW f, \A x \in S : f[x] = 0
  PROVE  SumFunctionOnSet(f, S) = 0
<1> DEFINE P == {T \in SUBSET S : SumFunctionOnSet(f, T) = 0}
<1>1. {} \in P
  BY SumOfNone
<1>2. ASSUME NEW T \in SUBSET S, NEW x \in S, T \in P, x \notin T
      PROVE  T \cup {x} \in P
  <2>1. IsFiniteSet(T) /\ \A y \in T \cup {x} : f[y] \in Nat
    BY FS_Subset
  <2>2. SumFunctionOnSet(f, T \cup {x}) = f[x] + SumFunctionOnSet(f, T)
    BY <1>2, <2>1, SumWith
  <2>3. f[x] = 0 /\ SumFunctionOnSet(f, T) = 0
    BY <1>2
  <2> QED BY <2>2, <2>3
<1>3. S \in P
  <2> HIDE DEF P
  <2> QED BY <1>1, <1>2, AddingUp
<1> QED BY <1>3

(* A sum over the part of a set, and over what is left of it. *)
LEMMA SumOfParts ==
  ASSUME NEW S, IsFiniteSet(S), NEW R \in SUBSET S, NEW f, \A x \in S : f[x] \in Nat
  PROVE  /\ SumFunctionOnSet(f, S) = SumFunctionOnSet(f, R) + SumFunctionOnSet(f, S \ R)
         /\ SumFunctionOnSet(f, R) \in Nat /\ SumFunctionOnSet(f, S \ R) \in Nat
<1> DEFINE Q == S \ R
<1>1. IsFiniteSet(R) /\ IsFiniteSet(Q) /\ Q \cap R = {} /\ R \cup Q = S
  BY FS_Subset
<1>2. \A x \in Q \cup R : f[x] \in Nat
  OBVIOUS
<1> HIDE DEF Q
<1>3. SumFunctionOnSet(f, R \cup Q) = SumFunctionOnSet(f, R) + SumFunctionOnSet(f, Q)
  BY <1>1, <1>2, SumOfBoth
<1>4. SumFunctionOnSet(f, R) \in Nat /\ SumFunctionOnSet(f, Q) \in Nat
  BY <1>1, <1>2, SumIsNat
<1> QED BY <1>1, <1>3, <1>4 DEF Q

LEMMA SumIgnoresZeros ==
  ASSUME NEW S, IsFiniteSet(S), NEW R \in SUBSET S,
         NEW f, \A x \in S : f[x] \in Nat, \A x \in S \ R : f[x] = 0
  PROVE  SumFunctionOnSet(f, S) = SumFunctionOnSet(f, R)
<1>1. IsFiniteSet(S \ R)
  BY FS_Subset
<1>2. SumFunctionOnSet(f, S \ R) = 0
  BY <1>1, SumOfZeros
<1> QED BY <1>2, SumOfParts

Changes(f, g, h, k, R, S) ==
  /\ \A x \in S : f[x] \in Nat /\ g[x] \in Nat
  /\ \A x \in S : x # k => g[x] = f[x]
  /\ \A x \in S : h[x] = IF x \in R THEN 0 ELSE g[x]

(* One value changed, then some set to nothing. *)
LEMMA SumsChange ==
  ASSUME NEW S, IsFiniteSet(S), NEW k \in S, NEW R \in SUBSET S, NEW f, NEW g, NEW h,
         Changes(f, g, h, k, R, S)
  PROVE  /\ SumFunctionOnSet(h, S) + SumFunctionOnSet(g, R) + f[k]
              = SumFunctionOnSet(f, S) + g[k]
         /\ SumFunctionOnSet(g, R) \in Nat /\ SumFunctionOnSet(f, S) \in Nat
         /\ SumFunctionOnSet(h, S) \in Nat
         /\ f[k] <= SumFunctionOnSet(f, S)
<1> DEFINE U == S \ {k}
           Q == S \ R
<1>0. /\ \A x \in S : f[x] \in Nat /\ g[x] \in Nat
      /\ \A x \in S : x # k => g[x] = f[x]
      /\ \A x \in S : h[x] = IF x \in R THEN 0 ELSE g[x]
  BY DEF Changes
<1>1. IsFiniteSet(U) /\ IsFiniteSet(Q) /\ U \subseteq S /\ k \notin U /\ Q \subseteq S
      /\ IsFiniteSet(R)
  BY FS_Subset
<1>2. /\ SumFunctionOnSet(f, S) = f[k] + SumFunctionOnSet(f, U)
      /\ SumFunctionOnSet(g, S) = g[k] + SumFunctionOnSet(g, U)
  BY <1>0, SumWithout
<1>3. \A x \in U : f[x] = g[x] /\ f[x] \in Nat /\ g[x] \in Nat
  BY <1>0
<1>4. /\ SumFunctionOnSet(g, S) = SumFunctionOnSet(g, R) + SumFunctionOnSet(g, Q)
      /\ SumFunctionOnSet(g, R) \in Nat /\ SumFunctionOnSet(g, Q) \in Nat
  BY <1>0, SumOfParts
<1>5. /\ \A x \in S : h[x] \in Nat
      /\ \A x \in R : h[x] = 0
      /\ \A x \in Q : h[x] = g[x] /\ h[x] \in Nat /\ g[x] \in Nat
  BY <1>0
<1>6. SumFunctionOnSet(h, S) = SumFunctionOnSet(h, R) + SumFunctionOnSet(h, Q)
  BY <1>5, SumOfParts
<1> HIDE DEF U, Q
<1>7. SumFunctionOnSet(f, U) = SumFunctionOnSet(g, U) /\ SumFunctionOnSet(f, U) \in Nat
  <2>1. \A x \in U : f[x] \in Nat /\ g[x] \in Nat /\ f[x] <= g[x]
    BY <1>3
  <2> QED BY <1>1, <1>3, <2>1, SumsCompare, SumIsNat
<1>8. SumFunctionOnSet(h, Q) = SumFunctionOnSet(g, Q)
  <2>1. \A x \in Q : h[x] \in Nat /\ g[x] \in Nat /\ h[x] <= g[x]
    BY <1>5
  <2> QED BY <1>1, <1>5, <2>1, SumsCompare
<1>9. SumFunctionOnSet(h, R) = 0
  BY <1>1, <1>5, SumOfZeros
<1>10. f[k] \in Nat /\ g[k] \in Nat
  BY <1>0
<1> QED BY <1>2, <1>4, <1>6, <1>7, <1>8, <1>9, <1>10

-----------------------------------------------------------------------------
(* Folds from the left: the last element is chosen first, so the subsets a    *)
(* fold goes through are the beginnings 1 .. i of its domain.                 *)
Lasts(n) == [T \in SUBSET (1 .. n) |-> Max(T)]

LEMMA LastsChoose == ASSUME NEW n \in Nat PROVE ChoosesFrom(Lasts(n), 1 .. n)
<1>1. SUFFICES ASSUME NEW T \in SUBSET (1 .. n), T # {} PROVE Max(T) \in T
  BY DEF ChoosesFrom, Lasts
<1> DEFINE U == {n - x : x \in T}
<1>2. U \in SUBSET Nat /\ U # {}
  <2>1. \A x \in T : n - x \in Nat
    OBVIOUS
  <2> QED BY <2>1, <1>1
<1>3. PICK u \in U : \A v \in U : u <= v
  BY <1>2, LeastOf
<1>4. PICK x \in T : u = n - x
  OBVIOUS
<1>5. ASSUME NEW y \in T PROVE x >= y
  <2>1. n - y \in U /\ x \in 1 .. n /\ y \in 1 .. n
    OBVIOUS
  <2>2. n - x <= n - y
    BY <2>1, <1>3, <1>4
  <2> QED BY <2>1, <2>2
<1> QED BY <1>5 DEF Max

LEMMA LastOfBeginning ==
  ASSUME NEW n \in Nat, NEW i \in 1 .. n
  PROVE  /\ 1 .. i \in SUBSET (1 .. n) /\ 1 .. i # {}
         /\ Lasts(n)[1 .. i] = i /\ (1 .. i) \ {i} = 1 .. (i - 1)
<1>1. 1 .. i \in SUBSET (1 .. n) /\ 1 .. i # {}
  OBVIOUS
<1> DEFINE m == Max(1 .. i)
<1>2. Lasts(n)[1 .. i] = m
  BY <1>1 DEF Lasts
<1>3. i \in 1 .. i /\ \A y \in 1 .. i : i >= y
  OBVIOUS
<1>4. m \in 1 .. i /\ \A y \in 1 .. i : m >= y
  BY <1>3 DEF Max
<1> HIDE DEF m
<1>5. m = i
  BY <1>3, <1>4
<1> QED BY <1>1, <1>2, <1>5

IsLeftFold(h, n, base, G) ==
  /\ FoldsOn(h, 1 .. n, base, Lasts(n), G)
  /\ h[{}] = base
  /\ \A i \in 1 .. n : h[1 .. i] = G[i][h[1 .. (i - 1)]]

(* The results after each element of a sequence. *)
LEMMA LeftFold ==
  ASSUME NEW n \in Nat, NEW D, NEW base \in D, NEW G \in [1 .. n -> [D -> D]]
  PROVE  \E h \in [SUBSET (1 .. n) -> D] : IsLeftFold(h, n, base, G)
<1> DEFINE S == 1 .. n
           c == Lasts(n)
<1>1. IsFiniteSet(S) /\ ChoosesFrom(c, S)
  BY FS_Interval, LastsChoose
<1>2. \A i \in S : 1 .. i \in SUBSET S /\ 1 .. i # {} /\ c[1 .. i] = i /\ (1 .. i) \ {i} = 1 .. (i - 1)
  <2>1. SUFFICES ASSUME NEW i \in S
                 PROVE  /\ 1 .. i \in SUBSET S /\ 1 .. i # {}
                        /\ c[1 .. i] = i /\ (1 .. i) \ {i} = 1 .. (i - 1)
    OBVIOUS
  <2>2. 1 .. i \in SUBSET S /\ 1 .. i # {}
    BY LastOfBeginning, Zenon
  <2>3. c[1 .. i] = i /\ (1 .. i) \ {i} = 1 .. (i - 1)
    BY LastOfBeginning, Zenon
  <2> QED BY <2>2, <2>3
<1> HIDE DEF S, c
<1>3. PICK h \in [SUBSET S -> D] : FoldsOn(h, S, base, c, G)
  <2>1. G \in [S -> [D -> D]]
    BY DEF S
  <2> QED BY <1>1, <2>1, FoldExists
<1>4. \A T \in SUBSET S : h[T] = IF T = {} THEN base ELSE G[c[T]][h[T \ {c[T]}]]
  BY <1>3 DEF FoldsOn
<1>5. \A i \in S : h[1 .. i] = G[i][h[1 .. (i - 1)]]
  <2>1. SUFFICES ASSUME NEW i \in S PROVE h[1 .. i] = G[i][h[1 .. (i - 1)]]
    OBVIOUS
  <2> DEFINE T == 1 .. i
  <2>2. T \in SUBSET S /\ T # {} /\ c[T] = i /\ T \ {i} = 1 .. (i - 1)
    BY <1>2
  <2>3. h[T] = G[c[T]][h[T \ {c[T]}]]
    <3> HIDE DEF T
    <3> QED BY <1>4, <2>2
  <2> QED BY <2>2, <2>3
<1>6. h[{}] = base
  BY <1>4
<1> QED BY <1>3, <1>5, <1>6 DEF S, c, IsLeftFold
=============================================================================

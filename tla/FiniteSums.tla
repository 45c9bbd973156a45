------------------------------ MODULE FiniteSums ------------------------------
(***************************************************************************)
(* Facts about the sum that the community module Functions defines as a    *)
(* fold: SumFunction(f) adds f up over its domain, SumFunctionOnSet(f, S)  *)
(* over a finite set S.  Treasury sums what its transactions paid, the     *)
(* bridge its balances and amounts, the governor its ballots.              *)
(*                                                                         *)
(* The fold is a recursive function on the subsets of S that takes away    *)
(* the element CHOOSE picks.  That such a function exists, that it gives   *)
(* every subset the same sum whatever S it is defined over, and that any   *)
(* other element could have been taken away first, is shown by a smallest  *)
(* counterexample: the strict subsets of a finite set are well-founded.    *)
(* The proofs about components use SumInt, SumSame, SumZero, SumChanged    *)
(* and SumAdded only.                                                      *)
(***************************************************************************)
EXTENDS Integers, FiniteSets, Functions, FiniteSetTheorems, WellFoundedInduction, TLAPS

\* The element the fold takes away first.
Pick(T) == CHOOSE x \in T : TRUE

\* g sums f over every subset of S, one picked element at a time.
Sums(f, S, g) ==
  g = [T \in SUBSET S |-> IF T = {} THEN 0 ELSE f[Pick(T)] + g[T \ {Pick(T)}]]

\* Among subsets of a finite set there is one with no smaller one.
LEMMA MinimalSubset ==
  ASSUME NEW S, IsFiniteSet(S), NEW W \in SUBSET SUBSET S, W # {}
  PROVE  \E T \in W : \A U \in SUBSET T : U # T => U \notin W
<1>1. IsWellFoundedOn(StrictSubsetOrdering(S), SUBSET S)
  BY FS_StrictSubsetOrderingWellFounded, FS_FiniteSubsetsOfFinite
<1>2. PICK T \in W : \A U \in W : <<U, T>> \notin StrictSubsetOrdering(S)
  BY <1>1, WFMin
<1>3. ASSUME NEW U \in SUBSET T, U # T, U \in W
      PROVE  FALSE
  BY <1>2, <1>3 DEF StrictSubsetOrdering
<1> QED
  BY <1>2, <1>3

\* What is picked from a set that has elements is one of them.
LEMMA PickIn ==
  ASSUME NEW T, T # {}
  PROVE  Pick(T) \in T
  BY DEF Pick

\* Two summations of the same function agree on the sets they share.
LEMMA SumsAgree ==
  ASSUME NEW f, NEW A, NEW B, IsFiniteSet(A), NEW g, NEW h, Sums(f, A, g), Sums(f, B, h),
         NEW T \in SUBSET A, T \in SUBSET B
  PROVE  g[T] = h[T]
<1> DEFINE W == {U \in SUBSET A : U \in SUBSET B /\ g[U] # h[U]}
<1>1. SUFFICES ASSUME W # {} PROVE FALSE
  OBVIOUS
<1>2. PICK U \in W : \A V \in SUBSET U : V # U => V \notin W
  <2> HIDE DEF W
  <2>1. W \in SUBSET SUBSET A
    BY DEF W
  <2> QED
    BY <1>1, <2>1, MinimalSubset
<1>3. CASE U = {}
  BY <1>2, <1>3 DEF Sums
<1>4. CASE U # {}
  <2>1. Pick(U) \in U
    BY <1>4, PickIn
  <2> DEFINE V == U \ {Pick(U)}
  <2>2. V \in SUBSET U /\ V # U
    BY <2>1
  <2>3. g[V] = h[V]
    BY <1>2, <2>2
  <2>4. g[U] = f[Pick(U)] + g[V]
    BY <1>4 DEF Sums
  <2>5. h[U] = f[Pick(U)] + h[V]
    BY <1>4 DEF Sums
  <2> QED
    BY <2>3, <2>4, <2>5
<1> QED
  BY <1>3, <1>4

\* Every function can be summed over the subsets of a finite set.
LEMMA SumsExists ==
  ASSUME NEW f, NEW S, IsFiniteSet(S)
  PROVE  \E g : Sums(f, S, g)
<1> DEFINE W == {T \in SUBSET S : ~ \E g : Sums(f, T, g)}
<1>1. SUFFICES ASSUME W # {} PROVE FALSE
  <2>1. S \in SUBSET S
    OBVIOUS
  <2> QED
    BY <2>1
<1>2. PICK T \in W : \A U \in SUBSET T : U # T => U \notin W
  <2> HIDE DEF W
  <2>1. W \in SUBSET SUBSET S
    BY DEF W
  <2> QED
    BY <1>1, <2>1, MinimalSubset
<1>3. ASSUME NEW U \in SUBSET T, U # T
      PROVE  \E g : Sums(f, U, g)
  BY <1>2, <1>3
<1> DEFINE part(U) == CHOOSE g : Sums(f, U, g)
           value(U) == IF U = {} THEN 0 ELSE f[Pick(U)] + part(U \ {Pick(U)})[U \ {Pick(U)}]
           sum == [U \in SUBSET T |-> value(U)]
<1>4. ASSUME NEW U \in SUBSET T, U # T
      PROVE  Sums(f, U, part(U))
  BY <1>3, <1>4
<1>5. ASSUME NEW U \in SUBSET T, U # T
      PROVE  value(U) = part(U)[U]
  <2> HIDE DEF part
  <2>1. Sums(f, U, part(U))
    BY <1>4, <1>5
  <2>2. CASE U = {}
    BY <2>1, <2>2 DEF Sums
  <2>3. CASE U # {}
    <3>1. Pick(U) \in U
      BY <2>3, PickIn
    <3> DEFINE V == U \ {Pick(U)}
    <3>2. V \in SUBSET T /\ V # T /\ V \in SUBSET U /\ V \in SUBSET V
      BY <3>1
    <3>3. Sums(f, V, part(V))
      BY <1>4, <3>2
    <3>4. IsFiniteSet(U)
      BY FS_Subset, T \in SUBSET S, U \in SUBSET S
    <3>5. part(U)[V] = part(V)[V]
      BY <2>1, <3>2, <3>3, <3>4, SumsAgree
    <3>6. part(U)[U] = f[Pick(U)] + part(U)[V]
      BY <2>1, <2>3 DEF Sums
    <3> QED
      BY <2>3, <3>5, <3>6
  <2> QED
    BY <2>2, <2>3
<1>6. ASSUME NEW U \in SUBSET T, U # {}
      PROVE  sum[U] = f[Pick(U)] + sum[U \ {Pick(U)}]
  <2> HIDE DEF part
  <2>1. Pick(U) \in U
    BY <1>6, PickIn
  <2> DEFINE V == U \ {Pick(U)}
  <2>2. V \in SUBSET T /\ V # T
    BY <2>1
  <2>3. sum[V] = part(V)[V]
    <3>1. sum[V] = value(V)
      BY <2>2
    <3> QED
      BY <1>5, <2>2, <3>1
  <2>4. sum[U] = f[Pick(U)] + part(V)[V]
    BY <1>6
  <2> QED
    BY <2>3, <2>4
<1>7. sum[{}] = 0
  OBVIOUS
<1>8. sum = [U \in SUBSET T |-> IF U = {} THEN 0 ELSE f[Pick(U)] + sum[U \ {Pick(U)}]]
  <2> HIDE DEF value
  <2>1. \A U \in SUBSET T : sum[U] = IF U = {} THEN 0 ELSE f[Pick(U)] + sum[U \ {Pick(U)}]
    <3> HIDE DEF sum
    <3> QED
      BY <1>6, <1>7
  <2> QED
    BY <2>1
<1>9. Sums(f, T, sum)
  BY <1>8 DEF Sums
<1> QED
  BY <1>2, <1>9

\* The community operator is such a summation.
LEMMA SumFunctionIs ==
  ASSUME NEW f, NEW S, IsFiniteSet(S)
  PROVE  \E g : Sums(f, S, g) /\ SumFunctionOnSet(f, S) = g[S]
<1>1. SumFunctionOnSet(f, S) = (CHOOSE g : Sums(f, S, g))[S]
  BY DEF SumFunctionOnSet, FoldFunctionOnSet, MapThenFoldSet, Sums, Pick
<1> QED
  BY <1>1, SumsExists

\* A summation of integers is an integer, and it does not matter which
\* element is taken away first.
LEMMA SumsTakeAny ==
  ASSUME NEW S, IsFiniteSet(S), NEW f, \A x \in S : f[x] \in Int, NEW g, Sums(f, S, g),
         NEW T \in SUBSET S
  PROVE  g[T] \in Int /\ \A x \in T : g[T] = f[x] + g[T \ {x}]
<1> DEFINE Good(U) == g[U] \in Int /\ \A x \in U : g[U] = f[x] + g[U \ {x}]
           W == {U \in SUBSET S : ~Good(U)}
<1>1. SUFFICES ASSUME W # {} PROVE FALSE
  OBVIOUS
<1>2. PICK U \in W : \A V \in SUBSET U : V # U => V \notin W
  <2> HIDE DEF W
  <2>1. W \in SUBSET SUBSET S
    BY DEF W
  <2> QED
    BY <1>1, <2>1, MinimalSubset
<1>3. ASSUME NEW V \in SUBSET U, V # U
      PROVE  Good(V)
  BY <1>2, <1>3
<1> HIDE DEF Good
<1>4. CASE U = {}
  <2>1. g[U] = 0
    BY <1>4 DEF Sums
  <2>2. Good(U)
    BY <1>4, <2>1 DEF Good
  <2> QED
    BY <1>2, <2>2
<1>5. CASE U # {}
  <2> DEFINE p == Pick(U)
  <2>1. p \in U
    BY <1>5, PickIn
  <2>2. g[U] = f[p] + g[U \ {p}]
    BY <1>5 DEF Sums
  <2> HIDE DEF p
  <2>3. Good(U \ {p})
    BY <1>3, <2>1
  <2>4. g[U] \in Int
    BY <2>1, <2>2, <2>3 DEF Good
  <2>5. ASSUME NEW x \in U, x # p
        PROVE  g[U] = f[x] + g[U \ {x}]
    <3> DEFINE R == (U \ {p}) \ {x}
    <3>1. Good(U \ {x})
      BY <1>3
    <3>2. Good(R)
      BY <1>3
    <3>3. (U \ {x}) \ {p} = R
      OBVIOUS
    <3>4. g[U \ {p}] = f[x] + g[R]
      BY <2>3, <2>5 DEF Good
    <3>5. g[U \ {x}] = f[p] + g[R]
      BY <2>1, <2>5, <3>1, <3>3 DEF Good
    <3>6. f[p] \in Int /\ f[x] \in Int /\ g[R] \in Int
      BY <2>1, <3>2 DEF Good
    <3> HIDE DEF R
    <3> QED
      BY <2>2, <3>4, <3>5, <3>6
  <2>6. Good(U)
    BY <2>2, <2>4, <2>5 DEF Good
  <2> QED
    BY <1>2, <2>6
<1> QED
  BY <1>4, <1>5

\* The same of the community operator, over the set and without one element.
LEMMA SumTakeAny ==
  ASSUME NEW S, IsFiniteSet(S), NEW f, \A x \in S : f[x] \in Int
  PROVE  /\ SumFunctionOnSet(f, S) \in Int
         /\ SumFunctionOnSet(f, {}) = 0
         /\ \A x \in S : SumFunctionOnSet(f, S) = f[x] + SumFunctionOnSet(f, S \ {x})
<1>1. PICK g : Sums(f, S, g) /\ SumFunctionOnSet(f, S) = g[S]
  BY SumFunctionIs
<1>2. SumFunctionOnSet(f, S) \in Int
  BY <1>1, SumsTakeAny
<1>3. SumFunctionOnSet(f, {}) = 0
  <2>1. IsFiniteSet({})
    BY FS_EmptySet
  <2>2. PICK h : Sums(f, {}, h) /\ SumFunctionOnSet(f, {}) = h[{}]
    BY <2>1, SumFunctionIs
  <2> QED
    BY <2>2 DEF Sums
<1>4. ASSUME NEW x \in S
      PROVE  SumFunctionOnSet(f, S) = f[x] + SumFunctionOnSet(f, S \ {x})
  <2> DEFINE R == S \ {x}
  <2>1. IsFiniteSet(R)
    BY FS_Subset
  <2>2. PICK h : Sums(f, R, h) /\ SumFunctionOnSet(f, R) = h[R]
    BY <2>1, SumFunctionIs
  <2>3. R \in SUBSET R /\ R \in SUBSET S
    OBVIOUS
  <2>4. g[R] = h[R]
    BY <1>1, <2>2, <2>3, SumsAgree
  <2>5. g[S] = f[x] + g[R]
    BY <1>1, SumsTakeAny
  <2> QED
    BY <1>1, <2>2, <2>4, <2>5
<1> QED
  BY <1>2, <1>3, <1>4

\* Functions that agree on a set have the same sum over it.
LEMMA SumSame ==
  ASSUME NEW S, IsFiniteSet(S), NEW f, NEW h, \A x \in S : f[x] \in Int /\ h[x] = f[x]
  PROVE  SumFunctionOnSet(h, S) = SumFunctionOnSet(f, S)
<1> DEFINE W == {T \in SUBSET S : SumFunctionOnSet(h, T) # SumFunctionOnSet(f, T)}
<1>1. SUFFICES ASSUME W # {} PROVE FALSE
  <2>1. S \in SUBSET S
    OBVIOUS
  <2> QED
    BY <2>1
<1>2. PICK T \in W : \A U \in SUBSET T : U # T => U \notin W
  <2> HIDE DEF W
  <2>1. W \in SUBSET SUBSET S
    BY DEF W
  <2> QED
    BY <1>1, <2>1, MinimalSubset
<1>3. IsFiniteSet(T)
  BY FS_Subset
<1>4. CASE T = {}
  BY <1>2, <1>3, <1>4, SumTakeAny
<1>5. CASE T # {}
  <2>1. PICK x \in T : TRUE
    BY <1>5
  <2>2. SumFunctionOnSet(h, T \ {x}) = SumFunctionOnSet(f, T \ {x})
    BY <1>2, <2>1
  <2>3. SumFunctionOnSet(h, T) = h[x] + SumFunctionOnSet(h, T \ {x})
    BY <1>3, <2>1, SumTakeAny
  <2>4. SumFunctionOnSet(f, T) = f[x] + SumFunctionOnSet(f, T \ {x})
    BY <1>3, <2>1, SumTakeAny
  <2> QED
    BY <1>2, <2>1, <2>2, <2>3, <2>4
<1> QED
  BY <1>4, <1>5

\* A sum of integers is an integer.
LEMMA SumInt ==
  ASSUME NEW S, IsFiniteSet(S), NEW f \in [S -> Int]
  PROVE  SumFunction(f) \in Int
  BY SumTakeAny DEF SumFunction

\* A sum changes by what the one changed element changes.
LEMMA SumChanged ==
  ASSUME NEW S, IsFiniteSet(S), NEW x \in S, NEW f \in [S -> Int], NEW h \in [S -> Int],
         \A y \in S \ {x} : h[y] = f[y]
  PROVE  SumFunction(h) = SumFunction(f) - f[x] + h[x]
<1> DEFINE R == S \ {x}
<1>1. IsFiniteSet(R)
  BY FS_Subset
<1>2. SumFunctionOnSet(f, S) = f[x] + SumFunctionOnSet(f, R)
  BY SumTakeAny
<1>3. SumFunctionOnSet(h, S) = h[x] + SumFunctionOnSet(h, R)
  BY SumTakeAny
<1>4. SumFunctionOnSet(h, R) = SumFunctionOnSet(f, R)
  BY <1>1, SumSame
<1>5. SumFunctionOnSet(f, R) \in Int
  BY <1>1, SumTakeAny
<1> QED
  BY <1>2, <1>3, <1>4, <1>5 DEF SumFunction

\* A sum grows by the value of the element that is added to the domain.
LEMMA SumAdded ==
  ASSUME NEW S, IsFiniteSet(S), NEW x, x \notin S, NEW f \in [S -> Int],
         NEW h \in [S \cup {x} -> Int], \A y \in S : h[y] = f[y]
  PROVE  SumFunction(h) = SumFunction(f) + h[x]
<1> DEFINE T == S \cup {x}
<1>1. IsFiniteSet(T) /\ T \ {x} = S /\ x \in T
  BY FS_AddElement
<1>2. SumFunctionOnSet(h, T) = h[x] + SumFunctionOnSet(h, S)
  BY <1>1, SumTakeAny
<1>3. SumFunctionOnSet(h, S) = SumFunctionOnSet(f, S)
  BY SumSame
<1>4. SumFunctionOnSet(f, S) \in Int
  BY SumTakeAny
<1> QED
  BY <1>2, <1>3, <1>4 DEF SumFunction

\* A sum of zeros is zero.
LEMMA SumZero ==
  ASSUME NEW S, IsFiniteSet(S), NEW f \in [S -> {0}]
  PROVE  SumFunction(f) = 0
<1> DEFINE W == {T \in SUBSET S : SumFunctionOnSet(f, T) # 0}
<1>1. SUFFICES ASSUME W # {} PROVE FALSE
  <2>1. S \in SUBSET S
    OBVIOUS
  <2> QED
    BY <2>1 DEF SumFunction
<1>2. PICK T \in W : \A U \in SUBSET T : U # T => U \notin W
  <2> HIDE DEF W
  <2>1. W \in SUBSET SUBSET S
    BY DEF W
  <2> QED
    BY <1>1, <2>1, MinimalSubset
<1>3. IsFiniteSet(T)
  BY FS_Subset
<1>4. CASE T = {}
  BY <1>2, <1>3, <1>4, SumTakeAny
<1>5. CASE T # {}
  <2>1. PICK x \in T : TRUE
    BY <1>5
  <2>2. SumFunctionOnSet(f, T \ {x}) = 0
    BY <1>2, <2>1
  <2>3. SumFunctionOnSet(f, T) = f[x] + SumFunctionOnSet(f, T \ {x})
    BY <1>3, <2>1, SumTakeAny
  <2> QED
    BY <1>2, <2>1, <2>2, <2>3
<1> QED
  BY <1>4, <1>5
=============================================================================

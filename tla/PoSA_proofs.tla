---------------------------- MODULE PoSA_proofs -----------------------------
(***************************************************************************)
(* What the PoSA engine guarantees for every set of addresses, committee   *)
(* size, epoch length and minimum stake.  The inductive invariant adds     *)
(* NoDuplicates to the invariants a run checks: without it, retain could   *)
(* leave a second copy of the expelled member behind.                      *)
(*                                                                         *)
(* The turns rest on how remainders follow each other, the election on the *)
(* order of its candidates: sorting them and taking the first has one      *)
(* result, and IsElected, which states what the result is like, has no     *)
(* other.                                                                  *)
(***************************************************************************)
EXTENDS PoSA, FiniteSums

Members(s) == {s[i] : i \in DOMAIN s}

Distinct(s) == \A i, j \in DOMAIN s : s[i] = s[j] => i = j

PoSAInv ==
  /\ PoSATypeOK
  /\ CommitteeIsStaked
  /\ ActiveFlagIsSound
  /\ NoDuplicates

-----------------------------------------------------------------------------

\* Retaining everything but a from a list without duplicates removes a and
\* only a, keeps the list free of duplicates, shortens it by one and keeps
\* the order of the rest.
LEMMA WithoutProperties ==
  ASSUME NEW s \in Seq(Address), Distinct(s), NEW a \in Members(s)
  PROVE  /\ Without(s, a) \in Seq(Address)
         /\ Len(Without(s, a)) = Len(s) - 1
         /\ Members(Without(s, a)) \subseteq Members(s) \ {a}
         /\ Members(s) \ {a} \subseteq Members(Without(s, a))
         /\ Distinct(Without(s, a))
         /\ \A i, j \in DOMAIN Without(s, a) : i < j =>
              \E k, l \in DOMAIN s :
                k < l /\ s[k] = Without(s, a)[i] /\ s[l] = Without(s, a)[j]
<1> DEFINE at == CHOOSE i \in DOMAIN s : s[i] = a
           w  == Without(s, a)
<1>1. at \in DOMAIN s /\ s[at] = a
  BY DEF Members
<1>2. DOMAIN s = 1..Len(s) /\ Len(s) \in Nat
  OBVIOUS
<1>3. w = [i \in 1..(Len(s) - 1) |-> IF i < at THEN s[i] ELSE s[i + 1]]
  BY DEF Without
<1> HIDE DEF at, w
<1>4. Len(s) - 1 \in Nat
  BY <1>1, <1>2
<1>5. \A i \in 1..(Len(s) - 1) :
        w[i] \in Address /\ w[i] = IF i < at THEN s[i] ELSE s[i + 1]
  BY <1>1, <1>2, <1>3
<1>6. w \in Seq(Address) /\ Len(w) = Len(s) - 1 /\ DOMAIN w = 1..(Len(s) - 1)
  BY <1>3, <1>4, <1>5
<1>7. \A i \in DOMAIN w : w[i] \in Members(s) /\ w[i] # a
  <2> SUFFICES ASSUME NEW i \in DOMAIN w
               PROVE  w[i] \in Members(s) /\ w[i] # a
    OBVIOUS
  <2>1. CASE i < at
    BY <2>1, <1>1, <1>2, <1>5, <1>6 DEF Members, Distinct
  <2>2. CASE ~(i < at)
    BY <2>2, <1>1, <1>2, <1>5, <1>6 DEF Members, Distinct
  <2> QED
    BY <2>1, <2>2
<1>8. \A x \in Members(s) \ {a} : x \in Members(w)
  <2> SUFFICES ASSUME NEW x \in Members(s), x # a
               PROVE  x \in Members(w)
    OBVIOUS
  <2>1. PICK k \in DOMAIN s : s[k] = x
    BY DEF Members
  <2>2. k # at
    BY <2>1, <1>1
  <2>3. CASE k < at
    <3>1. k \in 1..(Len(s) - 1) /\ w[k] = x
      BY <2>1, <2>3, <1>1, <1>2, <1>5
    <3> QED
      BY <3>1, <1>6 DEF Members
  <2>4. CASE k > at
    <3>1. k - 1 \in 1..(Len(s) - 1) /\ ~(k - 1 < at) /\ (k - 1) + 1 = k
      BY <2>4, <1>1, <1>2
    <3>2. w[k - 1] = x
      BY <3>1, <2>1, <1>5
    <3> QED
      BY <3>1, <3>2, <1>6 DEF Members
  <2> QED
    BY <2>2, <2>3, <2>4, <2>1, <1>1, <1>2
<1>9. Distinct(w)
  <2> SUFFICES ASSUME NEW i \in DOMAIN w, NEW j \in DOMAIN w, w[i] = w[j]
               PROVE  i = j
    BY DEF Distinct
  <2> DEFINE k == IF i < at THEN i ELSE i + 1
             l == IF j < at THEN j ELSE j + 1
  <2>1. k \in DOMAIN s /\ l \in DOMAIN s
    BY <1>1, <1>2, <1>6
  <2>2. s[k] = w[i] /\ s[l] = w[j]
    BY <1>5, <1>6
  <2>3. k = l
    BY <2>1, <2>2 DEF Distinct
  <2>4. i \in Int /\ j \in Int /\ at \in Int
    BY <1>1, <1>2, <1>6
  <2> QED
    BY <2>3, <2>4
<1>10. ASSUME NEW i \in DOMAIN w, NEW j \in DOMAIN w, i < j
       PROVE  \E k, l \in DOMAIN s : k < l /\ s[k] = w[i] /\ s[l] = w[j]
  <2> DEFINE k == IF i < at THEN i ELSE i + 1
             l == IF j < at THEN j ELSE j + 1
  <2>1. k \in DOMAIN s /\ l \in DOMAIN s /\ k < l
    BY <1>1, <1>2, <1>6, <1>10
  <2>2. s[k] = w[i] /\ s[l] = w[j]
    BY <1>5, <1>6
  <2> QED
    BY <2>1, <2>2
<1>11. Members(w) \subseteq Members(s) \ {a}
  BY <1>7 DEF Members
<1> QED
  BY <1>6, <1>8, <1>9, <1>10, <1>11 DEF w

-----------------------------------------------------------------------------
(* The turns.                                                              *)

\* The remainder goes up by k, and starts again from 0 at L.
LEMMA RemainderAhead ==
  ASSUME NEW L \in Nat \ {0}, NEW n \in Nat, NEW k \in 0..(L - 1)
  PROVE  /\ n % L \in 0..(L - 1)
         /\ (n + k) % L = IF (n % L) + k < L THEN (n % L) + k ELSE (n % L) + k - L
<1> DEFINE d == n \div L
           q == n % L
<1>1. d \in Nat /\ q \in 0..(L - 1) /\ n = L * d + q
  BY SMT
<1> HIDE DEF d, q
<1>2. \A e \in Nat, r \in 0..(L - 1) : (L * e + r) % L = r
  BY SMT
<1>3. CASE q + k < L
  <2>1. n + k = L * d + (q + k) /\ q + k \in 0..(L - 1)
    BY <1>1, <1>3
  <2> QED
    BY <1>1, <1>2, <1>3, <2>1 DEF q
<1>4. CASE ~(q + k < L)
  <2>1. L * (d + 1) = L * d + L
    BY <1>1
  <2>2. n + k = L * (d + 1) + (q + k - L) /\ q + k - L \in 0..(L - 1) /\ d + 1 \in Nat
    BY <1>1, <1>4, <2>1
  <2> QED
    BY <1>1, <1>2, <1>4, <2>2 DEF q
<1> QED
  BY <1>1, <1>3, <1>4 DEF q

\* Among L blocks in a row, one and only one has the remainder r.
LEMMA OneTurnEach ==
  ASSUME NEW L \in Nat \ {0}, NEW n \in Nat, NEW r \in 0..(L - 1)
  PROVE  \E k \in 0..(L - 1) :
           \A j \in 0..(L - 1) : (n + j) % L = r <=> j = k
<1> DEFINE q == n % L
           k == IF r >= q THEN r - q ELSE r - q + L
<1>1. q \in 0..(L - 1)
  BY RemainderAhead
<1>2. ASSUME NEW j \in 0..(L - 1)
      PROVE  (n + j) % L = IF q + j < L THEN q + j ELSE q + j - L
  BY RemainderAhead
<1> HIDE DEF q
<1>3. k \in 0..(L - 1)
  BY <1>1
<1>4. ASSUME NEW j \in 0..(L - 1)
      PROVE  (n + j) % L = r <=> j = k
  <2> DEFINE m == (n + j) % L
  <2>1. m = IF q + j < L THEN q + j ELSE q + j - L
    BY <1>2
  <2> HIDE DEF m
  <2>2. ASSUME r >= q
        PROVE  m = r <=> j = k
    BY <1>1, <2>1, <2>2
  <2>3. ASSUME ~(r >= q)
        PROVE  m = r <=> j = k
    BY <1>1, <2>1, <2>3
  <2>4. m = r <=> j = k
    BY <2>2, <2>3
  <2> QED
    BY <2>4 DEF m
<1> QED
  BY <1>3, <1>4

-----------------------------------------------------------------------------
(* The election.                                                           *)

\* The order of the election is a strict total order of the candidates: more
\* stake goes first, and the smaller address among equals.
LEMMA OutranksOrder ==
  ASSUME PoSATypeOK, NEW a \in Candidates, NEW b \in Candidates, NEW c \in Candidates
  PROVE  /\ ~Outranks(a, a)
         /\ ~(Outranks(a, b) /\ Outranks(b, a))
         /\ a # b => Outranks(a, b) \/ Outranks(b, a)
         /\ Outranks(a, b) /\ Outranks(b, c) => Outranks(a, c)
<1>1. \A x \in Candidates : x \in Nat /\ validator_registry[x].stake \in Nat
  BY PoSAAssumption DEF PoSATypeOK, Candidates
<1>2. PICK p \in Nat, q \in Nat, r \in Nat :
        /\ validator_registry[a].stake = p
        /\ validator_registry[b].stake = q
        /\ validator_registry[c].stake = r
  BY <1>1
<1>3. a \in Nat /\ b \in Nat /\ c \in Nat
  BY <1>1
<1> QED
  BY <1>2, <1>3 DEF Outranks

\* A committee is a list of addresses no longer than the code's limit.
LEMMA CommitteeType ==
  ASSUME NEW s \in Committees
  PROVE  /\ s \in Seq(Address) /\ Len(s) \in 0..MaxActive
         /\ DOMAIN s = 1..Len(s) /\ s \in [1..Len(s) -> Address]
         /\ Members(s) \subseteq Address
<1>1. PICK n \in 0..MaxActive : s \in [1..n -> Address]
  BY DEF Committees
<1>2. n \in Nat
  BY <1>1, PoSAAssumption
<1>3. s \in Seq(Address) /\ Len(s) = n
  BY <1>1, <1>2
<1> QED
  BY <1>1, <1>3 DEF Members

\* The place of an elected member is given by who outranks it.
LEMMA RankOfMember ==
  ASSUME PoSATypeOK, NEW s \in Committees, IsElected(s), NEW i \in DOMAIN s
  PROVE  /\ IsFiniteSet({m \in Members(s) : Outranks(m, s[i])})
         /\ Cardinality({m \in Members(s) : Outranks(m, s[i])}) = i - 1
<1> DEFINE Above == {m \in Members(s) : Outranks(m, s[i])}
           f == [j \in 1..(i - 1) |-> s[j]]
<1>1. DOMAIN s = 1..Len(s) /\ Len(s) \in Nat /\ i - 1 \in Nat
  BY CommitteeType
<1>2. /\ \A j \in DOMAIN s : s[j] \in Candidates
      /\ \A j, k \in DOMAIN s : j < k => Outranks(s[j], s[k])
  BY DEF IsElected
<1>3. \A j, k \in DOMAIN s : Outranks(s[j], s[k]) => j < k
  <2> SUFFICES ASSUME NEW j \in DOMAIN s, NEW k \in DOMAIN s, Outranks(s[j], s[k]), ~(j < k)
               PROVE  FALSE
    OBVIOUS
  <2>1. s[j] \in Candidates /\ s[k] \in Candidates
    BY <1>2
  <2>2. ~Outranks(s[k], s[k]) /\ ~(Outranks(s[j], s[k]) /\ Outranks(s[k], s[j]))
    BY <2>1, OutranksOrder
  <2>3. j = k \/ k < j
    BY <1>1
  <2> QED
    BY <1>2, <2>2, <2>3
<1>4. \A j \in 1..(i - 1) : j \in DOMAIN s /\ j < i /\ f[j] = s[j]
  BY <1>1
<1>5. f \in [1..(i - 1) -> Above]
  BY <1>2, <1>4 DEF Members
<1>6. \A m \in Above : \E j \in 1..(i - 1) : f[j] = m
  <2> SUFFICES ASSUME NEW m \in Above
               PROVE  \E j \in 1..(i - 1) : f[j] = m
    OBVIOUS
  <2>1. PICK j \in DOMAIN s : s[j] = m
    BY DEF Members
  <2>2. j \in 1..(i - 1)
    BY <1>1, <1>3, <2>1
  <2> QED
    BY <2>1, <2>2
<1>7. \A j, k \in 1..(i - 1) : f[j] = f[k] => j = k
  <2> SUFFICES ASSUME NEW j \in 1..(i - 1), NEW k \in 1..(i - 1), s[j] = s[k], j # k
               PROVE  FALSE
    OBVIOUS
  <2>1. j \in DOMAIN s /\ k \in DOMAIN s /\ (j < k \/ k < j)
    BY <1>1
  <2>2. Outranks(s[j], s[j]) /\ s[j] \in Candidates
    BY <1>2, <2>1
  <2> QED
    BY <2>2, OutranksOrder
<1>8. ExistsBijection(1..(i - 1), Above)
  <2> HIDE DEF Above, f
  <2>1. f \in Bijection(1..(i - 1), Above)
    BY <1>5, <1>6, <1>7 DEF Bijection, Injection, IsInjective, Surjection
  <2> QED
    BY <2>1 DEF ExistsBijection
<1> QED
  BY <1>1, <1>8, FS_NatBijection, FS_CountingElements

\* An elected committee has as many members as places.
LEMMA MembersCounted ==
  ASSUME PoSATypeOK, NEW s \in Committees, IsElected(s)
  PROVE  Cardinality(Members(s)) = Len(s)
<1>1. DOMAIN s = 1..Len(s) /\ Len(s) \in Nat
  BY CommitteeType
<1>2. \A j, k \in 1..Len(s) : s[j] = s[k] => j = k
  <2> SUFFICES ASSUME NEW j \in 1..Len(s), NEW k \in 1..Len(s), s[j] = s[k], j # k
               PROVE  FALSE
    OBVIOUS
  <2>1. j < k \/ k < j
    BY <1>1
  <2>2. Outranks(s[j], s[j]) /\ s[j] \in Candidates
    BY <1>1, <2>1 DEF IsElected
  <2> QED
    BY <2>2, OutranksOrder
<1>3. s \in [1..Len(s) -> Members(s)]
  BY <1>1, CommitteeType DEF Members
<1>4. s \in Bijection(1..Len(s), Members(s))
  BY <1>1, <1>2, <1>3 DEF Bijection, Injection, IsInjective, Surjection, Members
<1>5. ExistsBijection(1..Len(s), Members(s))
  BY <1>4 DEF ExistsBijection
<1> QED
  BY <1>1, <1>5, FS_NatBijection, FS_CountingElements

\* Two results of the election have the same members: where one has all the
\* places taken, nobody is left who could outrank one of them.
LEMMA SameMembers ==
  ASSUME PoSATypeOK, NEW s \in Committees, NEW t \in Committees, IsElected(s), IsElected(t)
  PROVE  Members(t) \subseteq Members(s)
<1> SUFFICES ASSUME NEW c \in Members(t), c \notin Members(s)
             PROVE  FALSE
  OBVIOUS
<1>1. /\ Members(s) \subseteq Candidates /\ Members(t) \subseteq Candidates
      /\ \A x \in Candidates \ Members(s), m \in Members(s) : Outranks(m, x)
      /\ \A x \in Candidates \ Members(t), m \in Members(t) : Outranks(m, x)
      /\ Len(s) = MaxActive \/ Members(s) = Candidates
  BY DEF IsElected, Members
<1>2. Len(s) = MaxActive
  BY <1>1
<1>3. Members(s) \subseteq Members(t)
  <2> SUFFICES ASSUME NEW m \in Members(s), m \notin Members(t)
               PROVE  FALSE
    OBVIOUS
  <2>1. c \in Candidates /\ m \in Candidates /\ Outranks(m, c) /\ Outranks(c, m)
    BY <1>1
  <2> QED
    BY <2>1, OutranksOrder
<1>4. PICK i \in DOMAIN t : t[i] = c
  BY DEF Members
<1>5. /\ DOMAIN s = 1..Len(s) /\ DOMAIN t = 1..Len(t)
      /\ Len(s) \in 0..MaxActive /\ Len(t) \in 0..MaxActive
  BY CommitteeType
<1>6. MaxActive \in DOMAIN s /\ MaxActive \in Nat
  BY <1>2, <1>5, PoSAAssumption
<1>7. Members(s) \subseteq {m \in Members(t) : Outranks(m, c)}
  <2>1. c \in Candidates \ Members(s)
    BY <1>1
  <2> QED
    BY <1>1, <1>3, <2>1
<1>8. /\ IsFiniteSet({m \in Members(t) : Outranks(m, c)})
      /\ Cardinality({m \in Members(t) : Outranks(m, c)}) = i - 1
  BY <1>4, RankOfMember
<1>9. Cardinality(Members(s)) <= i - 1 /\ IsFiniteSet(Members(s))
  BY <1>7, <1>8, FS_Subset
<1>10. Cardinality(Members(s)) = Len(s)
  BY MembersCounted
<1> QED
  BY <1>2, <1>4, <1>5, <1>6, <1>9, <1>10

\* The election has one result at most.
LEMMA ElectionUnique ==
  ASSUME PoSATypeOK, NEW s \in Committees, NEW t \in Committees, IsElected(s), IsElected(t)
  PROVE  s = t
<1>1. Members(s) = Members(t)
  BY SameMembers
<1>2. Len(s) = Len(t)
  BY <1>1, MembersCounted
<1>3. /\ DOMAIN s = 1..Len(s) /\ DOMAIN t = 1..Len(s) /\ Len(s) \in Nat
      /\ s \in [1..Len(s) -> Address] /\ t \in [1..Len(s) -> Address]
  BY <1>2, CommitteeType
<1>4. ASSUME NEW i \in 1..Len(s)
      PROVE  s[i] = t[i]
  <2>1. PICK j \in DOMAIN t : t[j] = s[i]
    BY <1>1, <1>3 DEF Members
  <2>2. /\ Cardinality({m \in Members(s) : Outranks(m, s[i])}) = i - 1
        /\ Cardinality({m \in Members(t) : Outranks(m, t[j])}) = j - 1
    BY <1>3, RankOfMember
  <2>3. i - 1 = j - 1
    BY <1>1, <2>1, <2>2
  <2>4. i = j
    BY <1>3, <2>1, <2>3
  <2> QED
    BY <2>1, <2>4
<1> QED
  BY <1>3, <1>4

\* Among finitely many candidates one outranks all others.
LEMMA HighestRanked ==
  ASSUME PoSATypeOK, NEW T \in SUBSET Candidates, IsFiniteSet(T), T # {}
  PROVE  \E a \in T : \A b \in T \ {a} : Outranks(a, b)
<1> DEFINE Above(a) == {b \in T : Outranks(b, a)}
           W == {Above(a) : a \in T}
<1>1. PICK U \in W : \A V \in SUBSET U : V # U => V \notin W
  <2>1. W \in SUBSET SUBSET T /\ W # {}
    OBVIOUS
  <2> HIDE DEF W
  <2> QED
    BY <2>1, MinimalSubset
<1>2. PICK a \in T : U = Above(a)
  OBVIOUS
<1>3. U = {}
  <2> SUFFICES ASSUME NEW b \in U
               PROVE  FALSE
    OBVIOUS
  <2>1. b \in T /\ Outranks(b, a)
    BY <1>2
  <2>2. Above(b) \subseteq U
    <3> SUFFICES ASSUME NEW c \in T, Outranks(c, b)
                 PROVE  Outranks(c, a)
      BY <1>2
    <3> QED
      BY <2>1, OutranksOrder
  <2>3. b \notin Above(b)
    BY <2>1, OutranksOrder
  <2>4. Above(b) \in W
    BY <2>1
  <2> HIDE DEF W, Above
  <2> QED
    BY <1>1, <2>2, <2>3, <2>4
<1>4. ASSUME NEW b \in T \ {a}
      PROVE  Outranks(a, b)
  <2>1. ~Outranks(b, a)
    BY <1>2, <1>3
  <2> QED
    BY <2>1, OutranksOrder
<1> QED
  BY <1>4

\* The best of the candidates, in their order, with T left over.
Leaves(s, T) ==
  /\ Members(s) = Candidates \ T
  /\ \A i, j \in DOMAIN s : i < j => Outranks(s[i], s[j])
  /\ \A c \in T, m \in Members(s) : Outranks(m, c)

\* A list with a place left can take the best of those left over.
LEMMA OneMoreElected ==
  ASSUME PoSATypeOK, NEW T \in SUBSET Candidates, IsFiniteSet(T), T # {},
         NEW s \in Committees, Leaves(s, T), Len(s) < MaxActive
  PROVE  \E a \in T : \E r \in Committees : Leaves(r, T \ {a})
<1>1. PICK a \in T : \A b \in T \ {a} : Outranks(a, b)
  BY HighestRanked
<1> DEFINE n == Len(s) + 1
           r == [i \in 1..n |-> IF i = n THEN a ELSE s[i]]
<1>2. /\ n \in 0..MaxActive /\ Len(s) \in Nat
      /\ DOMAIN s = 1..Len(s) /\ s \in [1..Len(s) -> Address]
  BY CommitteeType, PoSAAssumption
<1>3. a \in Address
  BY DEF Candidates, PoSATypeOK
<1>4. /\ DOMAIN r = 1..n /\ r[n] = a /\ n \in 1..n
      /\ \A i \in DOMAIN s : i \in 1..n /\ i < n /\ r[i] = s[i]
      /\ \A i \in 1..n : i = n \/ i \in DOMAIN s
  BY <1>2
<1>5. r \in Committees
  <2>1. r \in [1..n -> Address]
    BY <1>2, <1>3
  <2> QED
    BY <1>2, <2>1 DEF Committees
<1> HIDE DEF r
<1>6. Members(r) = Members(s) \cup {a}
  BY <1>4 DEF Members
<1>7. Members(r) = Candidates \ (T \ {a})
  BY <1>6 DEF Leaves
<1>8. ASSUME NEW i \in DOMAIN r, NEW j \in DOMAIN r, i < j
      PROVE  Outranks(r[i], r[j])
  <2>1. i \in DOMAIN s
    BY <1>2, <1>4, <1>8
  <2>2. CASE j = n
    BY <1>4, <2>1, <2>2 DEF Leaves, Members
  <2>3. CASE j \in DOMAIN s
    BY <1>4, <1>8, <2>1, <2>3 DEF Leaves
  <2> QED
    BY <1>4, <2>2, <2>3
<1>9. \A c \in T \ {a}, m \in Members(r) : Outranks(m, c)
  BY <1>1, <1>6 DEF Leaves
<1> QED
  BY <1>5, <1>7, <1>8, <1>9 DEF Leaves

\* The election of finitely many candidates has a result.
LEMMA ElectionExists ==
  ASSUME PoSATypeOK, IsFiniteSet(Candidates)
  PROVE  \E s \in Committees : IsElected(s)
<1> DEFINE W == {T \in SUBSET Candidates : \E s \in Committees : Leaves(s, T)}
<1>1. W # {}
  <2> DEFINE none == [i \in 1..0 |-> 0]
  <2>1. none \in Committees
    <3>1. none \in [1..0 -> Address] /\ 0 \in 0..MaxActive
      BY PoSAAssumption
    <3> QED
      BY <3>1 DEF Committees
  <2>2. Leaves(none, Candidates)
    BY DEF Leaves, Members
  <2>3. Candidates \in W
    BY <2>1, <2>2
  <2> QED
    BY <2>3
<1>2. PICK T \in W : \A U \in SUBSET T : U # T => U \notin W
  <2>1. W \in SUBSET SUBSET Candidates
    OBVIOUS
  <2> HIDE DEF W
  <2> QED
    BY <1>1, <2>1, MinimalSubset
<1>3. PICK s \in Committees : Leaves(s, T)
  OBVIOUS
<1>4. Len(s) = MaxActive \/ T = {}
  <2> SUFFICES ASSUME Len(s) # MaxActive, T # {}
               PROVE  FALSE
    OBVIOUS
  <2>1. Len(s) < MaxActive
    BY CommitteeType, PoSAAssumption
  <2>2. IsFiniteSet(T)
    BY FS_Subset
  <2>3. PICK a \in T : \E r \in Committees : Leaves(r, T \ {a})
    BY <1>3, <2>1, <2>2, OneMoreElected
  <2>4. T \ {a} \in W
    BY <2>3
  <2> HIDE DEF W
  <2> QED
    BY <1>2, <2>3, <2>4
<1>5. IsElected(s)
  <2>1. Candidates \ Members(s) = T
    BY <1>3 DEF Leaves
  <2> QED
    BY <1>3, <1>4, <2>1 DEF Leaves, IsElected, Members
<1> QED
  BY <1>5

-----------------------------------------------------------------------------
(* Each step keeps the invariant.                                          *)

LEMMA PoSAInitInv == PoSAInit => PoSAInv
  BY PoSAAssumption
  DEF PoSAInit, PoSAInv, PoSATypeOK, CommitteeIsStaked, ActiveFlagIsSound,
      NoDuplicates, NoEntries, Registered, Committee

LEMMA RegisterKeepsInv ==
  ASSUME PoSAInv, NEW a \in Address, NEW stake \in StakeInputs,
         RegisterValidator(a, stake)
  PROVE  PoSAInv'
<1>1. stake \in Nat /\ stake >= MinStake
  BY PoSAAssumption DEF RegisterValidator
<1>2. /\ Registered' = Registered \cup {a}
      /\ validator_registry'[a] = [stake |-> stake, active |-> FALSE]
      /\ \A x \in Registered \ {a} : validator_registry'[x] = validator_registry[x]
  BY DEF RegisterValidator, Put, Registered
<1>3. PoSATypeOK'
  BY <1>1 DEF PoSAInv, PoSATypeOK, RegisterValidator, Put, Registered
<1>4. validators' = validators /\ Committee' = Committee
  BY DEF RegisterValidator, Committee
<1>5. CommitteeIsStaked'
  BY <1>1, <1>2, <1>4 DEF PoSAInv, CommitteeIsStaked
<1>6. ActiveFlagIsSound'
  BY <1>2, <1>4 DEF PoSAInv, ActiveFlagIsSound
<1>7. NoDuplicates'
  BY <1>4 DEF PoSAInv, NoDuplicates
<1> QED
  BY <1>3, <1>5, <1>6, <1>7 DEF PoSAInv

LEMMA ElectKeepsInv ==
  ASSUME PoSAInv, NEW n \in Nat, Elect(n)
  PROVE  PoSAInv'
<1>1. PICK s \in Committees :
        /\ IsElected(s)
        /\ validators' = s
        /\ validator_registry' = Flagged(s)
  BY DEF Elect
<1>2. s \in Seq(Address) /\ Len(s) <= MaxActive /\ DOMAIN s = 1..Len(s)
  BY PoSAAssumption DEF Committees
<1>3. /\ Registered' = Registered
      /\ \A x \in Registered :
           validator_registry'[x] =
             [validator_registry[x] EXCEPT !.active = \E i \in DOMAIN s : s[i] = x]
  BY <1>1 DEF Flagged, Registered
<1>4. \A x \in Registered :
        /\ validator_registry'[x].stake = validator_registry[x].stake
        /\ validator_registry'[x].active => x \in Committee'
  <2> SUFFICES ASSUME NEW x \in Registered
               PROVE  /\ validator_registry'[x].stake = validator_registry[x].stake
                      /\ validator_registry'[x].active => x \in Committee'
    OBVIOUS
  <2>1. validator_registry[x] \in [stake : Nat, active : BOOLEAN]
    BY DEF PoSAInv, PoSATypeOK
  <2>2. validator_registry'[x].active = \E i \in DOMAIN s : s[i] = x
    BY <2>1, <1>3
  <2>3. validator_registry'[x].stake = validator_registry[x].stake
    BY <2>1, <1>3
  <2>4. (\E i \in DOMAIN s : s[i] = x) => x \in Committee'
    BY <1>1 DEF Committee
  <2> QED
    BY <2>2, <2>3, <2>4
<1>5. validator_registry' \in [Registered -> [stake : Nat, active : BOOLEAN]]
  BY <1>1 DEF PoSAInv, PoSATypeOK, Flagged
<1>6. last_epoch' \in Nat /\ pending_rewards' = NoEntries
  BY PoSAAssumption DEF Elect, Epoch
<1>7. PoSATypeOK'
  BY <1>1, <1>2, <1>3, <1>5, <1>6 DEF PoSAInv, PoSATypeOK, NoEntries
<1>8. CommitteeIsStaked'
  <2>1. Committee' \subseteq Candidates
    BY <1>1 DEF IsElected, Committee
  <2> QED
    BY <2>1, <1>3, <1>4 DEF CommitteeIsStaked, Candidates
<1>9. ActiveFlagIsSound'
  BY <1>3, <1>4 DEF ActiveFlagIsSound
<1>10. NoDuplicates'
  <2> SUFFICES ASSUME NEW i \in DOMAIN s, NEW j \in DOMAIN s, s[i] = s[j], i # j
               PROVE  FALSE
    BY <1>1 DEF NoDuplicates
  <2>1. s[i] \in Address /\ s[i] \in Registered
    BY <1>1, <1>2 DEF IsElected, Candidates
  <2>2. ~Outranks(s[i], s[i])
    BY <2>1, PoSAAssumption DEF Outranks, PoSAInv, PoSATypeOK
  <2>3. i < j \/ j < i
    BY <1>2
  <2> QED
    BY <1>1, <2>2, <2>3 DEF IsElected
<1> QED
  BY <1>7, <1>8, <1>9, <1>10 DEF PoSAInv

LEMMA SlashKeepsInv ==
  ASSUME PoSAInv, NEW a \in Address, NEW penalty \in Nat,
         SlashValidator(a, penalty)
  PROVE  PoSAInv'
<1> DEFINE old  == validator_registry[a]
           left == SaturatingSub(old.stake, penalty)
<1>1. /\ a \in Registered
      /\ old \in [stake : Nat, active : BOOLEAN]
      /\ left \in Nat
  BY DEF SlashValidator, SaturatingSub, PoSAInv, PoSATypeOK
<1>2. Registered \cup {a} = Registered /\ Registered' = Registered
  BY <1>1 DEF SlashValidator, Put, Registered
<1>3. last_epoch' = last_epoch /\ pending_rewards' = pending_rewards
  BY DEF SlashValidator
<1>4. Members(validators) = Committee /\ Distinct(validators)
      /\ validators \in Seq(Address)
  BY DEF Members, Committee, Distinct, PoSAInv, NoDuplicates, PoSATypeOK
<1>5. CASE left < MinStake
  <2>1. validator_registry' =
          Put(validator_registry, a, [stake |-> left, active |-> FALSE])
    BY <1>5 DEF SlashValidator
  <2>2. /\ validators' \in Seq(Address)
        /\ Len(validators') <= MaxActive
        /\ Distinct(validators')
        /\ Committee' = Committee \ {a}
    <3>1. CASE a \in Committee
      <4>1. validators' = Without(validators, a)
        BY <1>5, <3>1 DEF SlashValidator
      <4>2. /\ Without(validators, a) \in Seq(Address)
            /\ Len(Without(validators, a)) = Len(validators) - 1
            /\ Members(Without(validators, a)) = Members(validators) \ {a}
            /\ Distinct(Without(validators, a))
        BY <1>4, <3>1, WithoutProperties
      <4>3. Committee' = Members(validators')
        BY DEF Committee, Members
      <4> QED
        BY <4>1, <4>2, <4>3, <1>4, PoSAAssumption DEF PoSAInv, PoSATypeOK
    <3>2. CASE a \notin Committee
      <4>1. validators' = validators
        BY <1>5, <3>2 DEF SlashValidator
      <4> QED
        BY <4>1, <3>2, <1>4 DEF Committee, PoSAInv, PoSATypeOK
    <3> QED
      BY <3>1, <3>2
  <2>3. \A x \in Registered \ {a} : validator_registry'[x] = validator_registry[x]
    BY <2>1 DEF Put, Registered
  <2>4. validator_registry'[a] = [stake |-> left, active |-> FALSE]
    BY <2>1, <1>1 DEF Put, Registered
  <2>5. PoSATypeOK'
    <3>1. validator_registry' \in [Registered -> [stake : Nat, active : BOOLEAN]]
      BY <2>1, <1>1, <1>2 DEF Put, Registered, PoSAInv, PoSATypeOK
    <3> QED
      BY <3>1, <2>2, <1>2, <1>3 DEF PoSAInv, PoSATypeOK
  <2>6. CommitteeIsStaked'
    BY <2>2, <2>3, <1>2 DEF PoSAInv, CommitteeIsStaked
  <2>7. ActiveFlagIsSound'
    BY <2>2, <2>3, <2>4, <1>2 DEF PoSAInv, ActiveFlagIsSound
  <2>8. NoDuplicates'
    BY <2>2 DEF NoDuplicates, Distinct
  <2> QED
    BY <2>5, <2>6, <2>7, <2>8 DEF PoSAInv
<1>6. CASE ~(left < MinStake)
  <2>1. /\ validators' = validators
        /\ validator_registry' = Put(validator_registry, a, [old EXCEPT !.stake = left])
    BY <1>6 DEF SlashValidator
  <2>2. /\ validator_registry'[a].stake = left
        /\ validator_registry'[a].active = old.active
        /\ \A x \in Registered \ {a} : validator_registry'[x] = validator_registry[x]
    BY <2>1, <1>1 DEF Put, Registered
  <2>3. Committee' = Committee
    BY <2>1 DEF Committee
  <2>4. PoSATypeOK'
    <3>1. validator_registry' \in [Registered -> [stake : Nat, active : BOOLEAN]]
      BY <2>1, <1>1, <1>2 DEF Put, Registered, PoSAInv, PoSATypeOK
    <3> QED
      BY <3>1, <2>1, <1>2, <1>3 DEF PoSAInv, PoSATypeOK
  <2>5. CommitteeIsStaked'
    <3>1. ASSUME NEW x \in Committee
          PROVE  x \in Registered /\ validator_registry'[x].stake >= MinStake
      <4>1. x \in Registered /\ validator_registry[x].stake >= MinStake
        BY DEF PoSAInv, CommitteeIsStaked
      <4>2. left >= MinStake
        BY <1>1, <1>6, PoSAAssumption
      <4>3. CASE x = a
        BY <4>1, <4>2, <4>3, <2>2
      <4>4. CASE x # a
        BY <4>1, <4>4, <2>2
      <4> QED
        BY <4>3, <4>4
    <3> QED
      BY <3>1, <2>3, <1>2 DEF CommitteeIsStaked
  <2>6. ActiveFlagIsSound'
    BY <2>2, <2>3, <1>1, <1>2 DEF PoSAInv, ActiveFlagIsSound
  <2>7. NoDuplicates'
    BY <2>1 DEF PoSAInv, NoDuplicates
  <2> QED
    BY <2>4, <2>5, <2>6, <2>7 DEF PoSAInv
<1> QED
  BY <1>5, <1>6

LEMMA RewardKeepsInv ==
  ASSUME PoSAInv, NEW a \in Address, NEW reward \in RewardInputs,
         RecordBlockReward(a, reward)
  PROVE  PoSAInv'
<1> DEFINE old == IF a \in DOMAIN pending_rewards THEN pending_rewards[a] ELSE 0
<1>1. old \in Nat /\ (old + reward) % (U64Max + 1) \in 0..U64Max
  BY PoSAAssumption DEF PoSAInv, PoSATypeOK
<1>2. DOMAIN pending_rewards' \subseteq Address
      /\ pending_rewards' \in [DOMAIN pending_rewards' -> 0..U64Max]
  BY <1>1 DEF RecordBlockReward, Put, PoSAInv, PoSATypeOK
<1> QED
  BY <1>2 DEF RecordBlockReward, PoSAInv, PoSATypeOK, CommitteeIsStaked,
     ActiveFlagIsSound, NoDuplicates, Registered, Committee

\* The penalties a slashing reason leads to are natural numbers.
LEMMA PenaltyType ==
  ASSUME NEW reason \in SlashingReason, NEW total \in TotalInputs
  PROVE  CalculatePenalty(reason, total) \in Nat
  BY PoSAAssumption DEF CalculatePenalty, SlashingReason

LEMMA UpdateEpochKeepsInv ==
  ASSUME PoSAInv, NEW n \in Nat, UpdateEpoch(n)
  PROVE  PoSAInv'
<1>1. CASE UNCHANGED posaVars
  BY <1>1 DEF posaVars, PoSAInv, PoSATypeOK, CommitteeIsStaked,
     ActiveFlagIsSound, NoDuplicates, Registered, Committee
<1>2. CASE Elect(n)
  BY <1>2, ElectKeepsInv
<1> QED
  BY <1>1, <1>2 DEF UpdateEpoch

LEMMA PoSAStepInv == PoSAInv /\ [PoSANext]_posaVars => PoSAInv'
<1> SUFFICES ASSUME PoSAInv, [PoSANext]_posaVars
             PROVE  PoSAInv'
  OBVIOUS
<1>1. CASE \E a \in Address, s \in StakeInputs : RegisterValidator(a, s)
  BY <1>1, RegisterKeepsInv
<1>2. CASE \E n \in BlockInputs : UpdateEpoch(n)
  BY <1>2, UpdateEpochKeepsInv, PoSAAssumption
<1>3. CASE \E a \in Address, p \in PenaltyInputs : SlashValidator(a, p)
  BY <1>3, SlashKeepsInv, PoSAAssumption
<1>4. CASE \E a \in Address, reason \in SlashingReason, total \in TotalInputs :
             Slash(a, reason, total)
  BY <1>4, SlashKeepsInv, PenaltyType DEF Slash
<1>5. CASE \E a \in Address, r \in RewardInputs : RecordBlockReward(a, r)
  BY <1>5, RewardKeepsInv
<1>6. CASE UNCHANGED posaVars
  BY <1>6 DEF posaVars, PoSAInv, PoSATypeOK, CommitteeIsStaked,
     ActiveFlagIsSound, NoDuplicates, Registered, Committee
<1> QED
  BY <1>1, <1>2, <1>3, <1>4, <1>5, <1>6 DEF PoSANext

-----------------------------------------------------------------------------

\* The inductive invariant holds of the engine under every sequence of calls.
THEOREM PoSAInvariant == PoSASpec => []PoSAInv
<1> QED
  BY PoSAInitInv, PoSAStepInv, PTL DEF PoSASpec

\* The fields of the engine keep their types, and the committee its bound.
THEOREM PoSATypeCorrect == PoSASpec => []PoSATypeOK
<1>1. PoSAInv => PoSATypeOK
  BY DEF PoSAInv
<1> QED
  BY <1>1, PoSAInvariant, PTL

\* Slashing, re-registration and elections never leave a committee member
\* with less than the minimum stake.
THEOREM CommitteeAlwaysStaked == PoSASpec => []CommitteeIsStaked
<1>1. PoSAInv => CommitteeIsStaked
  BY DEF PoSAInv
<1> QED
  BY <1>1, PoSAInvariant, PTL

\* A validator flagged active is on the committee.
THEOREM ActiveFlagAlwaysSound == PoSASpec => []ActiveFlagIsSound
<1>1. PoSAInv => ActiveFlagIsSound
  BY DEF PoSAInv
<1> QED
  BY <1>1, PoSAInvariant, PTL

\* In every window of as many blocks as there are members, each member
\* proposes exactly one: the committee has no duplicates, and the remainders
\* of consecutive heights run through its places.
THEOREM RotationAlwaysFair == PoSASpec => []RotationIsFair
<1>1. PoSAInv => RotationIsFair
  <2> SUFFICES ASSUME PoSAInv, NEW n \in BlockInputs, NEW a \in Committee
               PROVE  Cardinality({k \in 0..(Len(validators) - 1) :
                                     Proposer(validators, n + k) = a}) = 1
    BY DEF RotationIsFair
  <2> DEFINE L == Len(validators)
             turns == {k \in 0..(L - 1) : Proposer(validators, n + k) = a}
  <2>1. DOMAIN validators = 1..L /\ L \in Nat
    BY DEF PoSAInv, PoSATypeOK
  <2>2. PICK i \in 1..L : validators[i] = a
    BY <2>1 DEF Committee
  <2>3. L \in Nat \ {0} /\ n \in Nat /\ i - 1 \in 0..(L - 1)
    BY <2>1, <2>2, PoSAAssumption
  <2>4. PICK k \in 0..(L - 1) :
          \A j \in 0..(L - 1) : (n + j) % L = i - 1 <=> j = k
    BY <2>3, OneTurnEach
  <2>5. ASSUME NEW j \in 0..(L - 1)
        PROVE  Proposer(validators, n + j) = a <=> j = k
    <3>1. (n + j) % L \in 0..(L - 1)
      <4>1. n + j \in Nat /\ 0 \in 0..(L - 1)
        BY <2>3
      <4> QED
        BY <2>3, <4>1, RemainderAhead
    <3>2. ((n + j) % L) + 1 \in 1..L
      BY <2>3, <3>1
    <3>3. Proposer(validators, n + j) = a <=> ((n + j) % L) + 1 = i
      BY <2>1, <2>2, <3>2 DEF Proposer, PoSAInv, NoDuplicates
    <3> QED
      BY <2>3, <2>4, <3>1, <3>3
  <2>6. turns = {k}
    BY <2>5
  <2> QED
    BY <2>6, FS_Singleton
<1> QED
  BY <1>1, PoSAInvariant, PTL

\* What an election would return: one committee and no other.
OneCommitteeIsElected ==
  \E s \in Committees : \A t \in Committees : IsElected(t) <=> t = s

\* Whoever has registered and been slashed, an election has exactly one
\* result: update_epoch never fails to elect for want of a committee (with no
\* candidate it is the empty one), and engines with the same registry elect
\* the same committee in the same order, whatever order their hash maps have.
THEOREM ElectionAlwaysDecided == PoSASpec => []OneCommitteeIsElected
<1> DEFINE Fin == IsFiniteSet(Registered)
<1>1. PoSAInit => Fin
  BY FS_EmptySet DEF PoSAInit, Registered, NoEntries
<1>2. Fin /\ [PoSANext]_posaVars => Fin'
  <2> SUFFICES ASSUME Fin, [PoSANext]_posaVars PROVE Fin'
    OBVIOUS
  <2>1. Registered' = Registered \/ \E a \in Address : Registered' = Registered \cup {a}
    <3>1. ASSUME NEW a \in Address, NEW st, RegisterValidator(a, st)
          PROVE  Registered' = Registered \cup {a}
      BY <3>1 DEF RegisterValidator, Registered, Put
    <3>2. ASSUME NEW a \in Address, NEW p, SlashValidator(a, p)
          PROVE  Registered' = Registered \cup {a}
      BY <3>2 DEF SlashValidator, Registered, Put
    <3>3. ASSUME NEW n \in BlockInputs, UpdateEpoch(n)
          PROVE  Registered' = Registered
      BY <3>3 DEF UpdateEpoch, Elect, Flagged, Registered, posaVars
    <3>4. CASE UNCHANGED validator_registry
      BY <3>4 DEF Registered
    <3>5. ASSUME NEW a, NEW r, RecordBlockReward(a, r)
          PROVE  UNCHANGED validator_registry
      BY <3>5 DEF RecordBlockReward
    <3> QED
      BY <3>1, <3>2, <3>3, <3>4, <3>5 DEF PoSANext, Slash, posaVars
  <2> QED
    BY <2>1, FS_AddElement
<1>3. PoSAInv /\ Fin => OneCommitteeIsElected
  <2> SUFFICES ASSUME PoSATypeOK, Fin PROVE OneCommitteeIsElected
    BY DEF PoSAInv
  <2>1. IsFiniteSet(Candidates)
    BY FS_Subset DEF Candidates
  <2>2. PICK s \in Committees : IsElected(s)
    BY <2>1, ElectionExists
  <2> QED
    BY <2>2, ElectionUnique DEF OneCommitteeIsElected
<1> QED
  BY <1>1, <1>2, <1>3, PoSAInvariant, PTL DEF PoSASpec

\* While there is a committee the epoch never goes back, and between two
\* elections nobody joins and the members keep their order, whatever the
\* callers do.
THEOREM CommitteeShrinksInEpoch == PoSASpec => CommitteeOnlyShrinksInEpoch
<1> DEFINE Ordered ==
             /\ Len(validators') < Len(validators)
             /\ \A i, j \in DOMAIN validators' : i < j =>
                  \E k, l \in DOMAIN validators :
                    k < l /\ validators[k] = validators'[i]
                          /\ validators[l] = validators'[j]
           Shrinks ==
             validators # <<>> =>
               /\ last_epoch' >= last_epoch
               /\ last_epoch' = last_epoch /\ validators' # validators => Ordered
<1>1. ASSUME PoSAInv, [PoSANext]_posaVars
      PROVE  [Shrinks]_posaVars
  <2> SUFFICES ASSUME PoSANext
               PROVE  Shrinks
    BY <1>1
  <2>1. last_epoch \in Int
    BY <1>1 DEF PoSAInv, PoSATypeOK
  <2>2. ASSUME UNCHANGED <<validators, last_epoch>>
        PROVE  Shrinks
    BY <2>1, <2>2
  <2>3. ASSUME NEW a, NEW p, SlashValidator(a, p)
        PROVE  Shrinks
    <3>1. CASE UNCHANGED validators
      BY <2>2, <2>3, <3>1 DEF SlashValidator
    <3>2. CASE a \in Committee /\ validators' = Without(validators, a)
      <4>1. /\ a \in Members(validators)
            /\ Distinct(validators)
            /\ validators \in Seq(Address)
        <5>1. PoSATypeOK /\ NoDuplicates
          BY <1>1 DEF PoSAInv
        <5> QED
          BY <3>2, <5>1 DEF Members, Committee, Distinct, NoDuplicates, PoSATypeOK
      <4>2. /\ Len(validators') = Len(validators) - 1
            /\ \A i, j \in DOMAIN validators' : i < j =>
                 \E k, l \in DOMAIN validators :
                   k < l /\ validators[k] = validators'[i]
                         /\ validators[l] = validators'[j]
        BY <3>2, <4>1, WithoutProperties
      <4>3. Len(validators') < Len(validators)
        BY <4>1, <4>2
      <4>4. Ordered
        BY <4>2, <4>3, Zenon
      <4>5. last_epoch' >= last_epoch
        BY <2>1, <2>3 DEF SlashValidator
      <4> QED
        BY <4>4, <4>5, Zenon
    <3> QED
      BY <2>3, <3>1, <3>2 DEF SlashValidator
  <2>4. ASSUME NEW n \in BlockInputs, UpdateEpoch(n)
        PROVE  Shrinks
    <3>1. CASE UNCHANGED posaVars
      BY <2>2, <3>1 DEF posaVars
    <3>2. CASE Elect(n)
      <4>1. /\ last_epoch' = Epoch(n) /\ Epoch(n) \in Int
            /\ validators # <<>> => ~(Epoch(n) <= last_epoch)
        BY <3>2, PoSAAssumption DEF Elect, EpochIsCurrent, Epoch
      <4>2. validators # <<>> => last_epoch' >= last_epoch /\ last_epoch' # last_epoch
        BY <2>1, <4>1
      <4> QED
        BY <4>2, Zenon
    <3> QED
      BY <2>4, <3>1, <3>2 DEF UpdateEpoch
  <2>5. ASSUME NEW a, NEW s, RegisterValidator(a, s)
        PROVE  Shrinks
    BY <2>2, <2>5 DEF RegisterValidator
  <2>6. ASSUME NEW a, NEW r, RecordBlockReward(a, r)
        PROVE  Shrinks
    BY <2>2, <2>6 DEF RecordBlockReward
  <2> QED
    BY <2>3, <2>4, <2>5, <2>6 DEF PoSANext, Slash
<1> QED
  BY <1>1, PoSAInvariant, PTL DEF PoSASpec, CommitteeOnlyShrinksInEpoch
=============================================================================

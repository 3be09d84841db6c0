---------------------------- MODULE OrderLemmas ----------------------------
(***************************************************************************)
(* Facts about finite sets and natural numbers that the proofs of several  *)
(* components rest on.                                                     *)
(***************************************************************************)
EXTENDS Integers, FiniteSetTheorems, TLAPS

\* A proper subset of a finite set is smaller.
LEMMA SmallerSubset ==
  ASSUME NEW S, IsFiniteSet(S), NEW A \in SUBSET S, NEW B \in SUBSET S,
         A \subseteq B
  PROVE  /\ Cardinality(A) \in Nat /\ Cardinality(B) \in Nat
         /\ Cardinality(A) <= Cardinality(B)
         /\ A # B => Cardinality(A) < Cardinality(B)
<1>1. IsFiniteSet(A) /\ IsFiniteSet(B)
  BY FS_Subset
<1>2. Cardinality(A) \in Nat /\ Cardinality(B) \in Nat
  BY <1>1, FS_CardinalityType
<1>3. Cardinality(A) <= Cardinality(B) /\ (Cardinality(B) = Cardinality(A) => B = A)
  BY <1>1, FS_Subset
<1> QED
  BY <1>2, <1>3

\* A set of natural numbers has a least member.
LEMMA LeastNatural ==
  ASSUME NEW S \in SUBSET Nat, S # {}
  PROVE  \E n \in S : \A m \in S : n <= m
<1> DEFINE Below(n) == {m \in S : m < n}
           T == {Below(n) : n \in S}
<1>1. ASSUME NEW n \in S
      PROVE  Below(n) \in SUBSET S /\ IsFiniteSet(Below(n))
  <2>1. n \in Int /\ 0 \in Int
    OBVIOUS
  <2>2. Below(n) \in SUBSET (0..n)
    <3> SUFFICES ASSUME NEW m \in S, m < n PROVE m \in 0..n
      OBVIOUS
    <3> QED
      BY <2>1
  <2>3. IsFiniteSet(0..n)
    BY <2>1, FS_Interval
  <2> HIDE DEF Below
  <2>4. IsFiniteSet(Below(n))
    BY <2>2, <2>3, FS_Subset
  <2> QED
    BY <2>4 DEF Below
<1>2. ASSUME NEW m \in S, NEW n \in S, m < n
      PROVE  Below(m) \subseteq Below(n) /\ Below(m) # Below(n)
  <2>1. m \in Below(n) /\ m \notin Below(m)
    BY <1>2
  <2>2. ASSUME NEW l \in Below(m) PROVE l \in Below(n)
    BY <1>2
  <2> QED
    BY <2>1, <2>2
<1>3. T \subseteq FiniteSubsetsOf(S) /\ T # {}
  BY <1>1 DEF FiniteSubsetsOf
<1>4. PICK B \in T : \A C \in T : <<C, B>> \notin StrictSubsetOrdering(S)
  <2> HIDE DEF T
  <2> QED
    BY <1>3, FS_StrictSubsetOrderingWellFounded, WFMin
<1>5. PICK n \in S : B = Below(n)
  OBVIOUS
<1>6. ASSUME NEW m \in S, m < n PROVE FALSE
  <2>1. Below(m) \in T
    OBVIOUS
  <2> HIDE DEF Below, T
  <2> QED
    BY <1>1, <1>2, <1>4, <1>5, <1>6, <2>1 DEF StrictSubsetOrdering
<1> QED
  BY <1>6

\* A set of natural numbers with an upper bound has a greatest member.
LEMMA GreatestNatural ==
  ASSUME NEW S \in SUBSET Nat, S # {}, NEW b \in Nat, \A n \in S : n <= b
  PROVE  \E n \in S : \A m \in S : m <= n
<1> DEFINE D == {b - n : n \in S}
<1>1. D \in SUBSET Nat /\ D # {}
  <2>1. ASSUME NEW n \in S PROVE b - n \in Nat
    OBVIOUS
  <2> QED
    BY <2>1
<1>2. PICK d \in D : \A e \in D : d <= e
  <2> HIDE DEF D
  <2> QED
    BY <1>1, LeastNatural
<1>3. PICK n \in S : d = b - n
  OBVIOUS
<1>4. ASSUME NEW m \in S PROVE m <= n
  <2>1. b - m \in D
    OBVIOUS
  <2> QED
    BY <1>2, <1>3, <2>1
<1> QED
  BY <1>4

-----------------------------------------------------------------------------
(* Arithmetic.                                                             *)

LEMMA QuotientTells ==
  ASSUME NEW a \in Nat, NEW b \in Nat \ {0}
  PROVE  /\ a \div b \in Nat
         /\ a >= b => a \div b >= 1
         /\ a < b => a \div b = 0
BY SMTT(30)

LEMMA ProductTells ==
  ASSUME NEW a \in Nat \ {0}, NEW b \in Nat
  PROVE  a * b \in Nat /\ (a * b = 0 <=> b = 0)
BY SMTT(30)

\* The average of natural numbers, its last digit rounded up, is a natural number,
\* and zero only if all of them are.
LEMMA RoundedAverage ==
  ASSUME NEW q \in Nat \ {0}, NEW x \in Nat \ {0}, NEW p \in Nat, NEW y \in Nat,
         NEW a, a = (q * p + x * y + (q + x - 1)) \div (q + x)
  PROVE  a \in Nat /\ (a = 0 <=> p = 0 /\ y = 0)
<1>1. PICK m \in Nat, n \in Nat : m = q * p /\ n = x * y
  BY ProductTells
<1>2. (m = 0 <=> p = 0) /\ (n = 0 <=> y = 0)
  BY <1>1, ProductTells
<1>3. PICK s \in Nat \ {0}, t \in Nat : s = q + x /\ t = m + n + (s - 1)
  BY <1>1
<1>4. a = t \div s
  BY <1>1, <1>3
<1>5. t >= s <=> m # 0 \/ n # 0
  BY <1>1, <1>3
<1>6. /\ t \div s \in Nat
      /\ t >= s => t \div s >= 1
      /\ t < s => t \div s = 0
  BY QuotientTells
<1> QED
  BY <1>2, <1>3, <1>4, <1>5, <1>6

=============================================================================

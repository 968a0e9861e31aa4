---------------------------- MODULE NumberFacts -----------------------------
(***************************************************************************)
(* Least and greatest members of sets of numbers, and remainders of        *)
(* numbers less than two turns along a ring.                               *)
(***************************************************************************)
EXTENDS Integers, FiniteSetsExt, TLAPS, WellFoundedInduction

\* A set of numbers that is not empty has a least member.
LEMMA MinExists ==
  ASSUME NEW S \in SUBSET Nat, S # {}
  PROVE  Min(S) \in S /\ \A k \in S : Min(S) <= k
<1> DEFINE R == {p \in Nat \X Nat : p[1] < p[2]}
<1>1. IsWellFoundedOn(R, Nat)
  BY NatLessThanWellFounded, Zenon DEF OpToRel
<1> HIDE DEF R
<1>2. PICK m \in S : \A k \in S : ~(<<k, m>> \in R)
  BY <1>1, WFMin, Zenon
<1>3. \A k, l \in Nat : k < l => <<k, l>> \in R
  BY DEF R
<1>4. \A k \in S : m <= k
  <2> TAKE k \in S
  <2>1. k \in Nat /\ m \in Nat
    OBVIOUS
  <2>2. ~(k < m)
    BY <1>2, <1>3, <2>1, Zenon
  <2> QED BY <2>1, <2>2
<1> QED BY <1>4, Zenon DEF Min

\* A bounded one has a greatest member.
LEMMA MaxExists ==
  ASSUME NEW S \in SUBSET Nat, S # {}, NEW b \in Nat, \A k \in S : k <= b
  PROVE  Max(S) \in S /\ \A k \in S : k <= Max(S)
<1> DEFINE T == {b - k : k \in S}
<1>1. T \in SUBSET Nat /\ T # {}
  <2>1. \A k \in S : b - k \in Nat
    OBVIOUS
  <2>2. PICK k \in S : TRUE
    OBVIOUS
  <2>3. b - k \in T
    BY <2>2
  <2> QED BY <2>1, <2>3
<1>2. Min(T) \in T /\ \A k \in T : Min(T) <= k
  BY <1>1, MinExists
<1>3. PICK m \in S : Min(T) = b - m
  BY <1>2
<1>4. \A k \in S : k <= m
  <2> TAKE k \in S
  <2>1. b - m <= b - k
    BY <1>2, <1>3
  <2> QED BY <2>1
<1> QED BY <1>4, Zenon DEF Max

\* A position less than two turns along the ring is reduced by at most one turn.
LEMMA RingSlot ==
  ASSUME NEW c \in Nat \ {0}, NEW k \in Nat, k < 2 * c
  PROVE  k % c = (IF k < c THEN k ELSE k - c) /\ k % c \in 0 .. c - 1
<1>1. k < c => k % c = k
  OBVIOUS
<1>2. k >= c => k % c = k - c
  OBVIOUS
<1> QED BY <1>1, <1>2
=============================================================================

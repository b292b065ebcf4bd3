---------------------------- MODULE FdSetsProofs ----------------------------
(* The maxima of descriptor sets, for every capacity of a set.             *)
EXTENDS FdSets, TLAPS, WellFoundedInduction

\* A non-empty set of naturals with a bound has a maximum.
LEMMA MaxExists ==
    ASSUME NEW N \in Nat, NEW S, S \subseteq 0 .. N, S # {}
    PROVE  Max(S) \in S /\ \A y \in S : y <= Max(S)
<1> DEFINE Depth == {N - s : s \in S}
<1>2. Depth \subseteq Nat /\ Depth # {}
  <2>1. \A s \in S : s \in 0 .. N
    OBVIOUS
  <2>2. \A s \in S : N - s \in Nat
    BY <2>1
  <2>3. PICK s \in S : TRUE
    OBVIOUS
  <2>4. N - s \in Depth
    OBVIOUS
  <2> QED BY <2>2, <2>4
<1> DEFINE R == OpToRel(<, Nat)
<1>1. \A x, y \in Nat : x < y => <<x, y>> \in R
  BY DEF OpToRel
<1>3. \E d \in Depth : \A y \in Depth : ~ (<<y, d>> \in R)
  <2> HIDE DEF R, Depth
  <2>1. IsWellFoundedOn(R, Nat)
    BY NatLessThanWellFounded DEF R
  <2> QED BY <1>2, <2>1, WFMin
<1>4. PICK d \in Depth : \A y \in Depth : ~ (y < d)
  BY <1>1, <1>2, <1>3
<1>5. PICK m \in S : d = N - m
  OBVIOUS
<1>6. \A s \in S : s <= m
  <2> TAKE s \in S
  <2>1. N - s \in Depth
    OBVIOUS
  <2>2. ~ (N - s < N - m)
    BY <1>4, <1>5, <2>1
  <2> QED BY <2>2
<1>7. \E x \in S : \A y \in S : x >= y
  BY <1>6
<1> QED BY <1>7 DEF Max

\* What the loops that lower a maximum stop at: the highest bit still set.
LEMMA LoweredIsHighest ==
    ASSUME NEW set, set \subseteq 0 .. FdSetSize,
           NEW max \in Nat, \E fd \in set : fd <= max
    PROVE  /\ Lowered(max, set) \in set
           /\ \A fd \in set : fd <= max => fd <= Lowered(max, set)
<1> DEFINE below == {fd \in set : fd <= max}
<1>1. below \subseteq 0 .. FdSetSize /\ below # {}
  OBVIOUS
<1>2. Max(below) \in below /\ \A fd \in below : fd <= Max(below)
  <2> HIDE DEF below
  <2> QED BY <1>1, MaxExists, FdSetSizeAssumption
<1> QED BY <1>2 DEF Lowered
=============================================================================

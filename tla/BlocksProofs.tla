---------------------------- MODULE BlocksProofs ----------------------------
(* The size of what encrypt makes, for every size of block.                *)
EXTENDS Blocks, TLAPS

\* valid_size holds the plaintext, the mark and one zero; it is whole blocks,
\* and less than one block longer than it has to be.
LEMMA ValidSizeHolds ==
    ASSUME NEW n \in Nat
    PROVE  /\ ValidSize(n) \in Nat
           /\ ValidSize(n) >= n + 2
           /\ ValidSize(n) < n + 2 + Block
           /\ ValidSize(n) % Block = 0
<1> DEFINE q == n \div Block
           r == n % Block
<1>1. /\ q \in Nat
      /\ r \in 0 .. Block - 1
      /\ n = q * Block + r
  BY SMT, BlockAssumption
<1>2. RoundedDown(n) = q * Block
  BY DEF RoundedDown
<1>3. q * Block \in Nat
  BY <1>1, BlockAssumption
<1>4. RoundedUp(n) = IF r > 0 THEN q * Block + Block ELSE q * Block
  <2> HIDE DEF q, r
  <2> QED BY <1>1, <1>2, <1>3, BlockAssumption DEF RoundedUp
<1>5. ValidSize(n) \in {q * Block + Block, q * Block + Block + Block}
  <2> HIDE DEF q, r
  <2> QED BY <1>1, <1>3, <1>4, BlockAssumption DEF ValidSize
<1>6. /\ ValidSize(n) \in Nat
      /\ ValidSize(n) >= n + 2
      /\ ValidSize(n) < n + 2 + Block
  <2> HIDE DEF q, r
  <2> QED BY <1>1, <1>3, <1>4, BlockAssumption DEF ValidSize
<1>7. \A k \in Nat : (k * Block) % Block = 0
  BY SMT, BlockAssumption
<1>8. \E k \in Nat : ValidSize(n) = k * Block
  <2> HIDE DEF q, r
  <2>1. q * Block + Block = (q + 1) * Block
    BY <1>1, BlockAssumption
  <2>2. q * Block + Block + Block = (q + 2) * Block
    BY <1>1, BlockAssumption
  <2> QED BY <1>1, <1>5, <2>1, <2>2
<1> QED BY <1>6, <1>7, <1>8
=============================================================================

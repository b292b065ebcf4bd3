--------------------------- MODULE PaddingProofs ---------------------------
(* What Padding states, for every plaintext and every block size.          *)
EXTENDS Padding, BlocksProofs

\* The padded plaintext: its length and its bytes.
LEMMA PaddedFacts ==
    ASSUME NEW s \in Seq(Byte)
    PROVE  /\ Padded(s) \in Seq(Byte)
           /\ Len(Padded(s)) = ValidSize(Len(s))
           /\ \A i \in 1 .. Len(s) : Padded(s)[i] = s[i]
           /\ Padded(s)[Len(s) + 1] = Mark
           /\ \A i \in Len(s) + 2 .. Len(Padded(s)) : Padded(s)[i] = Zero
<1>1. Len(s) \in Nat /\ \A i \in 1 .. Len(s) : s[i] \in Byte
  OBVIOUS
<1>2. ValidSize(Len(s)) \in Nat /\ ValidSize(Len(s)) >= Len(s) + 2
  BY <1>1, ValidSizeHolds
<1>3. Padded(s) \in [1 .. ValidSize(Len(s)) -> Byte]
  BY <1>1, ByteAssumption DEF Padded
<1>4. Padded(s) \in Seq(Byte) /\ Len(Padded(s)) = ValidSize(Len(s))
  BY <1>2, <1>3
<1>5. \A i \in 1 .. ValidSize(Len(s)) :
         Padded(s)[i] = IF i <= Len(s) THEN s[i] ELSE IF i = Len(s) + 1 THEN Mark ELSE Zero
  BY DEF Padded
<1> QED BY <1>1, <1>2, <1>4, <1>5

-----------------------------------------------------------------------------
LEMMA InitInv == Init => IInv
<1> SUFFICES ASSUME Init PROVE IInv
  OBVIOUS
<1>1. src \in Seq(Byte)
  <2>1. PICK n \in 0 .. MaxSize : src \in [1 .. n -> Byte]
    BY DEF Init
  <2> QED BY <2>1, SizeAssumption
<1> QED BY <1>1 DEF Init, IInv, TypeOK, ScanStaysInPadding

LEMMA NextInv == IInv /\ [Next]_vars => IInv'
<1> SUFFICES ASSUME IInv, [Next]_vars PROVE IInv'
  OBVIOUS
<1> USE DEF IInv, TypeOK
<1>1. /\ Len(src) \in Nat
      /\ Padded(src) \in Seq(Byte)
      /\ Len(Padded(src)) \in Nat
      /\ Len(Padded(src)) >= Len(src) + 2
  <2>1. src \in Seq(Byte) /\ Len(src) \in Nat
    OBVIOUS
  <2>2. ValidSize(Len(src)) \in Nat /\ ValidSize(Len(src)) >= Len(src) + 2
    BY <2>1, ValidSizeHolds
  <2>3. Padded(src) \in Seq(Byte) /\ Len(Padded(src)) = ValidSize(Len(src))
    BY <2>1, PaddedFacts
  <2> QED BY <2>1, <2>2, <2>3
<1>2. CASE Refuse
  BY <1>2 DEF Refuse, ScanStaysInPadding
<1>3. CASE Encrypt
  BY <1>1, <1>3 DEF Encrypt, ScanStaysInPadding
\* The scan is in the padding, so it sees a zero, and the mark if it is at the end.
<1>4. ASSUME pc = "scan"
      PROVE  /\ EndsInZero
             /\ MarkBeforeEnd <=> realSize = Len(src) + 2
  <2>1. realSize \in Len(src) + 2 .. Len(Padded(src)) /\ buf = Padded(src)
    BY <1>4 DEF ScanStaysInPadding
  <2>2. EndsInZero
    BY <1>1, <2>1, PaddedFacts DEF EndsInZero
  <2>3. ASSUME realSize = Len(src) + 2 PROVE MarkBeforeEnd
    <3>1. realSize - 1 = Len(src) + 1
      BY <1>1, <2>3
    <3> QED BY <2>1, <3>1, PaddedFacts DEF MarkBeforeEnd
  <2>4. ASSUME realSize # Len(src) + 2 PROVE ~MarkBeforeEnd
    <3>1. realSize - 1 \in Len(src) + 2 .. Len(Padded(src))
      BY <1>1, <2>1, <2>4
    <3> QED BY <2>1, <3>1, PaddedFacts, ByteAssumption DEF MarkBeforeEnd
  <2> QED BY <2>2, <2>3, <2>4
<1>5. CASE Back
  <2>1. realSize \in Len(src) + 2 .. Len(buf) /\ realSize # Len(src) + 2
    BY <1>4, <1>5 DEF Back, ScanStaysInPadding
  <2>2. realSize' \in Len(src) + 2 .. Len(buf)
    BY <1>1, <1>5, <2>1 DEF Back
  <2> QED BY <1>1, <1>5, <2>2 DEF Back, ScanStaysInPadding
<1>6. CASE Found
  BY <1>1, <1>4, <1>6 DEF Found, ScanStaysInPadding
<1>7. CASE UNCHANGED vars
  BY <1>7 DEF vars, ScanStaysInPadding
<1> QED BY <1>2, <1>3, <1>5, <1>6, <1>7 DEF Next, Stop

LEMMA Inductive == Spec => []IInv
BY InitInv, NextInv, PTL DEF Spec

\* Whatever bytes a plaintext ends with, decrypt's scan never leaves the padding
\* encrypt added (src/aes.cpp:596).
THEOREM ScanAlwaysInPadding == Spec => []ScanStaysInPadding
<1>1. IInv => ScanStaysInPadding
  BY DEF IInv
<1> QED BY <1>1, Inductive, PTL

\* decrypt gives back the plaintext that encrypt was given, byte for byte.
THEOREM PaddingRoundTrips == Spec => []RoundTrip
<1>1. IInv => RoundTrip
  <2> SUFFICES ASSUME IInv, pc = "done"
               PROVE  SubSeq(buf, 1, realSize) = src
    BY DEF IInv, RoundTrip
  <2>1. src \in Seq(Byte) /\ buf = Padded(src) /\ realSize = Len(src)
    BY DEF IInv, TypeOK
  <2>2. /\ Len(src) \in Nat
        /\ Padded(src) \in Seq(Byte)
        /\ Len(src) <= Len(Padded(src))
        /\ \A i \in 1 .. Len(src) : Padded(src)[i] = src[i]
    <3>1. Len(src) \in Nat
      BY <2>1
    <3>2. ValidSize(Len(src)) \in Nat /\ ValidSize(Len(src)) >= Len(src) + 2
      BY <3>1, ValidSizeHolds
    <3>3. /\ Padded(src) \in Seq(Byte)
          /\ Len(Padded(src)) = ValidSize(Len(src))
          /\ \A i \in 1 .. Len(src) : Padded(src)[i] = src[i]
      BY <2>1, PaddedFacts
    <3> QED BY <3>1, <3>2, <3>3
  <2>3. SubSeq(buf, 1, realSize) = [i \in 1 .. Len(src) |-> src[i]]
    BY <2>1, <2>2
  <2> QED BY <2>1, <2>2, <2>3
<1> QED BY <1>1, Inductive, PTL
=============================================================================

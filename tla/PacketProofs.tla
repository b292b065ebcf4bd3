---------------------------- MODULE PacketProofs ----------------------------
(* No message either program builds is ever refused for its size.          *)
EXTENDS Packet, BlocksProofs

USE DEF InnerHeader, OuterHeader, RandomAndMac, LocalFdSize

\* The data of the longest message: a full readBuf of the server.
Longest == AES_MAX_DATA_LENGTH - 36

LEMMA ConstantFacts ==
    /\ Block = 16
    /\ MAX_MSG_DATA_LENGTH = 65516
    /\ PACKET_BUFFER_SIZE = 65536
    /\ TS_PACKET_PAYLOAD_LENGTH = 65536
    /\ AES_MAX_DATA_LENGTH = 65484
    /\ Longest = 65448
BY SMT, SixteenAssumption, LengthAssumption DEF AES_MAX_DATA_LENGTH, Longest

LEMMA PayloadBound == \A n \in Payloads : n \in Nat /\ n <= 65448
<1>1. AES_MAX_DATA_LENGTH \in Nat /\ AES_MAX_DATA_LENGTH > 1000 /\ AES_MAX_DATA_LENGTH - 36 <= 65448
  BY SMT, ConstantFacts
<1>2. \A n \in Payloads : n \in Nat /\ n <= AES_MAX_DATA_LENGTH - 36
  BY SMT, <1>1 DEF Payloads, HostReads, UserReads
<1> QED BY SMT, <1>1, <1>2

\* With the header, the padding and the block it may take, it just fits.
LEMMA LongestFits ==
    ASSUME NEW n \in Nat, n <= 65448
    PROVE  /\ ValidSize(20 + n) \in Nat
           /\ ValidSize(20 + n) >= 22
           /\ ValidSize(20 + n) <= 65484
           /\ ValidSize(20 + n) % 16 = 0
<1> DEFINE v == ValidSize(20 + n)
<1>1. 20 + n \in Nat /\ Block = 16
  BY SMT, ConstantFacts
<1>2. v \in Nat /\ v >= 20 + n + 2 /\ v < 20 + n + 18 /\ v % 16 = 0
  BY SMT, <1>1, ValidSizeHolds
<1> HIDE DEF v
<1>3. v >= 22 /\ v <= 65484
  BY SMT, <1>2
<1> QED BY SMT, <1>2, <1>3 DEF v

LEMMA InitInv == Init => IInv
BY SMT DEF Init, IInv, TypeOK, Stages, StageInv, EveryMessageArrives

LEMMA NextInv == IInv /\ [Next]_vars => IInv'
<1> SUFFICES ASSUME IInv, [Next]_vars PROVE IInv'
  OBVIOUS
<1> USE DEF IInv, TypeOK, StageInv, EveryMessageArrives, Call, Stages
<1>1. nbyte \in Nat /\ nbyte <= 65448
  BY SMT, PayloadBound
<1> DEFINE v == ValidSize(20 + nbyte)
<1>2. v \in Nat /\ v >= 22 /\ v <= 65484 /\ v % 16 = 0
  BY SMT, <1>1, LongestFits
<1> HIDE DEF v
<1>3. \A n \in Nat : n < 65536 => UInt16(n) = n
  BY SMT DEF UInt16
<1>4. CASE Send
  BY SMT, <1>1, <1>3, <1>4, ConstantFacts DEF Send
<1>5. CASE AssembleInnerMsg
  BY SMT, <1>1, <1>5, ConstantFacts DEF AssembleInnerMsg
<1>6. CASE Encrypt
  BY SMT, <1>1, <1>2, <1>6, ConstantFacts DEF Encrypt, v
<1>7. CASE Wrap
  <2>1. at = "wrap" /\ size = v
    BY SMT, <1>7 DEF Wrap, v
  <2>2. length' = size + 32
    BY SMT, <1>2, <1>3, <1>7, <2>1 DEF Wrap
  <2> QED BY SMT, <1>1, <1>2, <1>7, <2>1, <2>2, ConstantFacts DEF Wrap, v
<1>8. CASE Receive
  BY SMT, <1>1, <1>2, <1>8 DEF Receive, v
<1>9. CASE Decrypt
  <2>1. at = "decrypt" /\ size = v
    BY SMT, <1>9 DEF Decrypt, v
  <2> QED BY SMT, <1>1, <1>2, <1>9, <2>1, ConstantFacts DEF Decrypt
<1>10. CASE DisAssembleInnerMsg
  BY SMT, <1>1, <1>10 DEF DisAssembleInnerMsg
<1>11. CASE Deliver
  BY SMT, <1>1, <1>11, ConstantFacts DEF Deliver
<1>12. CASE UNCHANGED vars
  BY SMT, <1>12 DEF vars
<1> QED
  BY <1>4, <1>5, <1>6, <1>7, <1>8, <1>9, <1>10, <1>11, <1>12 DEF Next, Stop

LEMMA Inductive == Spec => []IInv
BY InitInv, NextInv, PTL DEF Spec

\* The size checks of src/utils.cpp, src/aes.cpp and of the callers never fail:
\* the read buffers leave just the room that header and padding need.
THEOREM EveryMessageAlwaysArrives == Spec => []EveryMessageArrives
<1>1. IInv => EveryMessageArrives
  BY DEF IInv
<1> QED BY <1>1, Inductive, PTL

\* The 16-bit length field says what was written, and the receiver's buffer,
\* which is filled by it unchecked (src/utils.cpp:394), holds it.
THEOREM LengthIsAlwaysTrue == Spec => []LengthIsTrue
<1>1. IInv => LengthIsTrue
  <2> SUFFICES ASSUME IInv, at = "pipe"
               PROVE  size <= PACKET_BUFFER_SIZE /\ size = OuterHeader + ValidSize(plain) + RandomAndMac
    BY DEF LengthIsTrue
  <2>1. nbyte \in Nat /\ nbyte <= 65448
    BY SMT, PayloadBound DEF IInv, TypeOK
  <2>2. ValidSize(20 + nbyte) \in Nat /\ ValidSize(20 + nbyte) <= 65484
    BY SMT, <2>1, LongestFits
  <2> QED BY SMT, <2>2, ConstantFacts DEF IInv, TypeOK, StageInv
<1> QED BY <1>1, Inductive, PTL
=============================================================================

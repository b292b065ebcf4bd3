------------------------------ MODULE Padding ------------------------------
(***************************************************************************)
(* How encrypt pads a plaintext to whole blocks and how decrypt finds its  *)
(* end again (src/aes.cpp).  The padding is the byte 0xf followed by at    *)
(* least one 0; decrypt walks back over the zeros.  The plaintext may hold *)
(* any bytes, those of a padding included.                                 *)
(*                                                                         *)
(* encode and decode lie between the two: with the same key, counter and   *)
(* mac they give back the padded buffer, which is what `buf` stands for.   *)
(***************************************************************************)
EXTENDS Blocks, Sequences

CONSTANTS
    Byte,           \* values of a byte
    Zero,           \* 0
    Mark,           \* 0xf
    Limit,          \* constants::AES_MAX_DATA_LENGTH
    MaxSize         \* bound: the longest plaintext tried

ASSUME ByteAssumption == Zero \in Byte /\ Mark \in Byte /\ Zero # Mark

ASSUME SizeAssumption ==
    Limit \in Nat /\ MaxSize \in Nat

VARIABLES
    src,        \* the plaintext
    buf,        \* the padded plaintext, in encrypt and after decode
    realSize,   \* decrypt's real_size
    pc          \* "encrypt", "scan", "done", or a refusal

vars == <<src, buf, realSize, pc>>

\* A slip: the buffer is left full of zeros.
ZeroPadded(s) == [i \in 1 .. ValidSize(Len(s)) |-> IF i <= Len(s) THEN s[i] ELSE Zero]

Padded(s) == [i \in 1 .. ValidSize(Len(s)) |->
                 IF i <= Len(s) THEN s[i] ELSE IF i = Len(s) + 1 THEN Mark ELSE Zero]

-----------------------------------------------------------------------------
Init ==
    /\ src \in UNION {[1 .. n -> Byte] : n \in 0 .. MaxSize}
    /\ buf = <<>>
    /\ realSize = 0
    /\ pc = "encrypt"

Refuse ==
    /\ pc = "encrypt"
    /\ ValidSize(Len(src)) > Limit
    /\ pc' = "refused"
    /\ UNCHANGED <<src, buf, realSize>>

\* encrypt, the way of the packet, and decrypt up to its scan.
Encrypt ==
    /\ pc = "encrypt"
    /\ ValidSize(Len(src)) <= Limit
    /\ buf' = Padded(src)
    /\ realSize' = Len(buf')
    /\ pc' = "scan"
    /\ UNCHANGED src

\* buf[real_size - 1] == 0
EndsInZero == buf[realSize] = Zero

\* buf[real_size - 2] == 0xf
MarkBeforeEnd == buf[realSize - 1] = Mark

\* A slip: the scan stops at the first byte that is not a zero.
StopAtNonZero ==
    /\ pc = "scan"
    /\ EndsInZero
    /\ realSize' = realSize - 1
    /\ UNCHANGED <<src, buf, pc>>

Back ==
    /\ pc = "scan"
    /\ EndsInZero
    /\ ~MarkBeforeEnd
    /\ realSize' = realSize - 1
    /\ UNCHANGED <<src, buf, pc>>

\* The loop is over: the mark is where it should be, or "Padding error".
Found ==
    /\ pc = "scan"
    /\ ~EndsInZero \/ MarkBeforeEnd
    /\ realSize' = IF MarkBeforeEnd THEN realSize - 2 ELSE realSize
    /\ pc' = IF MarkBeforeEnd THEN "done" ELSE "error"
    /\ UNCHANGED <<src, buf>>

Stop == pc \in {"refused", "done", "error"} /\ UNCHANGED vars

Next == Refuse \/ Encrypt \/ Back \/ Found \/ Stop

Spec == Init /\ [][Next]_vars

\* decrypt runs to its end.
FairSpec == Spec /\ WF_vars(Next)

-----------------------------------------------------------------------------
TypeOK ==
    /\ src \in Seq(Byte)
    /\ buf \in Seq(Byte)
    /\ realSize \in Nat
    /\ pc \in {"encrypt", "scan", "done", "refused", "error"}

\* The scan never walks off the mark encrypt wrote: it stays in the padding,
\* so both bytes it looks at are in the buffer, whatever bytes the plaintext
\* ends with (more marks and zeros among them).
ScanStaysInPadding ==
    pc = "scan" => realSize \in Len(src) + 2 .. Len(buf)

\* What decrypt returns is what encrypt was given: the size is the plaintext's
\* and the bytes copied out are the plaintext's; a padding error cannot come.
RoundTrip ==
    /\ pc # "error"
    /\ pc = "done" => realSize = Len(src) /\ SubSeq(buf, 1, realSize) = src

\* The inductive invariant: the buffer is the padded plaintext.
IInv ==
    /\ TypeOK
    /\ pc \in {"scan", "done"} => buf = Padded(src)
    /\ ScanStaysInPadding
    /\ pc # "error"
    /\ pc = "done" => realSize = Len(src)

\* decrypt's loop has no bound of its own: it ends.
Returns == <>(pc \in {"refused", "done"})
=============================================================================

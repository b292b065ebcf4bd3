------------------------------- MODULE Blocks -------------------------------
(* How many bytes encrypt makes of a plaintext (src/aes.cpp).              *)
EXTENDS Integers

CONSTANT Block      \* bytes in a block of the cipher, 16

ASSUME BlockAssumption == Block \in Nat /\ Block >= 2

RoundedDown(n) == (n \div Block) * Block

\* Whole blocks that hold n bytes.
RoundedUp(n) == IF RoundedDown(n) < n THEN RoundedDown(n) + Block ELSE RoundedDown(n)

\* A slip: room for the mark, none for the zero after it.
RoomForMarkOnly(n) == IF RoundedUp(n) < n + 1 THEN RoundedUp(n) + Block ELSE RoundedUp(n)

\* Whole blocks that hold n bytes, the mark and one zero.
ValidSize(n) == IF RoundedUp(n) < n + 2 THEN RoundedUp(n) + Block ELSE RoundedUp(n)
=============================================================================

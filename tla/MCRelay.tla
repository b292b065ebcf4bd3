------------------------------- MODULE MCRelay -------------------------------
(* Relay on a small instance.                                              *)
EXTENDS Relay, TLC

CONSTANTS u1, u2

Symmetry == Permutations(User)
=============================================================================

------------------------------ MODULE MCTunnel ------------------------------
(* Tunnel on small instances.                                              *)
EXTENDS Tunnel, TLC

CONSTANTS c1, c2

\* One process has messages enough for a full buffer and a send that waits, from a
\* first number of 3 two, and so has the server with 4; from 5 it has one answer.
\* The other process connects, shakes hands and goes.
OneSpeaks == [p \in Client |-> IF p = c1 THEN 6 ELSE 0]

\* It also gets a second tunnel, while the server may have the first.
TwoAndOne == [p \in Client |-> IF p = c1 THEN 2 ELSE 1]

OneEach == [p \in Client |-> 1]
=============================================================================

---------------------------- MODULE MCClientLoop ----------------------------
(* The bounds for TLC: the tunnel is 1 and the process can be given MCFd.    *)
EXTENDS ClientLoop

MCFd == 2 .. 5
=============================================================================

---------------------------- MODULE MCServerLoop ----------------------------
(* ServerLoop on small instances.                                          *)
EXTENDS ServerLoop, TLC

\* Messages name localFds; no handler compares or orders them.
Symmetry == Permutations(LocalFd)

\* No second passes: every order of connects, closes and failures, with more
\* descriptors than an instance with a clock can have.
StillSpec == Init /\ [][Loop]_vars
=============================================================================

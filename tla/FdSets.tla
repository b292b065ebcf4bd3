------------------------------- MODULE FdSets -------------------------------
(* Descriptor sets and their maxima, as both select loops keep them.       *)
EXTENDS Integers, FiniteSetsExt

CONSTANT FdSetSize      \* FD_SETSIZE, the capacity of an fd_set

ASSUME FdSetSizeAssumption == FdSetSize \in Nat

\* A slip in those loops: one step down instead of a search.
LoweredOnce(max, set) == max - 1

\* The loops that walk a maximum down to the next bit that is set.
Lowered(max, set) == Max({fd \in set : fd <= max})

Larger(a, b) == IF a < b THEN b ELSE a
=============================================================================

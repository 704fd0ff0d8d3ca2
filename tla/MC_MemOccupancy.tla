-------------------------- MODULE MC_MemOccupancy --------------------------
(* MemOccupancy for TLC: three goroutines.                                 *)
EXTENDS MemOccupancy, TLC

CONSTANTS c1, c2, c3

MCCallers == {c1, c2, c3}
MCSymmetry == Permutations(MCCallers)
=============================================================================

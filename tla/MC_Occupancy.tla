---------------------------- MODULE MC_Occupancy ----------------------------
(* Occupancy for TLC: three callers contend for two accounts whose limits   *)
(* range over 1..2, with one failure.                                       *)
EXTENDS Occupancy, TLC

CONSTANTS c1, c2, c3, a1, a2, none

MCCallers == {c1, c2, c3}
MCAccounts == {a1, a2}
MCSymmetry == Permutations(MCCallers) \cup Permutations(MCAccounts)
MCLimits == 1..2
=============================================================================

---------------------------- MODULE MC_MemStore ----------------------------
(* MemStore for TLC: two accounts of provider p1, one of p2.               *)
EXTENDS MemStore, TLC

CONSTANTS t1, t2, t3, p1, p2, a1, a2, a3, none

ThreeThreads == {t1, t2, t3}
MCProviders == {p1, p2}
MCAccounts == {a1, a2, a3}
MCHome == a1 :> p1 @@ a2 :> p1 @@ a3 :> p2
MCSymmetry == Permutations(ThreeThreads) \cup Permutations({a1, a2})
=============================================================================

------------------------------ MODULE MC_Pick ------------------------------
(* Pick for TLC: provider p1 (three accounts) and p2 (one account) are of    *)
(* one type, p3 (one account) of another; an account has one slot.  In       *)
(* SomeAvail p1 may start with none of its accounts available.               *)
EXTENDS Pick, TLC

CONSTANTS c1, c2, p1, p2, p3, a1, a2, a3, a4, a5, none

TwoCallers == {c1, c2}
MCProviders == {p1, p2, p3}
MCTypeOf == p1 :> "t1" @@ p2 :> "t1" @@ p3 :> "t2"
MCAccounts == {a1, a2, a3, a4, a5}
MCHome == a1 :> p1 @@ a2 :> p1 @@ a5 :> p1 @@ a3 :> p2 @@ a4 :> p3
OneSlot == [a \in MCAccounts |-> 1]

\* p1 with and without failover, its type, and anything.
MixedAsked == {Exact(p1, TRUE), Exact(p1, FALSE), OfType("t1", TRUE), AnyProvider(FALSE)}

AllOk == {[p \in MCProviders |-> "ok"]}
Everyone == {MCAccounts}
SomeAvail == {MCAccounts, {a3, a4}}

MCSymmetry == Permutations(TwoCallers) \cup Permutations({a1, a2, a5})
=============================================================================

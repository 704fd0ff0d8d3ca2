--------------------------- MODULE MC_SharedStore ---------------------------
(* SharedStore for TLC: two callers, two accounts of one provider with a  *)
(* slash in its name, and three statuses.                                 *)
EXTENDS SharedStore, TLC

CONSTANTS u1, u2, a1, a2, p1, cooling, disabled

MCCallers == {u1, u2}
MCIds == {a1, a2}
MCProviders == {p1}
MCProviderOf == a1 :> p1 @@ a2 :> p1
MCTypeOf == p1 :> <<"kiro">>
MCNameOf == p1 :> <<"team", "/", "a">>
MCUnavailable == {cooling, disabled}
MCBackends == {"redis", "mysql", "sqlite"}
CallersAlike == Permutations(MCCallers) \cup Permutations(MCIds) \cup Permutations(MCUnavailable)
=============================================================================

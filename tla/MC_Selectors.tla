---------------------------- MODULE MC_Selectors ----------------------------
(* Selectors for TLC: p1 has two accounts and p2 one, an account has one     *)
(* slot, and the callers pick for one user and two models, for two people    *)
(* who share a key, for one person, or for nobody.                           *)
EXTENDS Selectors, TLC

CONSTANTS c1, c2, p1, p2, a1, a2, a3, none

MCCallers == {c1, c2}
MCProviders == {p1, p2}
MCTypeOf == [p \in MCProviders |-> "t"]
MCAccounts == {a1, a2, a3}
MCHome == a1 :> p1 @@ a2 :> p1 @@ a3 :> p2
OneSlot == [a \in MCAccounts |-> 1]
ForM == [user |-> <<"u">>, model |-> <<"m">>]
ForN == [user |-> <<"u">>, model |-> <<"n">>]
ForXM == [user |-> <<"u">>, model |-> <<"x", ":", "m">>]     \* both join to u:x:m
ForUX == [user |-> <<"u", ":", "x">>, model |-> <<"m">>]
ForNobody == [user |-> <<>>, model |-> <<"m">>]
MCPeople == {ForM, ForN, ForXM, ForUX, ForNobody}
TwoModels == c1 :> ForM @@ c2 :> ForN
OneKey == c1 :> ForXM @@ c2 :> ForUX
OnePerson == c1 :> ForM @@ c2 :> ForM
OneNobody == c1 :> ForM @@ c2 :> ForNobody
MCAcctPriority == a1 :> 1 @@ a2 :> 2 @@ a3 :> 1
MCProvPriority == p1 :> 1 @@ p2 :> 1

MCAsked == {AnyProvider(TRUE), Exact(p1, TRUE)}
AllOk == {[p \in MCProviders |-> "ok"]}
Everyone == {MCAccounts}

Conf(a, af, g, gf, sh, n, w) ==
    [acct |-> a, acctFallback |-> af, group |-> g, groupFallback |-> gf,
     shared |-> sh, cap |-> n, who |-> w]
Big == 9    \* a cap that no run reaches
MCConfs ==
    {Conf("affinity", "priority", "affinity", "most_available", FALSE, Big, TwoModels),
     Conf("affinity", "priority", "affinity", "priority", FALSE, Big, OneKey),
     Conf("affinity", "least_used", "priority", "priority", TRUE, 1, TwoModels),
     Conf("affinity", "round_robin", "affinity", "priority", TRUE, Big, OnePerson),
     Conf("least_used", "priority", "round_robin", "priority", TRUE, Big, TwoModels),
     Conf("weighted", "priority", "affinity", "priority", TRUE, 1, OneNobody)}
=============================================================================

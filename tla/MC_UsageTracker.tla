-------------------------- MODULE MC_UsageTracker --------------------------
(* UsageTracker for TLC: two request rules, one with a window that ends    *)
(* and a total, and one that has neither an end nor a total.               *)
EXTENDS UsageTracker, TLC

CONSTANTS c1, c2, k1, requests, hourly, endless

MCCalls == {c1, c2}
MCSyncs == {k1}
MCSources == {requests}
MCSourceOf == c1 :> requests @@ c2 :> requests
MCRules == <<hourly, endless>>
MCSource == hourly :> requests @@ endless :> requests
MCValid == {hourly}
MCWidth == hourly :> 2 @@ endless :> 0
MCTotal == hourly :> 2 @@ endless :> 0
MCLimit == hourly :> 2 @@ endless :> 1
MCSymmetry == Permutations(MCCalls)
=============================================================================

------------------------- MODULE MC_HealthScheduler -------------------------
(* HealthScheduler for TLC: two checks, of which the last has an interval  *)
(* that is longer than what may be registered; a third check makes them a  *)
(* chain of three, and a fourth closes a circle with the last.             *)
EXTENDS HealthScheduler, TLC

CONSTANTS u1, u2, refresh, usage, probe, models, acct1

MCCallers == {u1, u2}
MCChecks == {refresh, usage, probe, models}
MCTargets == {acct1}
MCPrograms ==
    {[enabled |-> {usage, probe},
      dependsOn |-> refresh :> {} @@ usage :> {refresh} @@ probe :> {usage, models}
                                  @@ models :> {probe},
      interval |-> [x \in MCChecks |-> IF x = probe THEN 2 ELSE 0]]}
MCNewIntervals == {1}
=============================================================================

------------------------ MODULE MC_AccountLifecycle ------------------------
(* AccountLifecycle for TLC: a report beside all health checks, two reports  *)
(* beside the health command, and a report beside a health check without a   *)
(* CooldownManager.                                                          *)
EXTENDS AccountLifecycle

CONSTANTS r1, r2, h1, h2, d1

MCReporters == {r1, r2}
MCCheckers == {h1, h2}
MCManaged == {h1}
MCDaemons == {d1}
MCCrews == {{r1, h1, d1}, {r1, r2, d1}, {r1, h2}}
NoDaemon == {{r1, h1}}

AllFindings == {"Banned", "CoolingDown", "Expired", "refreshed"}
BanOnly == {"Banned"}
=============================================================================

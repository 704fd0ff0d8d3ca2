SPECIFICATION FairSpec
CONSTANTS
  u1 = u1
  u2 = u2
  refresh = refresh
  usage = usage
  probe = probe
  models = models
  acct1 = acct1
  Callers <- MCCallers
  Checks <- MCChecks
  Targets <- MCTargets
  Programs <- MCPrograms
  NewIntervals <- MCNewIntervals
  MaxInterval = 2
  MaxStarts = 2
  MaxChanges = 1
CHECK_DEADLOCK FALSE
INVARIANTS
  OrderHonoursDependencies
  ScanSkipsDependents
  ClosedOnce
  StopMeansStopped
PROPERTIES
  StopReturns
  ChecksComeRound

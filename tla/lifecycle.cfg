SPECIFICATION Spec
CONSTANTS
  r1 = r1
  r2 = r2
  h1 = h1
  h2 = h2
  d1 = d1
  Reporters <- MCReporters
  Checkers <- MCCheckers
  Managed <- MCManaged
  Daemons <- MCDaemons
  Crews <- MCCrews
  Threshold = 1
  Findings <- AllFindings
  MaxReports = 2
  MaxEvents = 1
  MaxNow = 1
CHECK_DEADLOCK FALSE
INVARIANTS
  TypeOK
  VersionNamesContent
PROPERTIES
  DeadlinesSet
  NoLostUpdate
  ChecksHoldAtWrite
  Recovers

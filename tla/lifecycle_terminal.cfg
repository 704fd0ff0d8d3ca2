SPECIFICATION Spec
CONSTANTS
  r1 = r1
  r2 = r2
  h1 = h1
  h2 = h2
  d1 = d1
  Reporters <- MCReporters
  Checkers <- MCCheckers
  Managed <- MCManaged
  Daemons <- MCDaemons
  Crews <- NoDaemon
  Threshold = 1
  Findings <- BanOnly
  MaxReports = 1
  MaxEvents = 1
  MaxNow = 1
CHECK_DEADLOCK FALSE
PROPERTY
  TerminalStays

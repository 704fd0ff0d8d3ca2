SPECIFICATION Spec
CONSTANTS
  c1 = c1
  c2 = c2
  k1 = k1
  requests = requests
  hourly = hourly
  endless = endless
  Calls <- MCCalls
  Syncs <- MCSyncs
  Sources <- MCSources
  SourceOf <- MCSourceOf
  Rules <- MCRules
  Source <- MCSource
  Valid <- MCValid
  Width <- MCWidth
  Total <- MCTotal
  Limit <- MCLimit
  MaxTime = 2
  MaxResets = 1
  MaxChecks = 1
SYMMETRY MCSymmetry
CHECK_DEADLOCK FALSE
INVARIANTS
  TypeOK
  EstimateExact
  AnswerFollowsPlatform
  CrossingIsReported
PROPERTIES
  WrongRowNeedsShift

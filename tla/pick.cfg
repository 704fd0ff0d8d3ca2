SPECIFICATION Spec
CONSTANTS
  c1 = c1
  c2 = c2
  p1 = p1
  p2 = p2
  p3 = p3
  a1 = a1
  a2 = a2
  a3 = a3
  a4 = a4
  a5 = a5
  none = none
  Providers <- MCProviders
  Accounts <- MCAccounts
  NoProvider = none
  NoAccount = none
  TypeOf <- MCTypeOf
  Home <- MCHome
  Limit <- OneSlot
  MaxRetries = 1
  Callers <- TwoCallers
  Asked <- MixedAsked
  StartAvail <- SomeAvail
  StartState <- AllOk
  MaxPicks = 1
  MaxTrouble = 2
SYMMETRY MCSymmetry
INVARIANTS
  TypeOK
  AttemptsAreDistinct
  ResultHonoursRequest
  CompleteWhenUndisturbed
PROPERTY
  OccupancySpec

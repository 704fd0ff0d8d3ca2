SPECIFICATION SelSpec
CONSTANTS
  c1 = c1
  c2 = c2
  p1 = p1
  p2 = p2
  a1 = a1
  a2 = a2
  a3 = a3
  none = none
  Callers <- MCCallers
  Providers <- MCProviders
  Accounts <- MCAccounts
  NoProvider = none
  NoAccount = none
  TypeOf <- MCTypeOf
  Home <- MCHome
  Limit <- OneSlot
  MaxRetries = 1
  Asked <- MCAsked
  StartAvail <- Everyone
  StartState <- AllOk
  MaxPicks = 1
  MaxTrouble = 1
  People <- MCPeople
  AcctPriority <- MCAcctPriority
  ProvPriority <- MCProvPriority
  Confs <- MCConfs
INVARIANTS
  BindingFollowsService
  LeastUsedHolds
PROPERTY
  PickReturns

SPECIFICATION Spec
CONSTANTS
  t1 = t1
  t2 = t2
  t3 = t3
  p1 = p1
  p2 = p2
  a1 = a1
  a2 = a2
  a3 = a3
  none = none
  Threads <- ThreeThreads
  NoThread = none
  Providers <- MCProviders
  NoProvider = none
  Accounts <- MCAccounts
  Home <- MCHome
  MaxCalls = 3
CHECK_DEADLOCK FALSE
INVARIANT
  NoDeadlyEmbrace

SPECIFICATION Spec
CONSTANTS
  c1 = c1
  c2 = c2
  c3 = c3
  a1 = a1
  a2 = a2
  none = none
  Callers <- MCCallers
  Accounts <- MCAccounts
  NoAccount = none
  LimitValues <- MCLimits
  MaxFaults = 1
SYMMETRY MCSymmetry
INVARIANTS
  TypeOK
  CountersExact
  HoldersWithinLimit
PROPERTY
  PoolSpec

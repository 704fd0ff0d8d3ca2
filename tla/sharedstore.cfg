SPECIFICATION Spec
CONSTANTS
  u1 = u1
  u2 = u2
  a1 = a1
  a2 = a2
  p1 = p1
  cooling = cooling
  disabled = disabled
  Callers <- MCCallers
  Ids <- MCIds
  Providers <- MCProviders
  ProviderOf <- MCProviderOf
  TypeOf <- MCTypeOf
  NameOf <- MCNameOf
  Unavailable <- MCUnavailable
  Backends <- MCBackends
  MaxAdds = 2
  MaxProviderAdds = 1
  MaxVersion = 2
  MaxFailing = 1
SYMMETRY CallersAlike
CHECK_DEADLOCK FALSE
INVARIANTS
  TypeOK
  SearchesAgree
  NothingOrphaned
PROPERTIES
  RowsSpec
  IndexDriftNeedsRace
  CountsFollowAccounts

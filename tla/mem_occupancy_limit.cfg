SPECIFICATION Spec
CONSTANTS
  c1 = c1
  c2 = c2
  c3 = c3
  Callers <- MCCallers
  Limit = 1
  MaxStray = 1
SYMMETRY MCSymmetry
INVARIANT
  HoldersWithinLimit

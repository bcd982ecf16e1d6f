SPECIFICATION Spec
CONSTANTS
  r1 = r1
  r2 = r2
  r3 = r3
  Requests = {r1, r2, r3}
  IdleLimit = 8
  Absolute = 14
  Touch = 2
  MaxRequest = 3
  Horizon = 16
SYMMETRY RequestSymmetry
INVARIANTS
  TypeOK
  OnlyIdleExpire
PROPERTIES
  AcceptedInTime
\* the clock stops at the bound
CHECK_DEADLOCK FALSE

SPECIFICATION Spec
CONSTANTS
  r1 = r1
  r2 = r2
  Requests = {r1, r2}
  ann = ann
  bob = bob
  Users = {ann, bob}
  Admins = {ann, bob}
  Founders = {ann}
  MaxFailures = 3
  MaxEra = 1
  Apart <- AllApart
SYMMETRY RequestSymmetry
INVARIANTS
  TypeOK
  AdminRemains
  LockoutCounts
PROPERTIES
  LogsOut

SPECIFICATION Spec
CONSTANTS
  r1 = r1
  r2 = r2
  Requests = {r1, r2}
  ann = ann
  bob = bob
  eve = eve
  Users = {ann, bob, eve}
  Admins = {ann, bob}
  Founders = {ann}
  MaxFailures = 2
  MaxEra = 1
  Apart <- AdminsMeet
SYMMETRY RequestSymmetry
INVARIANTS
  AdminRemains

SPECIFICATION Spec
CONSTANTS
  r1 = r1
  r2 = r2
  Requests = {r1, r2}
  MaxParts = 2
  Sizes <- LastPartTwice
  Expected = {2}
  Kinds = {"url", "complete", "finish", "delete", "transcript"}
  Overlap = {"complete", "transcript", "delete"}
SYMMETRY RequestSymmetry
INVARIANTS
  TypeOK
  ReadyIsBacked
  VerifiedHasFile
  ToldIsVerified
  DeletedLeavesNoFile
\* a recording that is finished or deleted stops for good
CHECK_DEADLOCK FALSE

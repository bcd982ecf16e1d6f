SPECIFICATION Spec
CONSTANTS
  r1 = r1
  r2 = r2
  Requests = {r1, r2}
  MaxParts = 1
  Sizes <- OneSizeEach
  Expected = {1}
  Kinds = {"url", "complete", "finish", "delete"}
  Overlap = {"finish"}
SYMMETRY RequestSymmetry
PROPERTIES
  DeletedIsFinal
\* a deleted recording stops for good
CHECK_DEADLOCK FALSE

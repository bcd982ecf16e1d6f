SPECIFICATION Spec
CONSTANTS
  MaxParts = 2
  MaxChunks = 2
  MaxCrashes = 0
  StoreMayFail = FALSE
  StartMayThrow = FALSE
  MayDelete = FALSE
  SharedTab = TRUE
INVARIANTS
  NoChunkLost
\* a recording that is finished or deleted stops for good
CHECK_DEADLOCK FALSE

SPECIFICATION FairRoomSpec
CONSTANTS
  MaxParts = 2
  MaxChunks = 2
  MaxCrashes = 1
  StoreMayFail = FALSE
  StartMayThrow = TRUE
  MayDelete = FALSE
  SharedTab = FALSE
INVARIANTS
  ChunksAreFindable
  StopperLeavesNothing
  ReadyHasEveryChunk
PROPERTIES
  StopCompletes
  LeftoverIsRecovered
\* a recording that is finished or deleted stops for good
CHECK_DEADLOCK FALSE

SPECIFICATION RoomSpec
CONSTANTS
  MaxParts = 2
  MaxChunks = 1
  MaxCrashes = 0
  StoreMayFail = FALSE
  StartMayThrow = FALSE
  MayDelete = FALSE
  SharedTab = FALSE
PROPERTIES
  LeaveIsSafe
\* a recording that is finished or deleted stops for good
CHECK_DEADLOCK FALSE

SPECIFICATION Spec
CONSTANTS
  MaxParts = 2
  MaxChunks = 2
  MaxCrashes = 2
  StoreMayFail = TRUE
  StartMayThrow = TRUE
  MayDelete = TRUE
  SharedTab = FALSE
INVARIANTS
  TypeOK
  NoChunkLost
  VerifiedIsWhole
  ReadyIsComplete
  FailedIsEmpty
  UploadInv
PROPERTIES
  ReadyIsStable
  ImplementsDurable
\* a recording that is finished or deleted stops for good
CHECK_DEADLOCK FALSE

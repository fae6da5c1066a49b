SPECIFICATION FairSpec
CONSTANTS
  NChunks = 2
  Window = 1
  DirtyFlush = 1
  MaxFaults = 2
INVARIANTS
  TypeOK
  DoneIsPromised
  BitmapIsBacked
  DeletedStaysDeleted
PROPERTIES
  EventuallyReceived
CHECK_DEADLOCK FALSE

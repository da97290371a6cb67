SPECIFICATION Spec
CONSTANTS
  FileSize = 3
  None = None
  MaxTxs = 3
  MaxOutputs = 3
  MaxEvents = 5
  Window = 1
INVARIANTS
  VerifiesFromDisk
  NothingLost
  
  SuccessIsComplete
  
  GapIsWhatWasStripped
  DroppedSpendsFound
  WindowIsExact
CHECK_DEADLOCK FALSE

SPECIFICATION Spec
CONSTANTS
  FileSize = 3
  None = None
  MaxTxs = 2
  MaxOutputs = 3
  MaxEvents = 3
  Window = 1
INVARIANT SpendsAreMarked
CHECK_DEADLOCK FALSE

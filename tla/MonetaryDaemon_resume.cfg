SPECIFICATION Spec
CONSTANTS
  StartHeight = 1
  Depth = 1
  FileSize = 2
  NoState = NoState
  MaxBlocks = 5
  MaxReorg = 1
  MaxAppendFaults = 0
INVARIANT
  RefusesOnlyDisagreement

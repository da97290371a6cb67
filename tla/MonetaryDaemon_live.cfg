SPECIFICATION FairSpec
CONSTANTS
  StartHeight = 1
  Depth = 1
  FileSize = 2
  NoState = NoState
  MaxBlocks = 6
  MaxReorg = 2
  MaxAppendFaults = 0
PROPERTIES
  BuriedIsStored
  DeepReorgStops
  ImplementsLog

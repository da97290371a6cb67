SPECIFICATION Spec
CONSTANTS
  StartHeight = 2
  Depth = 2
  FileSize = 2
  NoState = NoState
  MaxBlocks = 8
  MaxReorg = 3
  MaxAppendFaults = 2
INVARIANTS
  TypeOK
  StoreOnChain
  NoFalseAlarm
  StoreLinked
  CommitmentDescribesStore
  StateFileBehindStore
  NoBlockSkipped

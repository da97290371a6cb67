SPECIFICATION FairSpec
CONSTANTS
  Node = {a, b, c}
  Source = {a}
  Length = 4
  DamagedAt = {2}
  Batch = 2
  Limit = 3
  None = None
  Reset = Reset
  Lost = Lost
  MaxSyncs = 3
  MaxFaults = 1
INVARIANTS
  StoreProven
  OkIsComplete
  HonestNotRejected
PROPERTIES
  EverySyncEnds
CHECK_DEADLOCK FALSE

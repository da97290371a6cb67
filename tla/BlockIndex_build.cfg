SPECIFICATION Spec
CONSTANTS
  Blocks = 4
  FileCap = 2
  Chunk = 3
  Checkpoint = 1
  DepthLimit = 2
  End = 3
  None = None
  MaxRuns = 3
INVARIANTS
  CacheTruthful
  FullFilesComplete
  ShortForksResolved
CHECK_DEADLOCK FALSE

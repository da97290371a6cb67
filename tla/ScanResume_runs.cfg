SPECIFICATION FairSpec
CONSTANTS
  Lo = 11
  Hi = 13
  FlushEvery = 2
  MaxAttempts = 2
  Short = 1
  Long = 2
  Patience = 1
  MaxWait = 3
  NoFile = NoFile
  MaxRuns = 4
  MaxKills = 2
INVARIANTS
  ResumeIsExact
PROPERTY
  RunEnds
CHECK_DEADLOCK FALSE

SPECIFICATION FairSpec
CONSTANTS
  FeedMax = 3
  Limit = 2
  Detail = 1
  Delta = 1
  Recent = 2
  SeenMax = 2
  BeatEvery = 2
  Fetches = 2
  None = None
  Up = Up
  Down = Down
  Changing = {"tip"}
  MaxTicks = 2
  MaxChanges = 2
  MaxTip = 4
  MaxTxs = 3
INVARIANTS
  PageMissesNothing
PROPERTY
  PageCatchesUp
CHECK_DEADLOCK FALSE

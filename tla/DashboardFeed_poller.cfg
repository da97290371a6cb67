SPECIFICATION Spec
CONSTANTS
  FeedMax = 3
  Limit = 2
  Detail = 1
  Delta = 1
  Recent = 2
  SeenMax = 2
  BeatEvery = 2
  Fetches = 0
  None = None
  Up = Up
  Down = Down
  Changing = {"up", "clearnet", "wallet", "tip", "mempool", "store", "txs", "indexer"}
  MaxTicks = 4
  MaxChanges = 3
  MaxTip = 4
  MaxTxs = 3
INVARIANTS
  HeightsAccounted
  FeedTellsTruth
CHECK_DEADLOCK FALSE

SPECIFICATION Spec
CONSTANTS
  Base = 4
  Timespan = 8
  MaxTarget = 960
  Interval = 2
  Anchor = 2
  CheckDifficulty = TRUE
  GenesisTarget = 200
  OtherTargets = {3, 1500}
  Delays = {1, 40}
  None = None
  MaxHeight = 7
INVARIANTS
  DifficultyRuleEnforced
  AcceptsTheNetwork
CHECK_DEADLOCK FALSE

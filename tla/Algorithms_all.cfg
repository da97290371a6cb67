SPECIFICATION Spec
CONSTANTS
  None = None
  Nothing = Nothing
  Window = 3
  Late = 9
  InscriptionStart = 3
  Year = 2
  HistSize = 9
  P = 43
  N = 31
  Base = 4
  Digit = 3
  Timespan = 8
  MaxTarget = 960
  MaxScript = 6
INVARIANTS
  EnvelopesAreDead
  EnvelopesAreCanonical
  SnapshotIsExact
  BlocksRoundTrip
  SignaturesAreExact
  EncodingsAreExact
  TipsAreStable
CHECK_DEADLOCK FALSE

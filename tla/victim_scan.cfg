SPECIFICATION Spec
CONSTANTS
  HtEntries = 6
  MaxScan = 3
  Scores <- TwoScores
  NaN = NaN
  None = None
INVARIANTS
  FindsVictim
  VictimIsLeast
  ScanReported
PROPERTIES
  ScanEnds
CHECK_DEADLOCK FALSE

SPECIFICATION FairSpec
CONSTANTS
  MaxBytes = 2
  SendBuffer = 1
  Watched = TRUE
INVARIANTS InOrder EndAfterData
PROPERTIES TunnelEnds

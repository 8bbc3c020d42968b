SPECIFICATION FilterSpec
CONSTANTS
  Width = 3
  ExpandFrom = 2
  Position = {0, 1}
  MaxLines = 3
  Line <- MCLine
  Hashes <- MCHashes
INVARIANT BlocksListed
CHECK_DEADLOCK FALSE

SPECIFICATION FairSpec
CONSTANTS
  MaxAddresses = 2
  MaxPieces = 3
  MaxRetries = 2
INVARIANTS WholeResponse ResentAfterTransient
PROPERTY ForwardEnds

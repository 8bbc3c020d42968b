SPECIFICATION FairSpec
CONSTANTS
  Id = {f1, f2}
  Timeout = {0, 1, 2}
  UnitsPerMs = 2
  CompactMin = 3
  CompactRatio = 2
  MaxTime = 4
  MaxHeap = 3
  MaxVersion = 2
  None = None
INVARIANTS
  WakesInTime
PROPERTIES
  KeepsPromise
  OverdueServed

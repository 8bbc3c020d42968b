SPECIFICATION LiveSpec
CONSTANTS
  Producer = {p1, p2}
  Capacity = 2
  MaxEntries = 5
INVARIANT LogInOrder
INVARIANT NoSlotRace
INVARIANT Drained
PROPERTY RefusedOnlyWhenFull
PROPERTY CloseReturns
PROPERTY BacklogWritten
CHECK_DEADLOCK FALSE

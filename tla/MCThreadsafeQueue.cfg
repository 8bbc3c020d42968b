SPECIFICATION FairQueueSpec
CONSTANTS
  Producer = {p1}
  Consumer = {c1, c2}
  Value = {a, b}
  Null = Null
PROPERTIES IsFifo CallsReturn

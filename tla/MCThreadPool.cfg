SPECIFICATION FairSpec
CONSTANTS
  Producer = {p1, p2}
  WorkerId = {w1, w2}
  Task = {t1, t2}
  MaxQueue = 1
  Modulus = 8
  OwnerCalls = {"stop", "stopNow", "clear", "pop"}
  NoThread = NoThread
  NoTask = NoTask
INVARIANTS
  StopRunsAll
  AtRest
PROPERTIES
  TaskSettled
  OwnerReturns
CHECK_DEADLOCK FALSE

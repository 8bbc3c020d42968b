SPECIFICATION Spec
CONSTANTS
  Conn = {c1, c2}
  Fd = {f1, f2}
  Slot = {s1}
  MaxSend = 2
  AcceptErrors = TRUE
  Listener = Listener
  EventFd = EventFd
  NoConn = NoConn
SYMMETRY Symmetry
VIEW WithoutHistory
INVARIANTS
  TableConsistent
  DeferredClose
  OwnerStable
  GateHasWork
  NoLostCompletion
  NoMissedInput
  NoMissedOutput
CHECK_DEADLOCK FALSE

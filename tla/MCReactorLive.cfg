SPECIFICATION FairSpec
CONSTANTS
  Conn = {c1, c2}
  Fd = {f1}
  Slot = {s1}
  MaxSend = 1
  AcceptErrors = FALSE
  Listener = Listener
  EventFd = EventFd
  NoConn = NoConn
PROPERTIES
  GateReleased
  DeferredCloseHappens
  BacklogServed
CHECK_DEADLOCK FALSE

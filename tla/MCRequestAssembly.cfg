SPECIFICATION LiveSpec
CONSTANTS
  Lower <- MCLower
  Number <- MCNumber
  Stream <- MCStream
INVARIANTS
  WholeMessage
  TunnelKeepsRest
  ForwardedIntact
PROPERTIES
  RequestServed
CHECK_DEADLOCK FALSE

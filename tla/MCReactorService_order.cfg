SPECIFICATION Spec
CONSTANTS
  r = r
  a1 = a1
  Reactor = r
  Apps <- OneApp
  Direct = FALSE
  Disabling = FALSE
  ReceiveClosing = FALSE
  Expiring = FALSE
  MaxRequests = 2
  BlockLen = 2
  SendCap = 2
  MaxReads = 1
CHECK_DEADLOCK FALSE
INVARIANTS
  WireInOrder

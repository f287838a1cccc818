SPECIFICATION FairSpec
CONSTANTS
  r = r
  a1 = a1
  Reactor = r
  Apps <- OneApp
  Direct = TRUE
  Disabling = TRUE
  ReceiveClosing = TRUE
  Expiring = TRUE
  MaxRequests = 2
  BlockLen = 2
  SendCap = 1
  MaxReads = 1
CHECK_DEADLOCK FALSE
INVARIANTS
  TypeOK
  StreamIntact
  SendersExclusive
  EventProtocol
PROPERTIES
  IdFreedAfterClose
  CloseUndisturbed
  HangupHeard
  SentEventually

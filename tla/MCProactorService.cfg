SPECIFICATION Spec
CONSTANTS
  w1 = w1
  w2 = w2
  a1 = a1
  Workers <- TwoWorkers
  Apps <- OneApp
  Direct = TRUE
  ReceiveClosing = TRUE
  Expiring = TRUE
  MaxRequests = 2
  BlockLen = 2
  SendCap = 1
  MaxCloses = 1
  MaxReads = 2
  MaxPosted = 1
SYMMETRY WorkerSymmetry
CHECK_DEADLOCK FALSE
INVARIANTS
  TypeOK
  StreamIntact
  OneWrite
  OneTick
  EventOrder
  IdFreedAfterClose

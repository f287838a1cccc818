SPECIFICATION FairSpec
CONSTANTS
  w1 = w1
  w2 = w2
  a1 = a1
  Workers <- TwoWorkers
  Apps <- OneApp
  Direct = TRUE
  ReceiveClosing = FALSE
  Expiring = FALSE
  MaxRequests = 2
  BlockLen = 1
  SendCap = 1
  MaxCloses = 1
  MaxReads = 0
  MaxPosted = 1
CHECK_DEADLOCK FALSE
PROPERTIES
  HangupHeard
  CloseHeard
  SentEventually

SPECIFICATION FairSpec
CONSTANTS
  Modulus = 12
  Day = 4
  Proactor = TRUE
  Delays <- MCDelays
  Capacity = 2
  MaxRequests = 4
INVARIANTS
  QueueOK
  NeverEarly
  OnTime
  ExactlyOnce
PROPERTIES
  SentEventually

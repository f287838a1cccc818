SPECIFICATION FairSpec
CONSTANTS
  n = n
  a = a
  b = b
  c1 = c1
  events = events
  timers = timers
  Queues <- MCQueues
  Threads <- MCThreads
  HighWater = 1
  Net = n
  Closer = a
  Others <- MCOthers
  Conns <- OneConn
  EventQueue = events
  TimerQueue = timers
  MaxPushes = 1
CHECK_DEADLOCK FALSE
INVARIANTS
  EventsOK
  RefusedLate
  QueueOutlivesNetwork
PROPERTIES
  EventuallyReceived
  CloseReturns

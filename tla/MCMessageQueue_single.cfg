SPECIFICATION FairSpec
CONSTANTS
  p1 = p1
  p2 = p2
  p3 = p3
  c1 = c1
  c2 = c2
  Producers <- ThreeProducers
  Consumers <- OneConsumer
  MaxPush = 2
  Size <- Uneven
  HighWater = 2
  LowWater = 2
  Pulsing = FALSE
CHECK_DEADLOCK FALSE
PROPERTIES
  ImplementsChannel
  EventuallyReceived
  PushReturns

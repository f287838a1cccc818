SPECIFICATION Spec
CONSTANTS
  p1 = p1
  p2 = p2
  p3 = p3
  c1 = c1
  c2 = c2
  Producers <- TwoProducers
  Consumers <- TwoConsumers
  MaxPush = 2
  Size <- Uneven
  HighWater = 2
  LowWater = 2
  Pulsing = TRUE
CHECK_DEADLOCK FALSE
INVARIANTS
  ExactlyOnce
  InOrder
  NoLostWakeup

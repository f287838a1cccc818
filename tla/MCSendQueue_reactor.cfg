SPECIFICATION Spec
CONSTANTS
  Modulus = 12
  Day = 4
  Proactor = FALSE
  Delays <- MCDelays
  Capacity = 2
  MaxRequests = 4
INVARIANTS
  DelayKept

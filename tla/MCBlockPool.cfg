SPECIFICATION Spec
CONSTANTS
  t1 = t1
  t2 = t2
  Threads <- TwoThreads
  StartChunkCount = 1
  MaxPools = 3
  MaxOut = 5
SYMMETRY ThreadSymmetry
INVARIANTS
  Conserved
  AllocationWhole
  GrowthFollowsDemand

SPECIFICATION FairSpec
CONSTANTS
  f1 = f1
  f2 = f2
  f3 = f3
  k1 = k1
  k2 = k2
  Fibers = {f1, f2, f3}
  Keys = {k1, k2}
  KeyOf <- SharedFirst
  Capacity = 1
  EvictCount = 1
  None = None
  Width = 8
  MaxRemoves = 1
  MaxSweeps = 1
INVARIANTS
  ComputedOnce
  CapacityKept
PROPERTIES
  WaitersAnswered
CHECK_DEADLOCK FALSE

SPECIFICATION Spec
CONSTANTS
  Programs <- WriteAfterRegion
  MaxCrashes = 2
  MaxJumps = 0
  MaxRequests = 1
INVARIANTS
  AtMostOnce
CHECK_DEADLOCK FALSE

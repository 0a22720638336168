SPECIFICATION PlanFairSpec
CONSTANTS
  Pods = {1, 2, 3, 4, 5}
  NumberOfShards = 4
  Threshold = 0
INVARIANTS
  PlanYieldsEntries
  EveryShardPlacedOnce
  NoPodStarved
  MovesOnlySurplus
PROPERTIES
  PlanTerminates
CHECK_DEADLOCK FALSE

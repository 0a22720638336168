SPECIFICATION FairSpec
CONSTANTS
  Pods = {1, 2}
  NumberOfShards = 4
  Threshold = 0
  FaultBudget <- AllFaults
INVARIANTS
  TypeOK
  RoutingExclusive
  OwnersExclusiveUntilStop
  IdleOwnersRouted
  AllShardsRouted
PROPERTIES
  EveryShardServed

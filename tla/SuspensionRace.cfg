SPECIFICATION FairSpec
CONSTANTS
  a = a
  c1 = c1
  c2 = c2
  Workers = {a}
  Scenarios <- OnlyAwait
  Deadline <- AtOne
  Clients = {c1}
  GuestClients = {}
  Target <- TargetA
  Empty = Empty
  HourLength = 2
  Horizon = 1
  ArchiveAfter = 1
  Archives = 2
  Faults = {}
PROPERTIES
  AwaitReturns
CHECK_DEADLOCK FALSE

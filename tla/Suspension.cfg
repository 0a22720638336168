SPECIFICATION FairSpec
CONSTANTS
  a = a
  c1 = c1
  c2 = c2
  Workers = {a}
  Scenarios <- SomeScenarios
  Deadline <- AtOne
  Clients = {c1, c2}
  GuestClients = {c2}
  Target <- TargetA
  Empty = Empty
  HourLength = 2
  Horizon = 4
  ArchiveAfter = 1
  Archives = 2
  Faults = {"crash", "storage"}
INVARIANTS
  CompletedOnce
  NothingEarly
PROPERTIES
  ReadyFinishes
  OplogArchived
CHECK_DEADLOCK FALSE

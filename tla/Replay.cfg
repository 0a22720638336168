SPECIFICATION FairSpec
CONSTANTS
  Programs <- SomePrograms
  MaxCrashes = 2
  MaxJumps = 1
  MaxRequests = 1
INVARIANTS
  ReplaySeesThePast
  NothingForgotten
  RegionsWhole
  WrittenOnce
  StuckInTwoWays
PROPERTIES
  InvocationEnds
CHECK_DEADLOCK FALSE

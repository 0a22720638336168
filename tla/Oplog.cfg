SPECIFICATION FairSpec
CONSTANTS
  Entries = {a}
  NumLower = 2
  BlobLayers = {2}
  BufferLimit = 1
  EntryLimit = 2
  CacheSize = 8
  Reads = {}
  MaxIndex = 4
  MaxQueue = 2
  MaxCrashes = 1
INVARIANTS
  NothingLost
  IndexesDense
  FiberSurvives
PROPERTIES
  TransfersEnd
  ImplementsLog
CHECK_DEADLOCK FALSE

SPECIFICATION Spec
CONSTANTS
  Entries = {a, b}
  NumLower = 2
  BlobLayers = {2}
  BufferLimit = 1
  EntryLimit = 2
  CacheSize = 8
  Reads <- SomeReads
  MaxIndex = 3
  MaxQueue = 1
  MaxCrashes = 1
INVARIANTS
  ReadsComplete
CHECK_DEADLOCK FALSE

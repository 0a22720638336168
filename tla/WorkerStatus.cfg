SPECIFICATION Spec
CONSTANTS
  Keys = {k1, k2}
  Resources = {r}
  Plugins = {p}
  Versions = {1}
  Policies = {1}
  DefaultPolicy = 2
  None = None
  MaxLength = 5
INVARIANTS
  RecordFromOplog
  StatusFromOplog
CHECK_DEADLOCK FALSE

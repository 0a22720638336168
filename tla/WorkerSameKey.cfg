SPECIFICATION Spec
CONSTANTS
  c1 = c1
  c2 = c2
  Clients = {c1, c2}
  KeyOf <- OneKey
  None = None
  MaxAttempts = 1
  Faults = {}
  MaxFaults = 0
INVARIANT
  ProcessedOnce
CHECK_DEADLOCK FALSE

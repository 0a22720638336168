SPECIFICATION FairSpec
CONSTANTS
  c1 = c1
  c2 = c2
  Clients = {c1, c2}
  KeyOf <- OwnKeys
  None = None
  MaxAttempts = 1
  Faults = {"trap", "interrupt", "create", "crash"}
  MaxFaults = 1
INVARIANTS
  CommandsMatchQueue
  EvictsOnlyIdle
  ProcessedOnce
  SuccessIsDurable
  InOrder
  AcceptedIsKept
PROPERTIES
  InterruptAcknowledged
  QueueMoves
CHECK_DEADLOCK FALSE

SPECIFICATION LiveSpec
CONSTANTS
  MaxAttempts = 2
  MaxReconnects = 1
  MaxSessions = 3
  MaxFaults = 1
  MaxStarts = 2
INVARIANTS
  EverySessionDeletedOnce
  SessionInUseIsAlive
  AssociationSafety
  CleanupAfterWorkers
PROPERTIES
  SessionLiveness
  LossResolves
CHECK_DEADLOCK FALSE

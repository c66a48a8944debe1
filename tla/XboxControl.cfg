SPECIFICATION Spec
CONSTANTS
  JournalCap = 2
  QueueCap = 3
  MaxAttempts = 2
  MaxPliAttempts = 2
  MaxStreak = 2
  MaxTurns = 2
  MaxTrouble = 2
  MaxReconnects = 1
INVARIANTS StartupSafety ReliableInOrder
PROPERTY ReleaseArrives
CHECK_DEADLOCK FALSE

SPECIFICATION FairSpec
CONSTANTS
  Bounded = TRUE
  Kinds = {"idr", "p"}
  Sizes = {1, 3, 5}
  MaxPackets = 2
  MaxBytes = 4
  MaxFrames = 3
  MaxFaults = 1
  MaxSources = 1
  MaxGenerations = 3
INVARIANTS QueueSafety QueueIsCurrent WorkerNeedsComponents
PROPERTIES RecoveryEnds ShutdownEnds
CHECK_DEADLOCK FALSE

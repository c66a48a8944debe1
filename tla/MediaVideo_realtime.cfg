SPECIFICATION Spec
CONSTANTS
  Bounded = FALSE
  Kinds = {"set", "idr", "p"}
  Sizes = {1}
  MaxPackets = 2
  MaxBytes = 3
  MaxFrames = 3
  MaxFaults = 2
  MaxSources = 2
  MaxGenerations = 1
INVARIANTS NoHoleInChain ResetPrecedesDecode RecoveryIsAsked
CHECK_DEADLOCK FALSE

SPECIFICATION LiveSpec
CONSTANTS
  MaxFaults = 2
  MaxLaunches = 2
  MaxSwitches = 2
INVARIANTS
  NoStreamBehindMenu
  TeardownSafety
PROPERTIES
  LoadingEnds
  ViewLiveness
CHECK_DEADLOCK FALSE

SPECIFICATION LiveSpec
CONSTANTS
  MaxFaults = 2
  MaxResumes = 1
INVARIANTS
  ConnectSafety
  NothingLeftBehind
PROPERTIES
  HolePunchSessionsAreOwned
  
CHECK_DEADLOCK FALSE

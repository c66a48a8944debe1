SPECIFICATION Spec
CONSTANTS
  MaxFaults = 0
  MaxResumes = 1
INVARIANT InputStopsFirst
CHECK_DEADLOCK FALSE

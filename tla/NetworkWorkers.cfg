SPECIFICATION WorkersLiveSpec
CONSTANTS
  Tasks = {t1, t2, t3, t4}
INVARIANTS
  ActiveCountsWorkers
  NobodyOutlivesShutdown
PROPERTIES
  ShutdownReturns
CHECK_DEADLOCK FALSE

SPECIFICATION RollbackSpec
CONSTANTS
  SyncHeights = {0, 2}
  MaxBlock = 5
  Interval = 3
  MaxFailures = 1
  Nothing = Nothing
INVARIANTS
  HistoryLoads
CHECK_DEADLOCK FALSE

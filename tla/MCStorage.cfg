SPECIFICATION MCSpec
CONSTANTS
  NoBytes = NoBytes
  Heights <- MCHeights
  SignRounds <- MCRounds
  Bodies = {b1, b2}
  Times <- MCTimes
  Firsts = {1, 2}
  MaxHeight = 4
  BatchSize = 2
  MaxCrashes = 2
  SyncHeights = {0, 2}
  MaxBlock = 5
  Interval = 3
  MaxFailures = 1
  Nothing = Nothing
INVARIANT NoDoubleSign
INVARIANT PersistedBeforeReleased
INVARIANT BlocksContiguous
INVARIANT Reclaimed
INVARIANT HistoryLoads
INVARIANT PrunedToTargets
PROPERTY ReleasedInOrder
CHECK_DEADLOCK FALSE

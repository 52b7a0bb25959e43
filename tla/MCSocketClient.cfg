SPECIFICATION MCSpec
CONSTANTS
  c1 = c1
  c2 = c2
  Callers <- MCCallers
  QueueSize = 1
INVARIANT FlushBarrier
INVARIANT OwnResponse
PROPERTY EventuallyAnswered
CHECK_DEADLOCK FALSE

SPECIFICATION Spec
CONSTANTS
  IDs = {a, b}
  Persistent = {a}
  Unconditional = {}
  Acceptor = Acceptor
  MaxInbound = 1
  MaxConns = 3
  MaxStops = 2
INVARIANT StoppedIsRemoved
CHECK_DEADLOCK FALSE

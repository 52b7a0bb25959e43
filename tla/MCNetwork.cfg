SPECIFICATION MCSpec
CONSTANTS
  s1 = s1
  s2 = s2
  c1 = c1
  None = None
  NoMessage = NoMessage
  NoQuery = NoQuery
  NoBlock = NoBlock
  IDs = {i1, i2}
  Persistent = {i1}
  Unconditional = {}
  Acceptor = Acceptor
  MaxInbound = 1
  MaxConns = 3
  MaxStops = 1
  Messages <- MCMessages
  ChannelOf <- MCChannelOf
  PacketsOf <- MCPacketsOf
  Channels = {"x", "y"}
  QueueCap = 1
  Batch = 2
  Clients = {c1, c2}
  Queries = {"q1"}
  CmdsCap = 1
  OutCap = 1
  MaxCmds = 5
  All = All
  Peers = {p1, p2}
  Snapshots = {s1, s2}
  Format <- MCFormat
  Chunks = 2
  Fetchers = {f1}
  MaxComplaints = 1
  MaxLeaves = 1
  MaxSent = 1
  Correct = {c1}
  Faulty = {d1, d2}
  TrustHeight = 2
  MaxHeight = 5
  PruningSize = 2
  MaxErrors = 2
  MaxCalls = 3
INVARIANT InboundBounded
INVARIANT InOrderAndFlushed
INVARIANT NoLostWakeUp
 
INVARIANT RestoredComplete
INVARIANT MissingIsFetched
 
CHECK_DEADLOCK FALSE

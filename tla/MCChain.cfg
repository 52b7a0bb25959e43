SPECIFICATION MCSpec
CONSTANTS
  g = g
  b = b
  Kinds <- AllKinds
  MaxHeight = 3
  MaxCrashes = 3
  Txs = {t1, t2, t3}
  Configs <- MCConfigs
  MaxProposed = 2
  NoID = NoID
  Good = {g}
  Bad = {b}
  Claimed <- MCClaimed
  MaxTotal = 2
  MaxPending = 3
  MaxPerPeer = 2
  MaxJoins = 1
  Absent = Absent
INVARIANT RestartSucceeds
INVARIANT EveryBlockOnce
INVARIANT StateHasAppHash
INVARIANT NoEarlyEndHeight
 
 
INVARIANT PendingNotUndercounted
 
PROPERTY PendingIncluded
 
CHECK_DEADLOCK FALSE

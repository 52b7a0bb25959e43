SPECIFICATION MempoolFairSpec
CONSTANTS
  t1 = t1
  t2 = t2
  t3 = t3
  None = None
  Txs <- MCTxs
  TxBytes <- MCTxBytes
  MaxTxsBytes = 3
  Configs <- MCConfigs
  Callers = {c1, c2}
  MaxHeight = 2
  MaxPending = 2
INVARIANT NoRecheckPanic
INVARIANT Accounting
INVARIANT CommittedStaysOut
INVARIANT WaitingIsAnnounced
PROPERTY RecheckEnds
CHECK_DEADLOCK FALSE

SPECIFICATION VMSpec
CONSTANTS
  Txs = {t1, t2}
  Configs <- Alone
  MaxProposed = 2
  NoID = NoID
INVARIANT Linked
CHECK_DEADLOCK FALSE

----------------------------- MODULE MCMempool -----------------------------
(***************************************************************************)
(* Instances of Mempool for TLC: transactions of different lengths, so that *)
(* the count and the byte limit are reached separately, and two callers.    *)
(***************************************************************************)
EXTENDS Mempool

CONSTANTS t1, t2, t3

MCTxs == {t1, t2, t3}
MCTxBytes == [t \in MCTxs |-> IF t = t3 THEN 2 ELSE 1]

Config(client, size, cacheSize, recheck, keepInvalid) ==
  [client |-> client, size |-> size, cacheSize |-> cacheSize,
   recheck |-> recheck, keepInvalid |-> keepInvalid]

(* A socket client, a local client, a node that does not recheck, and a     *)
(* cache that is smaller than the set of transactions.                      *)
MCConfigs == {Config("socket", 2, 3, TRUE, FALSE),
              Config("local", 2, 3, TRUE, TRUE),
              Config("socket", 2, 3, FALSE, TRUE),
              Config("socket", 2, 1, TRUE, FALSE)}
=============================================================================

------------------------------- MODULE MCChain ------------------------------
(***************************************************************************)
(* How a node comes to its chain, for TLC: it recovers after a crash, its  *)
(* VM builds and accepts blocks, or it syncs them from peers.  The parts   *)
(* share no state: one runs and the others rest, in a state in which none  *)
(* of their steps that are owed is possible.                               *)
(*                                                                         *)
(* Recovery: three blocks let the state, the store and the application be  *)
(* at three different heights.  VM: an engine that runs one block at a     *)
(* time, one that runs two, and the same with other nodes that propose.    *)
(* Fast sync: a good peer at height 2 and one that claims two more.        *)
(***************************************************************************)
EXTENDS MCRecovery, LandslideVM, BlockPool

CONSTANTS g, b

VARIABLE part   \* the part that runs

MCConfigs == [peers : BOOLEAN, processing : {1, 2}]
MCClaimed == [p \in {g, b} |-> IF p = g THEN 2 ELSE 4]

RecoveryRests ==
  /\ kind = Kind("node", TRUE, TRUE, FALSE) /\ pc = "idle"
  /\ app = <<>> /\ responses = {} /\ wal = {}
  /\ state = [height |-> 0, appHash |-> Empty, params |-> TRUE]
  /\ store = [base |-> 0, height |-> 0, appHash |-> [h \in Heights |-> Empty]]
  /\ applying = 0 /\ executor = "consensus" /\ appHash = Empty /\ crashes = 0

VMRests == VMInit /\ config = [peers |-> FALSE, processing |-> 1]

FastSyncRests ==
  /\ height = 1 /\ requesters = <<>> /\ peers = <<>> /\ maxPeerHeight = 0 /\ numPending = 0
  /\ connected = {} /\ errors = {} /\ asked = {} /\ routine = Idle /\ joins = 0
  /\ status = "switched"

MCInit ==
  \/ part = "recovery" /\ Init /\ VMRests /\ FastSyncRests
  \/ part = "vm" /\ RecoveryRests /\ VMInit /\ FastSyncRests
  \/ part = "fast_sync" /\ RecoveryRests /\ VMRests /\ FastSyncInit

MCNext ==
  /\ UNCHANGED part
  /\ \/ part = "recovery" /\ Next /\ UNCHANGED <<vmVars, blockPoolVars>>
     \/ part = "vm" /\ VMNext /\ UNCHANGED <<vars, blockPoolVars>>
     \/ part = "fast_sync" /\ FastSyncNext /\ UNCHANGED <<vars, vmVars>>

MCSpec ==
  /\ MCInit /\ [][MCNext]_<<part, vars, vmVars, blockPoolVars>>
  /\ Fairness /\ VMFairness /\ FastSyncFairness
=============================================================================

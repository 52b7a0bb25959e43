------------------------------ MODULE MCStorage -----------------------------
(***************************************************************************)
(* What the node keeps on disk, for TLC: the signer's state, the block     *)
(* store and the state store.  FilePV has one height and two rounds, which *)
(* with the empty record of height 0 give every outcome of the comparison; *)
(* two bodies and two timestamps tell a conflicting request from one that  *)
(* differs in the timestamp only.  A prune of the block store flushes      *)
(* twice and ends in the middle of a batch.  The parts share no state: one *)
(* runs and the others stay in an initial state.                           *)
(***************************************************************************)
EXTENDS FilePV, BlockStore, StateStore

VARIABLE part   \* the part that runs

MCHeights == {1}
MCRounds == {0, 1}
MCTimes == {10, 20}

MCInit ==
  /\ part \in {"signer", "block_store", "state_store"}
  /\ FilePVInit /\ BlockStoreInit /\ StateStoreInit
  /\ part # "block_store" => first = 1
  /\ part # "state_store" => start = 0

MCNext ==
  /\ UNCHANGED part
  /\ \/ part = "signer" /\ FilePVNext /\ UNCHANGED <<blockStoreVars, stateVars>>
     \/ part = "block_store" /\ BlockStoreNext /\ UNCHANGED <<filePVVars, stateVars>>
     \/ part = "state_store" /\ StateStoreNext /\ UNCHANGED <<filePVVars, blockStoreVars>>

MCSpec == MCInit /\ [][MCNext]_<<part, filePVVars, blockStoreVars, stateVars>>
=============================================================================

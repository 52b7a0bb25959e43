----------------------------- MODULE StateStore -----------------------------
(***************************************************************************)
(* state/store.go: the validator sets, consensus params and ABCI responses  *)
(* by height; Save, Bootstrap, PruneStates, the loads, and rollback.go.     *)
(* They are written as blocks are applied (ApplyBlock in execution.go) and  *)
(* pruned with the block store (pruneBlocks in consensus/state.go); a crash *)
(* may come between any two writes.                                         *)
(*                                                                          *)
(* Writes keep their order, so a crash that loses unsynced ones is a crash  *)
(* that comes earlier.  Of the block store only base and height matter      *)
(* here; BlockStore has the rest of it.                                     *)
(*                                                                          *)
(* Abstraction: a validator set is the height at which it took effect and   *)
(* how often its proposer priorities were incremented since; the params     *)
(* are the height at which they took effect.                                *)
(***************************************************************************)
EXTENDS Integers, FiniteSets

CONSTANTS SyncHeights,  \* heights state sync may bootstrap at; 0 is none
          MaxBlock,     \* bound on the height of the chain
          Interval,     \* valSetCheckpointInterval, 100000 in the code
          MaxFailures,  \* bound on the number of crashes
          Nothing       \* no value

VARIABLES
  start,      \* height that was state synced, or 0
  chain,      \* what the block at a height changes
  vals,       \* validatorsKey: ValidatorsInfo by height
  params,     \* consensusParamsKey: ConsensusParamsInfo by height
  responses,  \* abciResponsesKey: heights with responses
  state,      \* stateKey: the State
  blockBase, top,  \* base and height of the block store
  committer,         \* where the goroutine that commits is
  from,       \* PruneStates: its first argument
  next,       \* PruneStates: the variable h
  failures    \* crashes so far

stateVars == <<start, chain, vals, params, responses, state, blockBase, top, committer, from, next, failures>>

StateHeights == 0..MaxBlock + 2
Changes == {"none", "vals", "params"}

ValSet(changed, h) == [changed |-> changed, incremented |-> h - changed]

-----------------------------------------------------------------------------
(***************************************************************************)
(* updateState: the State after the block at height h.  A change of the     *)
(* validators takes effect two heights later, one of the params at the next *)
(* height.                                                                  *)
(***************************************************************************)
Incremented(set, n) == [set EXCEPT !.incremented = @ + n]

UpdateState(s, h) ==
  [height |-> h,
   last |-> s.current,
   current |-> s.next,
   next |-> IF chain[h] = "vals" THEN ValSet(h + 2, h + 2) ELSE Incremented(s.next, 1),
   valsChanged |-> IF chain[h] = "vals" THEN h + 2 ELSE s.valsChanged,
   params |-> IF chain[h] = "params" THEN h + 1 ELSE s.params,
   paramsChanged |-> IF chain[h] = "params" THEN h + 1 ELSE s.paramsChanged]

(***************************************************************************)
(* saveValidatorsInfo: the set itself only when it changed, and at          *)
(* checkpoints.                                                             *)
(***************************************************************************)
ValidatorsInfo(h, changed, set) ==
  [changed |-> changed, set |-> IF h = changed \/ h % Interval = 0 THEN set ELSE Nothing]

ConsensusParamsInfo(h, changed, p) ==
  [changed |-> changed, params |-> IF h = changed THEN p ELSE Nothing]

-----------------------------------------------------------------------------
LastStoredHeightFor(h, changed) ==
  IF h - (h % Interval) > changed THEN h - (h % Interval) ELSE changed

(***************************************************************************)
(* LoadValidators and LoadConsensusParams; Nothing is an error.             *)
(***************************************************************************)
LoadValidators(h) ==
  IF vals[h] = Nothing THEN Nothing
  ELSE IF vals[h].set # Nothing THEN vals[h].set
  ELSE LET stored == LastStoredHeightFor(h, vals[h].changed)
       IN  IF vals[stored] = Nothing \/ vals[stored].set = Nothing THEN Nothing
           ELSE Incremented(vals[stored].set, h - stored)

LoadConsensusParams(h) ==
  IF params[h] = Nothing THEN Nothing
  ELSE IF params[h].params # Nothing THEN params[h].params
  ELSE IF params[params[h].changed] = Nothing THEN Nothing
  ELSE params[params[h].changed].params

-----------------------------------------------------------------------------
(***************************************************************************)
(* Save of the genesis state, and Bootstrap of the State that state sync    *)
(* has made, whose sets and params count as changed.                        *)
(***************************************************************************)
Genesis ==
  [height |-> 0, last |-> Nothing, current |-> ValSet(1, 1), next |-> ValSet(1, 2),
   valsChanged |-> 1, params |-> 1, paramsChanged |-> 1]

Synced(h) ==
  [height |-> h, last |-> ValSet(h, h), current |-> ValSet(h + 1, h + 1), next |-> ValSet(h + 2, h + 2),
   valsChanged |-> h + 2, params |-> h + 1, paramsChanged |-> h + 1]

StateStoreInit ==
  /\ chain = [h \in StateHeights |-> "none"]
  /\ responses = {}
  /\ start \in SyncHeights
  /\ LET h == start
     IN
       IF h = 0
       THEN /\ state = Genesis
            /\ vals = [x \in StateHeights |->
                         IF x = 1 THEN ValidatorsInfo(1, 1, ValSet(1, 1))
                         ELSE IF x = 2 THEN ValidatorsInfo(2, 1, ValSet(1, 2)) ELSE Nothing]
            /\ params = [x \in StateHeights |->
                           IF x = 1 THEN ConsensusParamsInfo(1, 1, 1) ELSE Nothing]
       ELSE /\ state = Synced(h)
            /\ vals = [x \in StateHeights |->
                         IF x \in h..h + 2 THEN ValidatorsInfo(x, x, ValSet(x, x)) ELSE Nothing]
            /\ params = [x \in StateHeights |->
                           IF x = h + 1 THEN ConsensusParamsInfo(h + 1, h + 1, h + 1) ELSE Nothing]
  /\ blockBase = 0
  /\ top = 0
  /\ committer = "idle"
  /\ from = 0
  /\ next = 0
  /\ failures = 0

-----------------------------------------------------------------------------
(***************************************************************************)
(* finalizeCommit: the next block is saved; what it changes is decided by   *)
(* its content, and is the same when it is applied again.                   *)
(***************************************************************************)
StoreBlock ==
  LET h == state.height + 1
  IN  /\ committer = "idle"
      /\ h <= MaxBlock
      /\ top' = h
      /\ blockBase' = IF blockBase = 0 THEN h ELSE blockBase
      /\ \E change \in Changes : chain' = [chain EXCEPT ![h] = change]
      /\ committer' = "responses"
      /\ UNCHANGED <<start, vals, params, responses, state, from, next, failures>>

(***************************************************************************)
(* ApplyBlock: the responses, then Save with the validators, the params and *)
(* the State.                                                               *)
(***************************************************************************)
Updated == UpdateState(state, state.height + 1)

SaveABCIResponses ==
  /\ committer = "responses"
  /\ responses' = responses \cup {Updated.height}
  /\ committer' = "vals"
  /\ UNCHANGED <<start, chain, vals, params, state, blockBase, top, from, next, failures>>

SaveValidatorsInfo ==
  /\ committer = "vals"
  /\ vals' = [vals EXCEPT ![Updated.height + 2] =
                ValidatorsInfo(Updated.height + 2, Updated.valsChanged, Updated.next)]
  /\ committer' = "params"
  /\ UNCHANGED <<start, chain, params, responses, state, blockBase, top, from, next, failures>>

SaveConsensusParamsInfo ==
  /\ committer = "params"
  /\ params' = [params EXCEPT ![Updated.height + 1] =
                  ConsensusParamsInfo(Updated.height + 1, Updated.paramsChanged, Updated.params)]
  /\ committer' = "state"
  /\ UNCHANGED <<start, chain, vals, responses, state, blockBase, top, from, next, failures>>

SaveState ==
  /\ committer = "state"
  /\ state' = Updated
  /\ committer' = "applied"
  /\ UNCHANGED <<start, chain, vals, params, responses, blockBase, top, from, next, failures>>

(***************************************************************************)
(* pruneBlocks with the height the application retains, if any: first the   *)
(* blocks, then the states from the old base.                               *)
(***************************************************************************)
Retain ==
  /\ committer = "applied"
  /\ \/ \E retain \in blockBase + 1..top :
          /\ blockBase' = retain
          /\ from' = blockBase
          /\ next' = retain - 1
          /\ committer' = "prune"
     \/ committer' = "idle" /\ UNCHANGED <<blockBase, from, next>>
  /\ UNCHANGED <<start, chain, vals, params, responses, state, top, failures>>

(***************************************************************************)
(* Mutant: only the height of the last change is kept.                      *)
(***************************************************************************)
KeepValsChanged(to) == IF vals[to].set = Nothing THEN {vals[to].changed} ELSE {}

(***************************************************************************)
(* PruneStates: what the height it prunes to refers to is kept.             *)
(***************************************************************************)
KeepVals(to) ==
  IF vals[to].set = Nothing THEN {vals[to].changed, LastStoredHeightFor(to, vals[to].changed)} ELSE {}
KeepParams(to) == IF params[to].params = Nothing THEN {params[to].changed} ELSE {}

(***************************************************************************)
(* One turn of its loop, downwards.  What is kept is made complete.         *)
(***************************************************************************)
PruneState ==
  LET h == next
  IN  /\ committer = "prune"
      /\ next >= from
      /\ vals' = [vals EXCEPT ![h] =
                    IF h \notin KeepVals(blockBase) THEN Nothing
                    ELSE IF @ # Nothing /\ @.set # Nothing THEN @
                    ELSE [changed |-> h, set |-> LoadValidators(h)]]
      /\ params' = [params EXCEPT ![h] =
                      IF h \notin KeepParams(blockBase) THEN Nothing
                      ELSE IF @.params # Nothing THEN @
                      ELSE [changed |-> h, params |-> LoadConsensusParams(h)]]
      /\ responses' = responses \ {h}
      /\ next' = next - 1
      /\ UNCHANGED <<start, chain, state, blockBase, top, committer, from, failures>>

(***************************************************************************)
(* Mutant: the loop leaves out the height it starts from.                   *)
(***************************************************************************)
PruneDoneEarly ==
  /\ committer = "prune"
  /\ next <= from
  /\ committer' = "idle"
  /\ UNCHANGED <<start, chain, vals, params, responses, state, blockBase, top, from, next, failures>>

PruneDone ==
  /\ committer = "prune"
  /\ next < from
  /\ committer' = "idle"
  /\ UNCHANGED <<start, chain, vals, params, responses, state, blockBase, top, from, next, failures>>

-----------------------------------------------------------------------------
(***************************************************************************)
(* A crash and the restart: the handshake applies a block that was saved    *)
(* and not applied; a prune is not taken up again.                          *)
(***************************************************************************)
Restarted == IF top = state.height + 1 THEN "responses" ELSE "idle"

Fail ==
  /\ failures < MaxFailures
  /\ failures' = failures + 1
  /\ committer' = Restarted
  /\ UNCHANGED <<start, chain, vals, params, responses, state, blockBase, top, from, next>>

StateStoreNext ==
  \/ StoreBlock
  \/ SaveABCIResponses
  \/ SaveValidatorsInfo
  \/ SaveConsensusParamsInfo
  \/ SaveState
  \/ Retain
  \/ PruneState
  \/ PruneDone
  \/ Fail

StateStoreSpec == StateStoreInit /\ [][StateStoreNext]_stateVars

(***************************************************************************)
(* Rollback, run while the node is stopped: the State is replaced by the    *)
(* one before the last block, and saved.  The node then starts again.       *)
(***************************************************************************)
Rollback ==
  LET n == state.height
      back == n - 1
      valChangeHeight == IF state.valsChanged > back THEN back + 1 ELSE state.valsChanged
      paramsChangeHeight == IF state.paramsChanged > back THEN back + 1 ELSE state.paramsChanged
      previousParams == LoadConsensusParams(back + 1)
      rolledBack == [height |-> back,
                     last |-> LoadValidators(back), current |-> state.last, next |-> state.current,
                     valsChanged |-> valChangeHeight,
                     params |-> previousParams, paramsChanged |-> paramsChangeHeight]
  IN  /\ committer = "idle"
      /\ top = n
      /\ back >= blockBase /\ blockBase > 0
      /\ rolledBack.last # Nothing
      /\ previousParams # Nothing
      /\ state' = rolledBack
      /\ vals' = [vals EXCEPT ![back + 2] = ValidatorsInfo(back + 2, valChangeHeight, rolledBack.next)]
      /\ params' = [params EXCEPT ![back + 1] = ConsensusParamsInfo(back + 1, paramsChangeHeight, previousParams)]
      /\ committer' = "responses"
      /\ UNCHANGED <<start, chain, responses, blockBase, top, from, next, failures>>

RollbackSpec == StateStoreInit /\ [][StateStoreNext \/ Rollback]_stateVars

-----------------------------------------------------------------------------
(***************************************************************************)
(* The validators and params of a height, as the blocks decide them.        *)
(***************************************************************************)
ValsChanges ==
  (IF start = 0 THEN {1} ELSE start..start + 2)
  \cup {h + 2 : h \in {x \in 1..MaxBlock : chain[x] = "vals"}}
ParamsChanges == {start + 1} \cup {h + 1 : h \in {x \in 1..MaxBlock : chain[x] = "params"}}

LastChange(changes, h) == CHOOSE c \in changes : c <= h /\ \A d \in changes : d <= h => d <= c

(***************************************************************************)
(* At every moment, after any crash and any prune, the validator set (with  *)
(* its priorities), the params and the responses of every height the block  *)
(* store has load, and are the ones the chain agreed on: BeginBlock, the    *)
(* evidence pool and light clients read them.                               *)
(***************************************************************************)
HistoryLoads ==
  LET lowest == IF blockBase = 0 THEN state.height + 1 ELSE blockBase
  IN  /\ \A h \in lowest..state.height + 2 : LoadValidators(h) = ValSet(LastChange(ValsChanges, h), h)
      /\ \A h \in lowest..state.height + 1 : LoadConsensusParams(h) = LastChange(ParamsChanges, h)
      /\ blockBase > 0 => blockBase..state.height \subseteq responses

(***************************************************************************)
(* Pruning without a crash leaves below base only heights at which the      *)
(* validators or the params changed and checkpoints.                        *)
(***************************************************************************)
PrunedToTargets ==
  failures = 0 /\ committer # "prune" =>
    \A h \in 1..blockBase - 1 :
      /\ vals[h] # Nothing => h \in ValsChanges \/ h % Interval = 0 \/ h <= start
      /\ params[h] # Nothing => h \in ParamsChanges
=============================================================================

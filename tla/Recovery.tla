------------------------------ MODULE Recovery ------------------------------
(***************************************************************************)
(* How a block becomes durable, and how a restart puts the pieces together. *)
(*                                                                          *)
(* Four things persist: the block store, the state store, the consensus WAL *)
(* and the application.  A commit writes them one after the other, and a    *)
(* crash may fall between any two writes.  The Tendermint node              *)
(* (finalizeCommit and BlockExecutor.ApplyBlock) and the Landslide VM       *)
(* (VM.applyBlock) write them in different orders; both recover with the    *)
(* same Handshaker.                                                         *)
(*                                                                          *)
(* A block is known by its height: consensus decides one per height.  The   *)
(* application is the sequence of the blocks it has committed, and an app   *)
(* hash that is not empty is that sequence, so two hashes are equal exactly *)
(* when the applications have run the same blocks.                          *)
(***************************************************************************)
EXTENDS Integers, Sequences

CONSTANTS Kinds,        \* the kinds of nodes that are considered
          MaxHeight,    \* bound on the height of the chain
          MaxCrashes    \* bound on the number of crashes and restarts

(***************************************************************************)
(* order: who commits.  persists: the application keeps its state over a    *)
(* restart.  hashes: its Commit returns an app hash.  prunes: it asks for   *)
(* old blocks to be pruned, which only one that keeps its state may do.     *)
(***************************************************************************)
ASSUME KindsAssumption ==
  /\ Kinds \subseteq [order: {"node", "vm"}, persists: BOOLEAN,
                      hashes: BOOLEAN, prunes: BOOLEAN]
  /\ \A k \in Kinds : k.prunes => k.persists /\ k.order = "node"
ASSUME BoundsAssumption == MaxHeight \in Nat /\ MaxCrashes \in Nat

VARIABLES
  kind,      \* the kind of this node
  app,       \* blocks the application has committed
  state,     \* state store: last block height, AppHash, and whether the consensus
             \* parameters are set
  store,     \* block store: base, height, and the AppHash in each header
  responses, \* state store: heights with saved ABCI responses
  wal,       \* heights with an #ENDHEIGHT mark
  pc,        \* where the node is
  applying,  \* block that is applied or replayed
  executor,  \* who applies: consensus (or Accept), or the handshake with the
             \* application ("replay") or with a mock of it ("mock")
  appHash,   \* hash last returned by Commit, or Info's for the mock
  crashes    \* crashes so far

vars == <<kind, app, state, store, responses, wal, pc, applying, executor,
          appHash, crashes>>

Empty == <<>>
Hash(blocks) == IF kind.hashes THEN blocks ELSE Empty
AppHeight == IF app = <<>> THEN 0 ELSE app[Len(app)]
UpTo(n) == [i \in 1..n |-> i]
Heights == 1..MaxHeight

TypeOK ==
  /\ kind \in Kinds
  /\ app \in Seq(Heights)
  /\ state \in [height: 0..MaxHeight, appHash: Seq(Heights), params: BOOLEAN]
  /\ store \in [base: 0..MaxHeight, height: 0..MaxHeight,
                appHash: [Heights -> Seq(Heights)]]
  /\ responses \subseteq Heights
  /\ wal \subseteq Heights
  /\ pc \in {"down", "replay", "idle", "endHeight", "apply", "commit",
             "saveState", "saveBlock", "prune", "mempool", "failed", "noMempool"}
  /\ applying \in 0..MaxHeight + 1
  /\ executor \in {"consensus", "replay", "mock"}
  /\ appHash \in Seq(Heights)
  /\ crashes \in 0..MaxCrashes

(***************************************************************************)
(* A new node: no block, and the genesis state.                             *)
(***************************************************************************)
Init ==
  /\ kind \in Kinds
  /\ app = <<>>
  /\ state = [height |-> 0, appHash |-> Empty, params |-> TRUE]
  /\ store = [base |-> 0, height |-> 0, appHash |-> [h \in Heights |-> Empty]]
  /\ responses = {}
  /\ wal = {}
  /\ pc = "down"
  /\ applying = 0
  /\ executor = "consensus"
  /\ appHash = Empty
  /\ crashes = 0

-----------------------------------------------------------------------------
(***************************************************************************)
(* BlockStore.SaveBlock: the descriptor with the new height is what counts. *)
(* The header of the block carries the AppHash its proposer had in memory:  *)
(* a node's is the state's, the VM's was loaded when it started and is not  *)
(* replaced by applyBlock.                                                  *)
(***************************************************************************)
SaveBlock(h) ==
  [base |-> IF store.base = 0 THEN h ELSE store.base,
   height |-> h,
   appHash |-> [store.appHash EXCEPT ![h] =
                  IF kind.order = "node" THEN state.appHash ELSE Empty]]

(***************************************************************************)
(* Mutant: the node does not save the block first.                          *)
(***************************************************************************)
FinalizeCommitUnsaved ==
  /\ pc = "idle"
  /\ kind.order = "node"
  /\ state.height < MaxHeight
  /\ applying' = state.height + 1
  /\ pc' = "endHeight"
  /\ UNCHANGED <<kind, app, state, store, responses, wal, executor, appHash, crashes>>

(***************************************************************************)
(* finalizeCommit of the node begins with the block store.                  *)
(***************************************************************************)
FinalizeCommit ==
  /\ pc = "idle"
  /\ kind.order = "node"
  /\ state.height < MaxHeight
  /\ store' = IF store.height < state.height + 1
              THEN SaveBlock(state.height + 1) ELSE store
  /\ applying' = state.height + 1
  /\ pc' = "endHeight"
  /\ UNCHANGED <<kind, app, state, responses, wal, executor, appHash, crashes>>

(***************************************************************************)
(* It then marks the end of the height in the WAL.                          *)
(***************************************************************************)
WriteEndHeight ==
  /\ pc = "endHeight"
  /\ wal' = wal \cup {applying}
  /\ pc' = "apply"
  /\ UNCHANGED <<kind, app, state, store, responses, applying, executor, appHash, crashes>>

(***************************************************************************)
(* Accept of the VM's next block goes straight to applyBlock.               *)
(***************************************************************************)
Accept ==
  /\ pc = "idle"
  /\ kind.order = "vm"
  /\ state.height < MaxHeight
  /\ applying' = state.height + 1
  /\ pc' = "apply"
  /\ UNCHANGED <<kind, app, state, store, responses, wal, executor, appHash, crashes>>

(***************************************************************************)
(* Mutant: the responses are not saved before Commit.                       *)
(***************************************************************************)
ExecuteUnsaved ==
  /\ pc = "apply"
  /\ pc' = "commit"
  /\ UNCHANGED <<kind, app, state, store, responses, wal, applying, executor, appHash, crashes>>

(***************************************************************************)
(* ApplyBlock up to SaveABCIResponses.  BlockExecutor validates the app     *)
(* hash of the header against the state; the VM's validateBlock does not.   *)
(***************************************************************************)
Execute ==
  /\ pc = "apply"
  /\ IF kind.order = "node" /\ store.appHash[applying] # state.appHash
     THEN pc' = "failed" /\ UNCHANGED responses
     ELSE pc' = "commit" /\ responses' = responses \cup {applying}
  /\ UNCHANGED <<kind, app, state, store, wal, applying, executor, appHash, crashes>>

(***************************************************************************)
(* CommitSync.  The mock returns the hash that Info reported.               *)
(***************************************************************************)
Commit ==
  /\ pc = "commit"
  /\ app' = IF executor = "mock" THEN app ELSE Append(app, applying)
  /\ appHash' = IF executor = "mock" THEN appHash ELSE Hash(app')
  /\ pc' = "saveState"
  /\ UNCHANGED <<kind, state, store, responses, wal, applying, executor, crashes>>

(***************************************************************************)
(* Mutant: the state is saved without the app hash.                         *)
(***************************************************************************)
SaveStateNoHash ==
  /\ pc = "saveState"
  /\ state' = [state EXCEPT !.height = applying]
  /\ pc' = IF executor # "consensus" THEN "mempool" ELSE "idle"
  /\ executor' = "consensus"
  /\ UNCHANGED <<kind, app, store, responses, wal, applying, appHash, crashes>>

(***************************************************************************)
(* stateStore.Save.  The VM's updateState sets neither the AppHash nor the  *)
(* consensus parameters.                                                    *)
(***************************************************************************)
SaveState ==
  /\ pc = "saveState"
  /\ state' = [height |-> applying,
               appHash |-> IF kind.order = "node" THEN appHash ELSE Empty,
               params |-> kind.order = "node" /\ state.params]
  /\ pc' = IF kind.order = "vm" THEN "saveBlock"
           ELSE IF executor # "consensus" THEN "mempool"
           ELSE IF kind.prunes THEN "prune" ELSE "idle"
  /\ executor' = "consensus"
  /\ UNCHANGED <<kind, app, store, responses, wal, applying, appHash, crashes>>

(***************************************************************************)
(* The VM saves the block last.  SaveBlock panics on a gap.                 *)
(***************************************************************************)
SaveBlockLast ==
  /\ pc = "saveBlock"
  /\ IF store.base > 0 /\ applying # store.height + 1
     THEN pc' = "failed" /\ UNCHANGED store
     ELSE pc' = "idle" /\ store' = SaveBlock(applying)
  /\ UNCHANGED <<kind, app, state, responses, wal, applying, executor, appHash, crashes>>

(***************************************************************************)
(* finalizeCommit ends with pruneBlocks to the height the application asked *)
(* to retain, if it asked (0 is no request).  The handshake ignores it.     *)
(***************************************************************************)
Prune ==
  /\ pc = "prune"
  /\ \E retain \in store.base..store.height :
       store' = [store EXCEPT !.base = retain]
  /\ pc' = "idle"
  /\ UNCHANGED <<kind, app, state, responses, wal, applying, executor, appHash, crashes>>

-----------------------------------------------------------------------------
(***************************************************************************)
(* The cases in which ReplayBlocks gives up, for a store with blocks: the   *)
(* application is below what was pruned, the application is ahead of the    *)
(* store, the state is ahead of the store, or the store is more than one    *)
(* ahead of the state.  The first two are errors, the others panics.        *)
(***************************************************************************)
Refused ==
  \/ AppHeight = 0 /\ 1 < store.base
  \/ AppHeight > 0 /\ AppHeight < store.base - 1
  \/ store.height < AppHeight
  \/ store.height < state.height
  \/ store.height > state.height + 1

(***************************************************************************)
(* InitChain, sent to an application at height 0, returns no app hash.      *)
(***************************************************************************)
InfoHash == IF AppHeight = 0 THEN Empty ELSE Hash(app)

(***************************************************************************)
(* ReplayBlocks finds nothing to replay: the store has no block, or all     *)
(* three are at one height.  assertAppHashEqualsOneFromState may panic.     *)
(***************************************************************************)
HandshakeSynced ==
  /\ pc = "down"
  /\ \/ store.height = 0
     \/ ~ Refused /\ store.height = state.height /\ AppHeight = store.height
  /\ pc' = IF InfoHash = state.appHash THEN "mempool" ELSE "failed"
  /\ UNCHANGED <<kind, app, state, store, responses, wal, applying, executor,
                 appHash, crashes>>

(***************************************************************************)
(* ReplayBlocks returns an error or panics.                                 *)
(***************************************************************************)
HandshakeRefused ==
  /\ pc = "down"
  /\ store.height > 0
  /\ Refused
  /\ pc' = "failed"
  /\ UNCHANGED <<kind, app, state, store, responses, wal, applying, executor,
                 appHash, crashes>>

(***************************************************************************)
(* The application is behind the store: replayBlocks starts after its last  *)
(* block.                                                                   *)
(***************************************************************************)
HandshakeReplay ==
  /\ pc = "down"
  /\ store.height > 0
  /\ ~ Refused
  /\ AppHeight < store.height
  /\ pc' = "replay"
  /\ applying' = AppHeight + 1
  /\ appHash' = Empty
  /\ executor' = "replay"
  /\ UNCHANGED <<kind, app, state, store, responses, wal, crashes>>

(***************************************************************************)
(* Mutant: the last block is replayed on the application itself.            *)
(***************************************************************************)
HandshakeMockOnApp ==
  /\ pc = "down"
  /\ store.height > 0
  /\ ~ Refused
  /\ AppHeight = store.height
  /\ store.height = state.height + 1
  /\ pc' = "apply"
  /\ applying' = store.height
  /\ executor' = "replay"
  /\ UNCHANGED <<kind, app, state, store, responses, wal, appHash, crashes>>

(***************************************************************************)
(* The application has the last block and the state has not: the block is   *)
(* applied with a mock that answers from the saved responses.               *)
(***************************************************************************)
HandshakeMock ==
  /\ pc = "down"
  /\ store.height > 0
  /\ ~ Refused
  /\ AppHeight = store.height
  /\ store.height = state.height + 1
  /\ pc' = IF store.height \in responses THEN "apply" ELSE "failed"
  /\ applying' = store.height
  /\ executor' = "mock"
  /\ appHash' = Hash(app)
  /\ UNCHANGED <<kind, app, state, store, responses, wal, crashes>>

(***************************************************************************)
(* LoadValidators finds no set for the block before.  The genesis state has *)
(* the sets of heights 1 and 2; the VM's states refer to a set at height 0  *)
(* from then on.  (The VM's commits have one signature: the genesis is one  *)
(* with one validator.)                                                     *)
(***************************************************************************)
NoValidators == kind.order = "vm" /\ applying > 3

(***************************************************************************)
(* One turn of the loop of replayBlocks: ExecCommitBlock runs the block on  *)
(* the application and saves nothing.  Blocks up to the state's height are  *)
(* replayed like that.                                                      *)
(***************************************************************************)
ReplayBlock ==
  /\ pc = "replay"
  /\ applying <= state.height
  /\ IF NoValidators \/ (appHash # Empty /\ appHash # store.appHash[applying])
     THEN pc' = "failed" /\ UNCHANGED <<app, appHash, applying>>
     ELSE /\ app' = Append(app, applying)
          /\ appHash' = Hash(app')
          /\ applying' = applying + 1
          /\ UNCHANGED pc
  /\ UNCHANGED <<kind, state, store, responses, wal, executor, crashes>>

(***************************************************************************)
(* Mutant: the loop of replayBlocks ends one block late.                    *)
(***************************************************************************)
ReplayEndsLate ==
  /\ pc = "replay"
  /\ applying > state.height + 1
  /\ pc' = "mempool"
  /\ UNCHANGED <<kind, app, state, store, responses, wal, applying, executor, appHash, crashes>>

(***************************************************************************)
(* After the loop: a block the state does not know goes through ApplyBlock, *)
(* otherwise the app hash must be the state's.                              *)
(***************************************************************************)
ReplayEnds ==
  /\ pc = "replay"
  /\ applying > state.height
  /\ pc' = IF applying = store.height THEN "apply"
           ELSE IF appHash = state.appHash THEN "mempool" ELSE "failed"
  /\ executor' = IF pc' = "apply" THEN executor ELSE "consensus"
  /\ UNCHANGED <<kind, app, state, store, responses, wal, applying, appHash, crashes>>

(***************************************************************************)
(* After the handshake the mempool is created with a limit on the size of a *)
(* transaction computed from the parameters of the stored state, which      *)
(* panics when they are zero.                                               *)
(***************************************************************************)
CreateMempool ==
  /\ pc = "mempool"
  /\ pc' = IF state.params THEN "idle" ELSE "noMempool"
  /\ UNCHANGED <<kind, app, state, store, responses, wal, applying, executor, appHash, crashes>>

(***************************************************************************)
(* The process stops, at any point, and is started again.                   *)
(***************************************************************************)
Crash ==
  /\ pc # "down"
  /\ crashes < MaxCrashes
  /\ crashes' = crashes + 1
  /\ pc' = "down"
  /\ applying' = 0
  /\ executor' = "consensus"
  /\ appHash' = Empty
  /\ app' = IF kind.persists THEN app ELSE <<>>
  /\ UNCHANGED <<kind, state, store, responses, wal>>

Handshake == HandshakeSynced \/ HandshakeRefused \/ HandshakeReplay \/ HandshakeMock

Next ==
  \/ FinalizeCommit
  \/ WriteEndHeight
  \/ Accept
  \/ Execute
  \/ Commit
  \/ SaveState
  \/ SaveBlockLast
  \/ Prune
  \/ HandshakeSynced
  \/ HandshakeRefused
  \/ HandshakeReplay
  \/ HandshakeMock
  \/ ReplayBlock
  \/ ReplayEnds
  \/ CreateMempool
  \/ Crash

Spec == Init /\ [][Next]_vars

(***************************************************************************)
(* A step that has begun is taken: one goroutine runs the handshake and     *)
(* nothing in it waits.  New blocks and crashes need not come.              *)
(***************************************************************************)
Fairness ==
  /\ WF_vars(Handshake \/ ReplayBlock \/ ReplayEnds \/ CreateMempool)
  /\ WF_vars(Execute \/ Commit \/ SaveState \/ Prune)

FairSpec == Spec /\ Fairness

-----------------------------------------------------------------------------
IsNode == kind.order = "node"

(***************************************************************************)
(* A node recovers from a crash at any point, however often it crashes: the *)
(* handshake never returns an error and never panics.                       *)
(***************************************************************************)
RestartSucceeds == IsNode => pc \notin {"failed", "noMempool"}

(***************************************************************************)
(* When a node is up, its application has run every block up to the state's *)
(* height exactly once and in order, although each of them may have been    *)
(* interrupted, replayed, or replayed against the mock.                     *)
(***************************************************************************)
EveryBlockOnce == IsNode /\ pc = "idle" => app = UpTo(state.height)

(***************************************************************************)
(* The AppHash a node has in its state is the one of its application.       *)
(***************************************************************************)
StateHasAppHash == IsNode /\ pc = "idle" => state.appHash = Hash(app)

(***************************************************************************)
(* catchupReplay's sanity check never fires: when consensus starts a height *)
(* the WAL has no #ENDHEIGHT mark for it.                                   *)
(***************************************************************************)
NoEarlyEndHeight == IsNode /\ pc = "idle" => (state.height + 1) \notin wal

(***************************************************************************)
(* A started node finishes its handshake.                                   *)
(***************************************************************************)
RecoveryEnds == IsNode /\ pc = "down" ~> pc = "idle"

(***************************************************************************)
(* The handshake of a VM succeeds: "the state should never be ahead of the  *)
(* store (this is under tendermint's control)".                             *)
(***************************************************************************)
VMHandshakeSucceeds == ~ IsNode => pc # "failed"

=============================================================================

----------------------------- MODULE LandslideVM -----------------------------
(***************************************************************************)
(* The Landslide VM between the Avalanche consensus engine and the mempool: *)
(* transactions arrive, the engine is told, it asks for blocks, decides     *)
(* between the ones that are processing, and the VM applies what it accepts.*)
(*                                                                          *)
(* The engine holds the chain's lock around every call into the VM, RPC     *)
(* handlers included (LockOptions is WriteLock), so a call is one step.     *)
(* What a crash or a restart leaves behind is the subject of Recovery.  The *)
(* mempool's inside is the subject of Mempool; here it is the set of its    *)
(* transactions and the set its cache remembers.                            *)
(***************************************************************************)
EXTENDS Integers, Sequences, FiniteSets

CONSTANTS Txs,         \* transactions of the clients
          Configs,     \* [peers, processing]: whether other nodes propose, and
                       \* how many blocks the engine lets process at a time
          MaxProposed,   \* bound on the height of blocks other nodes propose
          NoID         \* the zero block ID

VARIABLES
  config,     \* the configuration of this run
  mempool,    \* transactions in the mempool
  cache,      \* transactions in the mempool's cache
  toEngine,   \* a PendingTxs message is in the channel, whose capacity is 1
  owed,       \* the engine took a message and has not called BuildBlock yet
  tmState,    \* vm.tmState: height and LastBlockID
  vmState,      \* the state store: height and LastBlockID
  chain,      \* the block store: accepted blocks in order
  processing  \* blocks that are verified and not decided

vmVars == <<config, mempool, cache, toEngine, owed, tmState, vmState, chain,
          processing>>

(***************************************************************************)
(* A block is identified by its height and its transactions; it names the   *)
(* block before it in its header.                                           *)
(***************************************************************************)
Top == MaxProposed + Cardinality(Txs)
IDs == [height: 1..Top, txs: SUBSET Txs]

(***************************************************************************)
(* Initialize with the genesis state.                                       *)
(***************************************************************************)
VMInit ==
  /\ config \in Configs
  /\ mempool = {} /\ cache = {}
  /\ toEngine = FALSE /\ owed = FALSE
  /\ tmState = [height |-> 0, lastBlockID |-> NoID]
  /\ vmState = tmState
  /\ chain = <<>>
  /\ processing = {}

-----------------------------------------------------------------------------
(***************************************************************************)
(* Mutant: nothing is sent while a block is processing.                     *)
(***************************************************************************)
NotifyWhenIdle == toEngine' = (toEngine \/ processing = {})

(***************************************************************************)
(* NotifyBlockReady sends without waiting; a message already there stays.   *)
(***************************************************************************)
NotifyBlockReady == toEngine' = TRUE

(***************************************************************************)
(* A broadcast method of the service calls CheckTx, which the local client  *)
(* answers before it returns.  A cached transaction is refused; a valid one *)
(* is added and the engine is notified; an invalid one leaves the cache.    *)
(***************************************************************************)
CheckTx(t) ==
  /\ t \notin cache
  /\ \/ /\ mempool' = mempool \cup {t}
        /\ cache' = cache \cup {t}
        /\ NotifyBlockReady
     \/ UNCHANGED <<mempool, cache, toEngine>>
  /\ UNCHANGED <<config, owed, tmState, vmState, chain, processing>>

(***************************************************************************)
(* The engine takes the message.                                            *)
(***************************************************************************)
EngineReceives ==
  /\ toEngine
  /\ ~ owed
  /\ toEngine' = FALSE
  /\ owed' = TRUE
  /\ UNCHANGED <<config, mempool, cache, tmState, vmState, chain, processing>>

(***************************************************************************)
(* buildBlock reaps the whole mempool and takes nothing out of it.  The     *)
(* block's height follows tmState's, and so does its LastBlockID.           *)
(***************************************************************************)
BuiltBlock ==
  [id |-> [height |-> tmState.height + 1, txs |-> mempool],
   lastBlockID |-> tmState.lastBlockID]

(***************************************************************************)
(* The engine calls BuildBlock when there is room for a block, and verifies *)
(* the result.  With an empty mempool buildBlock returns errNoPendingTxs.   *)
(***************************************************************************)
BuildBlock ==
  /\ owed
  /\ Cardinality(processing) < config.processing
  /\ owed' = FALSE
  /\ processing' = IF mempool = {} THEN processing ELSE processing \cup {BuiltBlock}
  /\ UNCHANGED <<config, mempool, cache, toEngine, tmState, vmState, chain>>

(***************************************************************************)
(* A block of another node is parsed and verified.  The other node runs the *)
(* same code, so its tmState names no block.  Verify, like the parse, is    *)
(* ValidateBasic and looks at no state.                                     *)
(***************************************************************************)
ParseBlock ==
  /\ config.peers
  /\ Cardinality(processing) < config.processing
  /\ vmState.height < MaxProposed
  /\ \E txs \in (SUBSET Txs) \ {{}} :
       processing' = processing \cup
         {[id |-> [height |-> vmState.height + 1, txs |-> txs], lastBlockID |-> NoID]}
  /\ UNCHANGED <<config, mempool, cache, toEngine, owed, tmState, vmState, chain>>

(***************************************************************************)
(* Mutant: applyBlock leaves tmState's height behind.                       *)
(***************************************************************************)
AcceptStale(b) ==
  /\ b.id.height = vmState.height + 1
  /\ \E invalid \in SUBSET (mempool \ b.id.txs) :
       /\ mempool' = (mempool \ b.id.txs) \ invalid
       /\ cache' = (cache \cup b.id.txs) \ invalid
  /\ vmState' = [height |-> b.id.height, lastBlockID |-> b.id]
  /\ chain' = Append(chain, b)
  /\ processing' = processing \ {b}
  /\ UNCHANGED <<config, toEngine, owed, tmState>>

(***************************************************************************)
(* Mutant: Update is not called for the block's transactions.               *)
(***************************************************************************)
AcceptKeeping(b) ==
  /\ b.id.height = vmState.height + 1
  /\ tmState' = [tmState EXCEPT !.height = b.id.height]
  /\ vmState' = [height |-> b.id.height, lastBlockID |-> b.id]
  /\ chain' = Append(chain, b)
  /\ processing' = processing \ {b}
  /\ UNCHANGED <<config, mempool, cache, toEngine, owed>>

(***************************************************************************)
(* Accept of a block at the next height; the engine decides one per height. *)
(* applyBlock runs it, takes its transactions out of the mempool and into   *)
(* the cache, rechecks the others (some leave), raises tmState's height and *)
(* saves the new state and the block.                                       *)
(***************************************************************************)
AcceptBlock(b) ==
  /\ b.id.height = vmState.height + 1
  /\ \E invalid \in SUBSET (mempool \ b.id.txs) :
       /\ mempool' = (mempool \ b.id.txs) \ invalid
       /\ cache' = (cache \cup b.id.txs) \ invalid
  /\ tmState' = [tmState EXCEPT !.height = b.id.height]
  /\ vmState' = [height |-> b.id.height, lastBlockID |-> b.id]
  /\ chain' = Append(chain, b)
  /\ processing' = processing \ {b}
  /\ UNCHANGED <<config, toEngine, owed>>

(***************************************************************************)
(* A block that lost is rejected, which changes its status only.            *)
(***************************************************************************)
Reject(b) ==
  /\ b.id.height <= vmState.height
  /\ processing' = processing \ {b}
  /\ UNCHANGED <<config, mempool, cache, toEngine, owed, tmState, vmState, chain>>

VMNext ==
  \/ \E t \in Txs : CheckTx(t)
  \/ EngineReceives
  \/ BuildBlock
  \/ ParseBlock
  \/ \E b \in processing : AcceptBlock(b)
  \/ \E b \in processing : Reject(b)

VMSpec == VMInit /\ [][VMNext]_vmVars

(***************************************************************************)
(* The engine takes its messages, builds when it may and decides what it    *)
(* processes.  Clients and other nodes owe nothing.                         *)
(***************************************************************************)
VMFairness ==
  /\ WF_vmVars(EngineReceives)
  /\ WF_vmVars(BuildBlock)
  /\ WF_vmVars(\E b \in processing : AcceptBlock(b) \/ Reject(b))

VMFairSpec == VMSpec /\ VMFairness

-----------------------------------------------------------------------------
OneAtATime == ~ config.peers /\ config.processing = 1

(***************************************************************************)
(* The accepted chain has one block per height, without a gap, although     *)
(* blocks are built from memory and several of one height may be built      *)
(* before any of them is accepted.                                          *)
(***************************************************************************)
Contiguous ==
  /\ \A i \in DOMAIN chain : chain[i].id.height = i
  /\ tmState.height = Len(chain) /\ vmState.height = Len(chain)

(***************************************************************************)
(* While no other node proposes, no transaction is in two accepted blocks,  *)
(* although a built block stays in the mempool and is built into later      *)
(* blocks until one of them is accepted.                                    *)
(***************************************************************************)
NoTxTwice ==
  ~ config.peers
  => \A i, j \in DOMAIN chain :
       i # j => chain[i].id.txs \cap chain[j].id.txs = {}

(***************************************************************************)
(* When the engine runs one block at a time and no other node proposes,     *)
(* every transaction in the mempool leaves it, into a block or as invalid:  *)
(* no notification that matters is lost, although NotifyBlockReady drops a  *)
(* message when one is waiting.                                             *)
(***************************************************************************)
PendingIncluded ==
  \A t \in Txs : (OneAtATime /\ t \in mempool) ~> t \notin mempool

(***************************************************************************)
(* LastBlockID is "prev block info": each block names the one before it.    *)
(***************************************************************************)
Linked ==
  \A i \in DOMAIN chain :
    i > 1 => chain[i].lastBlockID = chain[i - 1].id
=============================================================================

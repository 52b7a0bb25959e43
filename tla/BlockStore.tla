----------------------------- MODULE BlockStore -----------------------------
(***************************************************************************)
(* store/store.go: SaveBlock, PruneBlocks and SaveSeenCommit, key by key,   *)
(* with a crash between any two writes.                                     *)
(*                                                                          *)
(* Both are called by the goroutine that commits, and readers (RPC, gossip) *)
(* see every intermediate state of the database and of base and height in   *)
(* memory.  The database keeps the order of its writes: Set may be lost in  *)
(* a crash, together with all later ones, until the next SetSync.  A batch  *)
(* is not atomic.                                                           *)
(*                                                                          *)
(* Abstraction: a block has two parts, and what a key stores is determined  *)
(* by its height, so the database is the set of kinds present per height.   *)
(***************************************************************************)
EXTENDS Integers, Sequences, FiniteSets

CONSTANTS Firsts,      \* heights the chain may start at in this store: 1, or the
                       \* one after the height that was state synced
          MaxHeight,   \* bound on the height of the chain
          BatchSize,   \* blocks per batch of PruneBlocks (1000 in the code)
          MaxCrashes   \* bound on the number of crashes

VARIABLES
  first,    \* height of the first block that is saved
  db,       \* height -> kinds of keys in the database
  unsynced, \* keys written since the last sync, in order
  base, height,  \* fields of BlockStore
  descriptor,    \* BlockStoreState in the database
  writer,       \* where the writer is
  todo,     \* SaveBlock: keys it has still to write
  retain, cursor, pruned, batch, newBase,  \* PruneBlocks: its argument, the
            \* variables h and pruned, the batch, the argument of flush
  crashes   \* crashes so far

database == <<db, unsynced, descriptor>>
prune == <<retain, cursor, pruned, batch, newBase>>
blockStoreVars == <<first, database, base, height, writer, todo, prune, crashes>>

PartKinds == {"part1", "part2"}
AllHeights == 0..MaxHeight

BlockStoreInit ==
  /\ first \in Firsts
  /\ db = [h \in AllHeights |-> {}]
  /\ unsynced = <<>>
  /\ base = 0 /\ height = 0
  /\ descriptor = [base |-> 0, height |-> 0]
  /\ writer = "start"
  /\ todo = <<>>
  /\ retain = 0 /\ cursor = 0 /\ pruned = 0 /\ batch = <<>> /\ newBase = 0
  /\ crashes = 0

-----------------------------------------------------------------------------
(***************************************************************************)
(* db.Set of a key.  One that is there already is written with the value it *)
(* has, so losing the write loses nothing.                                  *)
(***************************************************************************)
Set(key) ==
  LET kind == key[1]
      h == key[2]
  IN  /\ db' = [db EXCEPT ![h] = @ \cup {kind}]
      /\ unsynced' = IF kind \in db[h] THEN unsynced ELSE Append(unsynced, key)

(***************************************************************************)
(* saveState: SetSync of the descriptor, which flushes what is before it.   *)
(***************************************************************************)
SaveBlockStoreState(b, h) ==
  /\ descriptor' = [base |-> b, height |-> h]
  /\ unsynced' = <<>>

(***************************************************************************)
(* A node that was state synced stores the commit of the synced height when *)
(* it starts.                                                               *)
(***************************************************************************)
SaveSeenCommit ==
  /\ writer = "start"
  /\ IF first > 1 /\ height = 0
     THEN Set(<<"seen", first - 1>>)
     ELSE UNCHANGED <<db, unsynced>>
  /\ writer' = "idle"
  /\ UNCHANGED <<first, base, height, descriptor, todo, prune, crashes>>

(***************************************************************************)
(* SaveBlock of the next block: the order of its writes.                    *)
(***************************************************************************)
Writes(h) ==
  <<<<"part1", h>>, <<"part2", h>>, <<"meta", h>>, <<"hash", h>>,
    <<"commit", h - 1>>, <<"seen", h>>>>

SaveBlock ==
  LET h == IF base > 0 THEN height + 1 ELSE first
  IN  /\ writer = "idle"
      /\ h <= MaxHeight
      /\ todo' = Writes(h)
      /\ writer' = "save"
      /\ UNCHANGED <<first, database, base, height, prune, crashes>>

SaveKey ==
  /\ writer = "save"
  /\ todo # <<>>
  /\ Set(Head(todo))
  /\ todo' = Tail(todo)
  /\ UNCHANGED <<first, base, height, descriptor, writer, prune, crashes>>

(***************************************************************************)
(* All keys are written: readers are told first, ...                        *)
(***************************************************************************)
SaveBlockDone ==
  /\ writer = "save"
  /\ todo = <<>>
  /\ height' = IF base > 0 THEN height + 1 ELSE first
  /\ base' = IF base = 0 THEN height' ELSE base
  /\ writer' = "saveState"
  /\ UNCHANGED <<first, database, todo, prune, crashes>>

(***************************************************************************)
(* ... the descriptor follows.                                              *)
(***************************************************************************)
SaveBlockState ==
  /\ writer = "saveState"
  /\ SaveBlockStoreState(base, height)
  /\ writer' = "idle"
  /\ UNCHANGED <<first, db, base, height, todo, prune, crashes>>

-----------------------------------------------------------------------------
(***************************************************************************)
(* PruneBlocks to a height between base and the latest one.                 *)
(***************************************************************************)
PruneBlocks ==
  /\ writer = "idle"
  /\ \E h \in 1..height :
       /\ h >= base
       /\ retain' = h
  /\ cursor' = base
  /\ pruned' = 0 /\ batch' = <<>> /\ newBase' = 0
  /\ writer' = "scan"
  /\ UNCHANGED <<first, database, base, height, todo, crashes>>

(***************************************************************************)
(* What the batch deletes of a block, in order.                             *)
(***************************************************************************)
Deletes(h) ==
  <<<<"meta", h>>, <<"hash", h>>, <<"commit", h>>, <<"seen", h>>, <<"part1", h>>, <<"part2", h>>>>

(***************************************************************************)
(* Mutant: the key of the hash is not deleted.                              *)
(***************************************************************************)
PruneBlockKeepingHash ==
  /\ writer = "scan"
  /\ cursor < retain
  /\ cursor' = cursor + 1
  /\ batch' = batch \o SelectSeq(Deletes(cursor), LAMBDA key : key[1] # "hash")
  /\ UNCHANGED <<first, database, base, height, todo, writer, retain, pruned,
                 newBase, crashes>>

(***************************************************************************)
(* One turn of the loop.  A block without meta is skipped; every BatchSize  *)
(* blocks the batch is flushed with the height just added to it.            *)
(***************************************************************************)
PruneBlock ==
  /\ writer = "scan"
  /\ cursor < retain
  /\ cursor' = cursor + 1
  /\ IF "meta" \notin db[cursor]
     THEN UNCHANGED <<pruned, batch, newBase, writer>>
     ELSE /\ batch' = batch \o Deletes(cursor)
          /\ pruned' = pruned + 1
          /\ IF pruned' % BatchSize = 0
             THEN newBase' = cursor /\ writer' = "flush"
             ELSE UNCHANGED <<newBase, writer>>
  /\ UNCHANGED <<first, database, base, height, todo, retain, crashes>>

PruneLast ==
  /\ writer = "scan"
  /\ cursor = retain
  /\ newBase' = retain
  /\ writer' = "flush"
  /\ UNCHANGED <<first, database, base, height, todo, retain, cursor, pruned,
                 batch, crashes>>

(***************************************************************************)
(* Mutant: the blocks are deleted before base is updated.                   *)
(***************************************************************************)
FlushBaseSkipped ==
  /\ writer = "flush"
  /\ SaveBlockStoreState(base, height)
  /\ writer' = "delete"
  /\ UNCHANGED <<first, db, base, height, todo, prune, crashes>>

(***************************************************************************)
(* flush: base first, in memory and in the descriptor, ...                  *)
(***************************************************************************)
FlushBase ==
  /\ writer = "flush"
  /\ base' = newBase
  /\ SaveBlockStoreState(newBase, height)
  /\ writer' = "delete"
  /\ UNCHANGED <<first, db, height, todo, prune, crashes>>

(***************************************************************************)
(* ... then the batch, whose deletions may be seen one by one, in the order *)
(* they were added to it.                                                   *)
(***************************************************************************)
FlushDelete ==
  /\ writer = "delete"
  /\ batch # <<>>
  /\ LET key == Head(batch) IN db' = [db EXCEPT ![key[2]] = @ \ {key[1]}]
  /\ batch' = Tail(batch)
  /\ UNCHANGED <<first, unsynced, base, height, descriptor, writer, todo, retain,
                 cursor, pruned, newBase, crashes>>

FlushDone ==
  /\ writer = "delete"
  /\ batch = <<>>
  /\ writer' = IF newBase = retain THEN "idle" ELSE "scan"
  /\ UNCHANGED <<first, database, base, height, todo, prune, crashes>>

-----------------------------------------------------------------------------
(***************************************************************************)
(* A crash loses a suffix of the writes since the last sync.  NewBlockStore *)
(* reads base and height from the descriptor.                               *)
(***************************************************************************)
BlockStoreCrash ==
  /\ crashes < MaxCrashes
  /\ crashes' = crashes + 1
  /\ \E n \in 0..Len(unsynced) :
       db' = [h \in AllHeights |->
                db[h] \ {unsynced[i][1] : i \in {j \in n + 1..Len(unsynced) :
                                                  unsynced[j][2] = h}}]
  /\ unsynced' = <<>>
  /\ base' = descriptor.base
  /\ height' = descriptor.height
  /\ writer' = "start"
  /\ todo' = <<>>
  /\ retain' = 0 /\ cursor' = 0 /\ pruned' = 0 /\ batch' = <<>> /\ newBase' = 0
  /\ UNCHANGED <<first, descriptor>>

BlockStoreNext ==
  \/ SaveSeenCommit
  \/ SaveBlock
  \/ SaveKey
  \/ SaveBlockDone
  \/ SaveBlockState
  \/ PruneBlocks
  \/ PruneBlock
  \/ PruneLast
  \/ FlushBase
  \/ FlushDelete
  \/ FlushDone
  \/ BlockStoreCrash

BlockStoreSpec == BlockStoreInit /\ [][BlockStoreNext]_blockStoreVars

-----------------------------------------------------------------------------
Complete(h) ==
  /\ PartKinds \cup {"meta", "hash", "seen"} \subseteq db[h]
  /\ h < height => "commit" \in db[h]

(***************************************************************************)
(* "The store can be assumed to contain all contiguous blocks between base  *)
(* and height", with the commits, for every reader at every moment and      *)
(* after every crash, base itself aside; and "the existence of meta should  *)
(* imply the existence of the block", also above height.                    *)
(***************************************************************************)
BlocksContiguous ==
  /\ \A h \in base + 1..height : Complete(h)
  /\ \A h \in AllHeights : h > base /\ "meta" \in db[h] => PartKinds \subseteq db[h]

(***************************************************************************)
(* Without a crash nothing of a pruned block stays in the database.  What   *)
(* was stored for the height before the first block is no block's.          *)
(***************************************************************************)
Reclaimed ==
  crashes = 0 /\ writer \in {"idle", "save", "saveState"}
  => \A h \in AllHeights : h < base /\ h # first - 1 => db[h] = {}
=============================================================================

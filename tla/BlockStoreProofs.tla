-------------------------- MODULE BlockStoreProofs --------------------------
(***************************************************************************)
(* The block store keeps its blocks contiguous through every crash, and     *)
(* leaves nothing behind of what it prunes, for any height, any size of the *)
(* deletion batches and any number of crashes.                              *)
(***************************************************************************)
EXTENDS BlockStore, SequenceTheorems, TLAPS

Constants == MaxHeight \in Nat /\ Firsts \subseteq 1 .. MaxHeight

Kinds == {"part1", "part2", "meta", "hash", "commit", "seen"}
Key == Kinds \X AllHeights

\* the block that is being saved, or would be next, by the descriptor
NextBlock == IF descriptor.base > 0 THEN descriptor.height + 1 ELSE first

Written(key) == key[1] \in db[key[2]]

StoreType ==
  /\ first \in 1 .. MaxHeight
  /\ db \in [AllHeights -> SUBSET Kinds]
  /\ unsynced \in Seq(Key) /\ todo \in Seq(Key) /\ batch \in Seq(Key)
  /\ base \in AllHeights /\ height \in AllHeights /\ base <= height
  /\ descriptor \in [base: AllHeights, height: AllHeights]
  /\ descriptor.base <= descriptor.height /\ (descriptor.base = 0 => descriptor.height = 0)
  /\ writer \in {"start", "idle", "save", "saveState", "scan", "flush", "delete"}
  /\ retain \in AllHeights /\ cursor \in AllHeights /\ newBase \in AllHeights
  /\ crashes \in Nat

(***************************************************************************)
(* The fields in memory agree with the descriptor, except after a block has *)
(* been announced to readers and before its descriptor is written.          *)
(***************************************************************************)
Agrees ==
  /\ writer # "saveState" => base = descriptor.base /\ height = descriptor.height
  /\ writer = "saveState" => /\ height = NextBlock
                             /\ base = IF descriptor.base > 0 THEN descriptor.base ELSE first

(***************************************************************************)
(* SaveBlock has written the keys before those it has still to write.       *)
(***************************************************************************)
Saved(k) ==
  /\ Len(todo) = 6 - k
  /\ \A i \in 1 .. 6 - k : todo[i] = Writes(NextBlock)[k + i]
  /\ \A i \in 1 .. k : Written(Writes(NextBlock)[i])

Saving == writer = "save" => NextBlock <= MaxHeight /\ \E k \in 0 .. 6 : Saved(k)

(***************************************************************************)
(* What a crash can lose belongs to the next block, to the commit for the   *)
(* last one or to the height before the first; and if it loses a part of a  *)
(* block it loses the block's meta too.                                     *)
(***************************************************************************)
Losable(key) ==
  \/ key[2] = NextBlock
  \/ key[1] = "commit" /\ key[2] = NextBlock - 1
  \/ key[1] = "seen" /\ key[2] = first - 1 /\ descriptor.base = 0

Unsynced ==
  /\ \A i \in DOMAIN unsynced : Losable(unsynced[i])
  /\ \A i \in DOMAIN unsynced :
       unsynced[i][1] \in PartKinds /\ "meta" \in db[unsynced[i][2]]
         => \E j \in DOMAIN unsynced : j > i /\ unsynced[j] = <<"meta", unsynced[i][2]>>

(***************************************************************************)
(* Pruning deletes blocks up to the new base, with nothing unsynced.        *)
(***************************************************************************)
Pruning ==
  /\ writer \in {"scan", "flush", "delete"} =>
       /\ cursor <= retain /\ retain <= height
       /\ 0 < descriptor.base /\ descriptor.base <= cursor
       /\ \A i \in DOMAIN batch : batch[i][2] < cursor
  /\ writer = "flush" => /\ newBase <= cursor /\ descriptor.base <= newBase
                         /\ \A i \in DOMAIN batch : batch[i][2] <= newBase
  /\ writer = "delete" => /\ unsynced = <<>> /\ base = newBase
                          /\ \A i \in DOMAIN batch : batch[i][2] <= base

(***************************************************************************)
(* The blocks, as the descriptor tells them.                                *)
(***************************************************************************)
PartsBeforeMeta ==
  \A h \in AllHeights : h > descriptor.base /\ "meta" \in db[h] => PartKinds \subseteq db[h]

StoreInv ==
  StoreType /\ Agrees /\ Saving /\ Unsynced /\ Pruning /\ PartsBeforeMeta
    /\ \A h \in base + 1 .. height : Complete(h)

-----------------------------------------------------------------------------
(***************************************************************************)
(* The keys of a block: what they belong to, and that meta comes after the  *)
(* parts.                                                                   *)
(***************************************************************************)
LEMMA WritesOrder ==
  ASSUME NEW h \in 1 .. MaxHeight, MaxHeight \in Nat
  PROVE  /\ \A i \in 1 .. 6 : Writes(h)[i] \in Key
         /\ \A i \in 1 .. 6 : Writes(h)[i][2] = h \/ Writes(h)[i] = <<"commit", h - 1>>
         /\ \A i \in 1 .. 6 : Writes(h)[i][1] = "meta" => i = 3
         /\ Len(Writes(h)) = 6 /\ Writes(h) \in Seq(Key)
         /\ Writes(h)[1] = <<"part1", h>> /\ Writes(h)[2] = <<"part2", h>>
         /\ Writes(h)[3] = <<"meta", h>> /\ Writes(h)[4] = <<"hash", h>>
         /\ Writes(h)[5] = <<"commit", h - 1>> /\ Writes(h)[6] = <<"seen", h>>
<1>1. h \in AllHeights /\ h - 1 \in AllHeights
  BY DEF AllHeights
<1>2. /\ <<"part1", h>> \in Key /\ <<"part2", h>> \in Key /\ <<"meta", h>> \in Key
      /\ <<"hash", h>> \in Key /\ <<"commit", h - 1>> \in Key /\ <<"seen", h>> \in Key
  BY <1>1 DEF Key, Kinds
<1>3. Writes(h) \in Seq(Key) /\ Len(Writes(h)) = 6
  BY <1>2 DEF Writes
<1>4. /\ Writes(h)[1] = <<"part1", h>> /\ Writes(h)[2] = <<"part2", h>>
      /\ Writes(h)[3] = <<"meta", h>> /\ Writes(h)[4] = <<"hash", h>>
      /\ Writes(h)[5] = <<"commit", h - 1>> /\ Writes(h)[6] = <<"seen", h>>
  BY DEF Writes
<1>5. \A i \in 1 .. 6 : i = 1 \/ i = 2 \/ i = 3 \/ i = 4 \/ i = 5 \/ i = 6
  OBVIOUS
<1>6. \A i \in 1 .. 6 : Writes(h)[i] \in Key
  BY <1>2, <1>4, <1>5
<1>7. \A i \in 1 .. 6 : Writes(h)[i][2] = h \/ Writes(h)[i] = <<"commit", h - 1>>
  BY <1>4, <1>5
<1>8. \A i \in 1 .. 6 : Writes(h)[i][1] = "meta" => i = 3
  <2> TAKE i \in 1 .. 6
  <2>1. /\ Writes(h)[1][1] = "part1" /\ Writes(h)[2][1] = "part2" /\ Writes(h)[4][1] = "hash"
        /\ Writes(h)[5][1] = "commit" /\ Writes(h)[6][1] = "seen"
    BY <1>4
  <2> QED
    BY <1>5, <2>1
<1> QED
  BY <1>3, <1>4, <1>6, <1>7, <1>8

(***************************************************************************)
(* db.Set of a key that may be lost, of a meta after its parts: what is     *)
(* unsynced stays in order.                                                 *)
(***************************************************************************)
LEMMA SetKeeps ==
  ASSUME StoreInv, NEW key \in Key, Set(key), Losable(key),
         key[1] = "meta" => PartKinds \subseteq db[key[2]],
         key[1] \in PartKinds => key[2] > descriptor.base,
         UNCHANGED <<first, descriptor>>
  PROVE  /\ db' \in [AllHeights -> SUBSET Kinds] /\ unsynced' \in Seq(Key)
         /\ \A h \in AllHeights : db[h] \subseteq db'[h]
         /\ key[1] \in db'[key[2]]
         /\ Unsynced' /\ PartsBeforeMeta'
<1>1. /\ key[1] \in Kinds /\ key[2] \in AllHeights
      /\ db \in [AllHeights -> SUBSET Kinds] /\ unsynced \in Seq(Key)
      /\ key = <<key[1], key[2]>>
  BY DEF StoreInv, StoreType, Key
<1>2. /\ db' \in [AllHeights -> SUBSET Kinds]
      /\ \A h \in AllHeights : db'[h] = IF h = key[2] THEN db[h] \cup {key[1]} ELSE db[h]
  BY <1>1 DEF Set
<1>3. unsynced' = IF key[1] \in db[key[2]] THEN unsynced ELSE Append(unsynced, key)
  BY DEF Set
<1>4. /\ unsynced' \in Seq(Key)
      /\ \A i \in DOMAIN unsynced : i \in DOMAIN unsynced' /\ unsynced'[i] = unsynced[i]
  BY <1>1, <1>3, AppendProperties, LenProperties
<1>5. ASSUME NEW i \in DOMAIN unsynced', i \notin DOMAIN unsynced
      PROVE  unsynced'[i] = key /\ key[1] \notin db[key[2]] /\ i = Len(unsynced) + 1
  BY <1>1, <1>3, <1>5, AppendProperties, LenProperties
<1>6. key[1] \in db'[key[2]]
  BY <1>1, <1>2
<1>7. PartsBeforeMeta'
  BY <1>1, <1>2 DEF StoreInv, PartsBeforeMeta, PartKinds
<1>8. \A k : Losable(k)' <=> Losable(k)
  BY DEF Losable, NextBlock
<1>9. \A i \in DOMAIN unsynced' : Losable(unsynced'[i])
  BY <1>4, <1>5 DEF StoreInv, Unsynced
<1>10. ASSUME NEW i \in DOMAIN unsynced', unsynced'[i][1] \in PartKinds,
              "meta" \in db'[unsynced'[i][2]]
       PROVE  \E j \in DOMAIN unsynced' : j > i /\ unsynced'[j] = <<"meta", unsynced'[i][2]>>
  <2>1. CASE i \notin DOMAIN unsynced
    <3>1. unsynced'[i] = key /\ key[1] \notin db[key[2]]
      BY <1>5, <2>1
    <3>2. key[1] \in PartKinds /\ key[2] > descriptor.base /\ key[1] # "meta"
      BY <1>10, <3>1 DEF PartKinds
    <3>3. "meta" \in db[key[2]]
      BY <1>1, <1>2, <1>10, <3>1, <3>2
    <3> QED
      BY <1>1, <3>1, <3>2, <3>3 DEF StoreInv, PartsBeforeMeta
  <2>2. CASE i \in DOMAIN unsynced
    <3>1. unsynced'[i] = unsynced[i] /\ unsynced[i][2] \in AllHeights
      BY <1>1, <1>4, <2>2, ElementOfSeq, LenProperties DEF Key
    <3>2. CASE "meta" \in db[unsynced[i][2]]
      <4>1. PICK j \in DOMAIN unsynced : j > i /\ unsynced[j] = <<"meta", unsynced[i][2]>>
        BY <1>10, <2>2, <3>1, <3>2 DEF StoreInv, Unsynced
      <4> QED
        BY <1>4, <3>1, <4>1
    <3>3. CASE "meta" \notin db[unsynced[i][2]]
      <4>1. key = <<"meta", unsynced[i][2]>> /\ key[1] \notin db[key[2]]
        BY <1>1, <1>2, <1>10, <3>1, <3>3
      <4>2. unsynced' = Append(unsynced, key)
        BY <1>3, <4>1
      <4>3. /\ Len(unsynced) + 1 \in DOMAIN unsynced' /\ Len(unsynced) + 1 > i
            /\ unsynced'[Len(unsynced) + 1] = key
        BY <1>1, <2>2, <4>2, AppendProperties, LenProperties
      <4> QED
        BY <3>1, <4>1, <4>3
    <3> QED
      BY <3>2, <3>3
  <2> QED
    BY <2>1, <2>2
<1>11. Unsynced'
  BY <1>8, <1>9, <1>10 DEF Unsynced
<1> QED
  BY <1>2, <1>4, <1>6, <1>7, <1>11

-----------------------------------------------------------------------------
(***************************************************************************)
(* The next block is above every block of the store.                        *)
(***************************************************************************)
LEMMA NextBlockAbove ==
  ASSUME Constants, StoreInv
  PROVE  /\ NextBlock \in Int /\ NextBlock >= 1
         /\ NextBlock > descriptor.base /\ NextBlock > descriptor.height
         /\ descriptor.base > 0 => NextBlock = descriptor.height + 1
         /\ descriptor.base \in AllHeights /\ descriptor.height \in AllHeights
         /\ descriptor.base <= descriptor.height
  BY DEF Constants, StoreInv, StoreType, NextBlock, AllHeights

LEMMA BlocksInRange ==
  ASSUME Constants, StoreInv, NEW h \in base + 1 .. height
  PROVE  h \in AllHeights /\ h > base /\ h <= height
  BY DEF Constants, StoreInv, StoreType, AllHeights

(***************************************************************************)
(* SaveSeenCommit, SaveBlock and its writes.                                *)
(***************************************************************************)
LEMMA SaveSeenCommitKeeps ==
  ASSUME Constants, StoreInv, SaveSeenCommit
  PROVE  StoreInv'
<1>1. /\ writer = "start" /\ writer' = "idle"
      /\ UNCHANGED <<first, base, height, descriptor, todo, prune, crashes>>
  BY DEF SaveSeenCommit
<1>2. NextBlock' = NextBlock /\ base = descriptor.base /\ height = descriptor.height
  BY <1>1 DEF NextBlock, StoreInv, Agrees
<1>3. /\ db' \in [AllHeights -> SUBSET Kinds] /\ unsynced' \in Seq(Key)
      /\ \A h \in AllHeights : db[h] \subseteq db'[h]
      /\ Unsynced' /\ PartsBeforeMeta'
  <2>1. CASE first > 1 /\ height = 0
    <3> DEFINE key == <<"seen", first - 1>>
    <3>1. key \in Key
      BY <2>1 DEF StoreInv, StoreType, Constants, Key, Kinds, AllHeights
    <3>2. Losable(key)
      BY <1>2, <2>1, NextBlockAbove DEF Losable, AllHeights
    <3>3. Set(key)
      BY <2>1 DEF SaveSeenCommit
    <3>4. key[1] # "meta" /\ key[1] \notin PartKinds
      BY DEF PartKinds
    <3> HIDE DEF key
    <3> QED
      BY <1>1, <3>1, <3>2, <3>3, <3>4, SetKeeps
  <2>2. CASE ~ (first > 1 /\ height = 0)
    BY <1>1, <2>2 DEF SaveSeenCommit, StoreInv, StoreType, Unsynced, Losable, NextBlock, PartsBeforeMeta
  <2> QED
    BY <2>1, <2>2
<1>4. \A h \in base + 1 .. height : h \in AllHeights
  BY BlocksInRange
<1>5. \A h \in base' + 1 .. height' : Complete(h)'
  BY <1>1, <1>3, <1>4 DEF StoreInv, Complete
<1> QED
  BY <1>1, <1>2, <1>3, <1>5 DEF StoreInv, StoreType, Agrees, Saving, Pruning, prune

LEMMA SaveBlockKeeps ==
  ASSUME Constants, StoreInv, SaveBlock
  PROVE  StoreInv'
<1>1. /\ writer = "idle" /\ writer' = "save" /\ todo' = Writes(NextBlock) /\ NextBlock <= MaxHeight
      /\ UNCHANGED <<first, db, unsynced, descriptor, base, height, retain, cursor, pruned,
                     batch, newBase, crashes>>
  BY DEF SaveBlock, StoreInv, Agrees, NextBlock, database, prune
<1>2. NextBlock' = NextBlock /\ NextBlock \in 1 .. MaxHeight
  BY <1>1, NextBlockAbove DEF NextBlock, Constants
<1>3. todo' \in Seq(Key) /\ Len(todo') = 6
  BY <1>1, <1>2, WritesOrder DEF Constants
<1>4. Saved(0)'
  BY <1>1, <1>2, <1>3 DEF Saved
<1>5. Saving'
  BY <1>1, <1>2, <1>4 DEF Saving
<1>6. StoreType' /\ Agrees' /\ Pruning'
  BY <1>1, <1>2, <1>3 DEF StoreInv, StoreType, Agrees, Pruning
<1>7. Unsynced' /\ PartsBeforeMeta' /\ \A h \in base' + 1 .. height' : Complete(h)'
  BY <1>1, <1>2 DEF StoreInv, Unsynced, Losable, PartsBeforeMeta, Complete
<1> QED
  BY <1>5, <1>6, <1>7 DEF StoreInv

LEMMA SaveKeyKeeps ==
  ASSUME Constants, StoreInv, SaveKey
  PROVE  StoreInv'
<1> DEFINE N == NextBlock
<1>1. /\ writer = "save" /\ todo # <<>> /\ Set(Head(todo)) /\ todo' = Tail(todo)
      /\ UNCHANGED <<first, base, height, descriptor, writer, retain, cursor, pruned, batch,
                     newBase, crashes>>
  BY DEF SaveKey, prune
<1>2. N' = N /\ N \in 1 .. MaxHeight /\ base = descriptor.base /\ height = descriptor.height
  BY <1>1, NextBlockAbove DEF NextBlock, StoreInv, Saving, Agrees, Constants
<1>3. PICK k \in 0 .. 6 : Saved(k)
  BY <1>1 DEF StoreInv, Saving
<1>4. todo \in Seq(Key)
  BY DEF StoreInv, StoreType
<1>5. k < 6 /\ Head(todo) = Writes(N)[k + 1]
  <2>1. Len(todo) # 0
    BY <1>1, <1>4, EmptySeq
  <2> QED
    BY <1>3, <1>4, <2>1, HeadTailProperties DEF Saved
<1>6. /\ todo' \in Seq(Key) /\ Len(todo') = 6 - (k + 1)
      /\ \A i \in 1 .. 6 - (k + 1) : todo'[i] = Writes(N)[k + 1 + i]
  <2>1. /\ Tail(todo) \in Seq(Key) /\ Len(Tail(todo)) = Len(todo) - 1
        /\ \A i \in 1 .. Len(Tail(todo)) : Tail(todo)[i] = todo[i + 1]
    BY <1>1, <1>4, HeadTailProperties
  <2>2. Len(todo) = 6 - k
    BY <1>3 DEF Saved
  <2>3. ASSUME NEW i \in 1 .. 6 - (k + 1) PROVE Tail(todo)[i] = Writes(N)[k + 1 + i]
    <3>1. i \in 1 .. Len(Tail(todo)) /\ i + 1 \in 1 .. 6 - k /\ k + (i + 1) = k + 1 + i
      BY <2>1, <2>2
    <3> QED
      BY <1>3, <2>1, <3>1 DEF Saved
  <2> QED
    BY <1>1, <2>1, <2>2, <2>3
<1> DEFINE key == Writes(N)[k + 1]
<1>7. k + 1 \in 1 .. 6
  BY <1>5
<1>8. key \in Key /\ (key[2] = N \/ key = <<"commit", N - 1>>) /\ (key[1] = "meta" => k = 2)
  BY <1>2, <1>7, WritesOrder DEF Constants
<1>9. Losable(key)
  BY <1>8 DEF Losable
<1>10. key[1] = "meta" => PartKinds \subseteq db[key[2]]
  <2> SUFFICES ASSUME key[1] = "meta" PROVE PartKinds \subseteq db[key[2]]
    OBVIOUS
  <2>1. key[2] = N /\ k = 2
    BY <1>8
  <2>2. Written(<<"part1", N>>) /\ Written(<<"part2", N>>)
    <3>1. Written(Writes(N)[1]) /\ Written(Writes(N)[2])
      BY <1>3, <2>1 DEF Saved
    <3> QED
      BY <1>2, <3>1, WritesOrder DEF Constants
  <2> QED
    BY <2>1, <2>2 DEF Written, PartKinds
<1>11. key[1] \in PartKinds => key[2] > descriptor.base
  BY <1>8, NextBlockAbove DEF PartKinds
<1> HIDE DEF key, N
<1>12. /\ db' \in [AllHeights -> SUBSET Kinds] /\ unsynced' \in Seq(Key)
       /\ \A h \in AllHeights : db[h] \subseteq db'[h]
       /\ key[1] \in db'[key[2]] /\ Unsynced' /\ PartsBeforeMeta'
  <2>1. Set(key)
    BY <1>1, <1>5 DEF key
  <2> QED
    BY <1>1, <1>8, <1>9, <1>10, <1>11, <2>1, SetKeeps
<1>13. Saved(k + 1)'
  <2>1. \A i \in 1 .. k : Written(Writes(N)[i])'
    <3> TAKE i \in 1 .. k
    <3>1. i \in 1 .. 6 /\ Writes(N)[i] \in Key
      BY <1>2, <1>5, WritesOrder DEF Constants
    <3>2. Written(Writes(N)[i]) /\ Writes(N)[i][2] \in AllHeights
      BY <1>3, <3>1 DEF Saved, Key, N
    <3> QED
      BY <1>2, <1>12, <3>2 DEF Written
  <2>2. \A i \in 1 .. k + 1 : Written(Writes(N)[i])'
    <3>1. Written(Writes(N)[k + 1])'
      BY <1>2, <1>12 DEF key, Written
    <3> QED
      BY <1>3, <2>1, <3>1
  <2> QED
    BY <1>2, <1>6, <2>2 DEF Saved, N
<1>14. Saving'
  BY <1>1, <1>2, <1>7, <1>13 DEF Saving, N
<1>15. \A h \in base' + 1 .. height' : Complete(h)'
  <2>1. \A h \in base + 1 .. height : h \in AllHeights
    BY BlocksInRange
  <2> QED
    BY <1>1, <1>12, <2>1 DEF StoreInv, Complete
<1>16. Agrees' /\ Pruning'
  BY <1>1, <1>2 DEF StoreInv, Agrees, Pruning
<1>17. StoreType'
  BY <1>1, <1>6, <1>12 DEF StoreInv, StoreType
<1> QED
  BY <1>12, <1>14, <1>15, <1>16, <1>17 DEF StoreInv

(***************************************************************************)
(* The block is announced: all of its keys are there, and the commit for    *)
(* the one before it.                                                       *)
(***************************************************************************)
LEMMA SaveBlockDoneKeeps ==
  ASSUME Constants, StoreInv, SaveBlockDone
  PROVE  StoreInv'
<1>1. /\ writer = "save" /\ todo = <<>> /\ writer' = "saveState"
      /\ UNCHANGED <<first, db, unsynced, descriptor, todo, retain, cursor, pruned, batch,
                     newBase, crashes>>
  BY DEF SaveBlockDone, database, prune
<1>2. base = descriptor.base /\ height = descriptor.height
  BY <1>1 DEF StoreInv, Agrees
<1>3. height' = NextBlock /\ base' = IF descriptor.base > 0 THEN descriptor.base ELSE first
  <2>1. descriptor.base \in Nat
    BY DEF StoreInv, StoreType, AllHeights
  <2> QED
    BY <1>2, <2>1 DEF SaveBlockDone, NextBlock
<1>4. NextBlock' = NextBlock /\ NextBlock \in 1 .. MaxHeight
  BY <1>1, NextBlockAbove DEF NextBlock, StoreInv, Saving, Constants
<1>5. \A i \in 1 .. 6 : Written(Writes(NextBlock)[i])
  <2>1. PICK k \in 0 .. 6 : Saved(k)
    BY <1>1 DEF StoreInv, Saving
  <2>2. k = 6
    BY <1>1, <2>1, EmptySeq DEF Saved
  <2> QED
    BY <2>1, <2>2 DEF Saved
<1>6. /\ {"part1", "part2", "meta", "hash", "seen"} \subseteq db[NextBlock]
      /\ "commit" \in db[NextBlock - 1]
  <2>1. /\ Written(<<"part1", NextBlock>>) /\ Written(<<"part2", NextBlock>>)
        /\ Written(<<"meta", NextBlock>>) /\ Written(<<"hash", NextBlock>>)
        /\ Written(<<"commit", NextBlock - 1>>) /\ Written(<<"seen", NextBlock>>)
    <3>1. /\ Written(Writes(NextBlock)[1]) /\ Written(Writes(NextBlock)[2])
          /\ Written(Writes(NextBlock)[3]) /\ Written(Writes(NextBlock)[4])
          /\ Written(Writes(NextBlock)[5]) /\ Written(Writes(NextBlock)[6])
      BY <1>5
    <3> QED
      BY <1>4, <3>1, WritesOrder DEF Constants
  <2> QED
    BY <2>1 DEF Written
<1>7. ASSUME NEW h \in base' + 1 .. height'
      PROVE  Complete(h)'
  <2>1. h \in Int /\ base' < h /\ h <= NextBlock /\ descriptor.base > 0 /\ NextBlock = height + 1
    BY <1>2, <1>3, <1>4, NextBlockAbove DEF StoreInv, StoreType, NextBlock, AllHeights
  <2>2. CASE h = NextBlock
    BY <1>1, <1>3, <1>6, <2>2 DEF Complete, PartKinds
  <2>3. CASE h # NextBlock
    <3>1. h \in base + 1 .. height /\ h <= height
      BY <1>2, <1>3, <2>1, <2>3 DEF StoreInv, StoreType, AllHeights
    <3>2. Complete(h)
      BY <3>1 DEF StoreInv
    <3>3. h < height \/ h = NextBlock - 1
      BY <2>1, <3>1 DEF StoreInv, StoreType, AllHeights
    <3> QED
      BY <1>1, <1>6, <3>2, <3>3 DEF Complete
  <2> QED
    BY <2>2, <2>3
<1>8. StoreType'
  <2>1. base' \in AllHeights /\ height' \in AllHeights /\ base' <= height'
    BY <1>3, <1>4, NextBlockAbove DEF StoreInv, StoreType, AllHeights, NextBlock, Constants
  <2> QED
    BY <1>1, <2>1 DEF StoreInv, StoreType
<1>9. Agrees' /\ Saving' /\ Pruning'
  BY <1>1, <1>3, <1>4 DEF Agrees, Saving, Pruning
<1>10. Unsynced' /\ PartsBeforeMeta'
  BY <1>1, <1>4 DEF StoreInv, Unsynced, Losable, PartsBeforeMeta
<1> QED
  BY <1>7, <1>8, <1>9, <1>10 DEF StoreInv

(***************************************************************************)
(* The descriptor catches up, and nothing is unsynced.                      *)
(***************************************************************************)
LEMMA SaveBlockStateKeeps ==
  ASSUME Constants, StoreInv, SaveBlockState
  PROVE  StoreInv'
<1>1. /\ writer = "saveState" /\ writer' = "idle"
      /\ descriptor' = [base |-> base, height |-> height] /\ unsynced' = <<>>
      /\ UNCHANGED <<first, db, base, height, todo, retain, cursor, pruned, batch, newBase,
                     crashes>>
  BY DEF SaveBlockState, SaveBlockStoreState, prune
<1>2. descriptor'.base = base /\ descriptor'.height = height
  BY <1>1
<1>3. base \in AllHeights /\ height \in AllHeights /\ base <= height /\ 0 < base
      /\ descriptor.base <= base
  BY <1>1 DEF StoreInv, StoreType, Agrees, AllHeights
<1>4. StoreType'
  <2>1. descriptor' \in [base: AllHeights, height: AllHeights]
    BY <1>1, <1>3
  <2>2. unsynced' \in Seq(Key)
    BY <1>1, EmptySeq
  <2>3. base # 0
    BY <1>3 DEF AllHeights
  <2> QED
    BY <1>1, <1>2, <1>3, <2>1, <2>2, <2>3 DEF StoreInv, StoreType
<1>5. Agrees' /\ Saving' /\ Pruning'
  BY <1>1, <1>2 DEF Agrees, Saving, Pruning
<1>6. Unsynced'
  BY <1>1, EmptySeq DEF Unsynced
<1>7. PartsBeforeMeta'
  <2>1. \A h \in AllHeights : h > base => h > descriptor.base
    BY <1>3 DEF StoreInv, StoreType, AllHeights
  <2> QED
    BY <1>1, <1>2, <2>1 DEF StoreInv, PartsBeforeMeta
<1>8. \A h \in base' + 1 .. height' : Complete(h)'
  BY <1>1 DEF StoreInv, Complete
<1> QED
  BY <1>4, <1>5, <1>6, <1>7, <1>8 DEF StoreInv

-----------------------------------------------------------------------------
(***************************************************************************)
(* PruneBlocks: the scan collects deletions below its cursor.               *)
(***************************************************************************)
LEMMA PruneBlocksKeeps ==
  ASSUME Constants, StoreInv, PruneBlocks
  PROVE  StoreInv'
<1>1. /\ writer = "idle" /\ writer' = "scan" /\ cursor' = base /\ batch' = <<>> /\ newBase' = 0
      /\ UNCHANGED <<first, db, unsynced, descriptor, base, height, todo, crashes>>
  BY DEF PruneBlocks, database
<1>2. PICK h \in 1 .. height : h >= base /\ retain' = h
  BY DEF PruneBlocks
<1>3. base = descriptor.base /\ height = descriptor.height
  BY <1>1 DEF StoreInv, Agrees
<1>4. retain' \in AllHeights /\ cursor' \in AllHeights /\ newBase' \in AllHeights
  BY <1>1, <1>2 DEF StoreInv, StoreType, AllHeights, Constants
<1>5. cursor' <= retain' /\ retain' <= height /\ 0 < descriptor.base
  BY <1>1, <1>2, <1>3 DEF StoreInv, StoreType, AllHeights
<1>6. StoreType'
  BY <1>1, <1>4, EmptySeq DEF StoreInv, StoreType
<1>7. Pruning'
  BY <1>1, <1>3, <1>5, EmptySeq DEF Pruning, StoreInv, StoreType, AllHeights
<1>8. Agrees' /\ Saving' /\ Unsynced' /\ PartsBeforeMeta' /\ \A g \in base' + 1 .. height' : Complete(g)'
  BY <1>1 DEF StoreInv, Agrees, NextBlock, Saving, Unsynced, Losable, PartsBeforeMeta, Complete
<1> QED
  BY <1>6, <1>7, <1>8 DEF StoreInv

LEMMA DeletesBelow ==
  ASSUME NEW h \in AllHeights
  PROVE  /\ Deletes(h) \in Seq(Key) /\ Len(Deletes(h)) = 6
         /\ \A i \in 1 .. 6 : Deletes(h)[i][2] = h
         /\ \A k \in Kinds : \E i \in 1 .. 6 : Deletes(h)[i] = <<k, h>>
<1>1. /\ <<"meta", h>> \in Key /\ <<"hash", h>> \in Key /\ <<"commit", h>> \in Key
      /\ <<"seen", h>> \in Key /\ <<"part1", h>> \in Key /\ <<"part2", h>> \in Key
  BY DEF Key, Kinds
<1>2. Deletes(h) \in Seq(Key) /\ Len(Deletes(h)) = 6
  BY <1>1 DEF Deletes
<1>3. /\ Deletes(h)[1] = <<"meta", h>> /\ Deletes(h)[2] = <<"hash", h>>
      /\ Deletes(h)[3] = <<"commit", h>> /\ Deletes(h)[4] = <<"seen", h>>
      /\ Deletes(h)[5] = <<"part1", h>> /\ Deletes(h)[6] = <<"part2", h>>
  BY DEF Deletes
<1>4. \A i \in 1 .. 6 : i = 1 \/ i = 2 \/ i = 3 \/ i = 4 \/ i = 5 \/ i = 6
  OBVIOUS
<1>5. \A i \in 1 .. 6 : Deletes(h)[i][2] = h
  BY <1>3, <1>4
<1>6. \A k \in Kinds : \E i \in 1 .. 6 : Deletes(h)[i] = <<k, h>>
  BY <1>3 DEF Kinds
<1> QED
  BY <1>2, <1>5, <1>6

LEMMA BatchGrows ==
  ASSUME NEW h \in AllHeights, batch \in Seq(Key), batch' = batch \o Deletes(h)
  PROVE  /\ batch' \in Seq(Key)
         /\ \A i \in DOMAIN batch' : (\E j \in DOMAIN batch : batch'[i] = batch[j]) \/ batch'[i][2] = h
         /\ \A i \in DOMAIN batch : i \in DOMAIN batch' /\ batch'[i] = batch[i]
         /\ \A k \in Kinds : \E i \in DOMAIN batch' : batch'[i] = <<k, h>>
<1> DEFINE d == Deletes(h)
<1>1. /\ d \in Seq(Key) /\ Len(d) = 6 /\ \A i \in 1 .. 6 : d[i][2] = h
      /\ \A k \in Kinds : \E i \in 1 .. 6 : d[i] = <<k, h>>
  BY DeletesBelow
<1> HIDE DEF d
<1>2. /\ batch' \in Seq(Key) /\ Len(batch') = Len(batch) + 6 /\ Len(batch) \in Nat
      /\ \A i \in 1 .. Len(batch) + 6 :
           batch'[i] = IF i <= Len(batch) THEN batch[i] ELSE d[i - Len(batch)]
  <2>1. batch' = batch \o d /\ Len(batch) \in Nat
    BY LenProperties DEF d
  <2>2. /\ batch \o d \in Seq(Key) /\ Len(batch \o d) = Len(batch) + Len(d)
        /\ \A i \in 1 .. Len(batch) + Len(d) :
             (batch \o d)[i] = IF i <= Len(batch) THEN batch[i] ELSE d[i - Len(batch)]
    BY <1>1, ConcatProperties
  <2> QED
    BY <1>1, <2>1, <2>2
<1>3. DOMAIN batch = 1 .. Len(batch) /\ DOMAIN batch' = 1 .. Len(batch) + 6
  BY <1>2, LenProperties
<1>4. \A i \in DOMAIN batch' : (\E j \in DOMAIN batch : batch'[i] = batch[j]) \/ batch'[i][2] = h
  <2> SUFFICES ASSUME NEW i \in 1 .. Len(batch) + 6, i \notin 1 .. Len(batch)
               PROVE  batch'[i][2] = h
    BY <1>2, <1>3
  <2>1. i - Len(batch) \in 1 .. 6 /\ ~ (i <= Len(batch))
    BY <1>2
  <2> QED
    BY <1>1, <1>2, <2>1
<1>5. \A k \in Kinds : \E i \in DOMAIN batch' : batch'[i] = <<k, h>>
  <2> TAKE k \in Kinds
  <2>1. PICK i \in 1 .. 6 : d[i] = <<k, h>>
    BY <1>1
  <2>2. /\ Len(batch) + i \in 1 .. Len(batch) + 6 /\ ~ (Len(batch) + i <= Len(batch))
        /\ (Len(batch) + i) - Len(batch) = i
    BY <1>2
  <2> QED
    BY <1>2, <1>3, <2>1, <2>2
<1>6. \A i \in DOMAIN batch : i \in DOMAIN batch' /\ batch'[i] = batch[i]
  BY <1>2, <1>3
<1> QED
  BY <1>2, <1>4, <1>5, <1>6

LEMMA PruneBlockKeeps ==
  ASSUME Constants, StoreInv, PruneBlock
  PROVE  StoreInv'
<1>1. /\ writer = "scan" /\ cursor < retain /\ cursor' = cursor + 1
      /\ writer' \in {"scan", "flush"}
      /\ writer' = "flush" => newBase' = cursor
      /\ newBase' = newBase \/ newBase' = cursor
      /\ batch' = batch \/ batch' = batch \o Deletes(cursor)
      /\ UNCHANGED <<first, db, unsynced, descriptor, base, height, todo, retain, crashes>>
  BY DEF PruneBlock, database
<1>2. cursor \in AllHeights /\ retain \in AllHeights /\ batch \in Seq(Key)
  BY DEF StoreInv, StoreType
<1>3. /\ cursor' \in AllHeights /\ newBase' \in AllHeights /\ cursor' <= retain
      /\ descriptor.base <= cursor /\ 0 < descriptor.base /\ retain <= height
  BY <1>1, <1>2 DEF StoreInv, StoreType, Pruning, AllHeights, Constants
<1>4. /\ batch' \in Seq(Key)
      /\ \A i \in DOMAIN batch' : (\E j \in DOMAIN batch : batch'[i] = batch[j])
                                   \/ batch'[i][2] = cursor
  BY <1>1, <1>2, BatchGrows
<1>5. \A i \in DOMAIN batch' : batch'[i][2] <= cursor
  <2> TAKE i \in DOMAIN batch'
  <2>1. CASE batch'[i][2] = cursor
    BY <1>2, <2>1 DEF AllHeights
  <2>2. CASE \E j \in DOMAIN batch : batch'[i] = batch[j]
    <3>1. PICK j \in DOMAIN batch : batch'[i] = batch[j]
      BY <2>2
    <3>2. batch[j][2] < cursor /\ batch[j] \in Key
      BY <1>1, <1>2, LenProperties, ElementOfSeq DEF StoreInv, Pruning
    <3>3. batch[j][2] \in Int
      BY <3>2 DEF Key, AllHeights
    <3> QED
      BY <1>2, <3>1, <3>2, <3>3 DEF AllHeights
  <2> QED
    BY <1>4, <2>1, <2>2
<1>6. \A i \in DOMAIN batch' : batch'[i][2] < cursor'
  <2> TAKE i \in DOMAIN batch'
  <2>1. batch'[i] \in Key /\ batch'[i][2] <= cursor
    BY <1>4, <1>5, LenProperties, ElementOfSeq
  <2>2. batch'[i][2] \in Int
    BY <2>1 DEF Key, AllHeights
  <2> QED
    BY <1>1, <1>2, <2>1, <2>2 DEF AllHeights
<1>7. Pruning'
  <2>1. descriptor.base \in Int /\ cursor \in Int
    BY <1>2 DEF StoreInv, StoreType, AllHeights
  <2>2. descriptor.base <= cursor' /\ cursor <= cursor'
    BY <1>1, <1>3, <2>1
  <2> QED
    BY <1>1, <1>3, <1>5, <1>6, <2>2 DEF Pruning
<1>8. StoreType'
  BY <1>1, <1>3, <1>4 DEF StoreInv, StoreType
<1>9. Agrees' /\ Saving' /\ Unsynced' /\ PartsBeforeMeta' /\ \A h \in base' + 1 .. height' : Complete(h)'
  BY <1>1 DEF StoreInv, Agrees, NextBlock, Saving, Unsynced, Losable, PartsBeforeMeta, Complete
<1> QED
  BY <1>7, <1>8, <1>9 DEF StoreInv

LEMMA PruneLastKeeps ==
  ASSUME Constants, StoreInv, PruneLast
  PROVE  StoreInv'
<1>1. /\ writer = "scan" /\ cursor = retain /\ newBase' = retain /\ writer' = "flush"
      /\ UNCHANGED <<first, db, unsynced, descriptor, base, height, todo, retain, cursor, batch,
                     crashes>>
  BY DEF PruneLast, database
<1>2. StoreType'
  BY <1>1 DEF StoreInv, StoreType
<1>3. Pruning'
  <2>1. \A i \in DOMAIN batch : batch[i][2] <= cursor
    <3> TAKE i \in DOMAIN batch
    <3>1. batch[i][2] < cursor /\ batch[i] \in Key
      BY <1>1, LenProperties, ElementOfSeq DEF StoreInv, StoreType, Pruning
    <3> QED
      BY <3>1 DEF Key, AllHeights, StoreInv, StoreType
  <2>2. cursor <= cursor
    BY DEF StoreInv, StoreType, AllHeights
  <2> QED
    BY <1>1, <2>1, <2>2 DEF StoreInv, Pruning
<1>4. Agrees' /\ Saving' /\ Unsynced' /\ PartsBeforeMeta' /\ \A h \in base' + 1 .. height' : Complete(h)'
  BY <1>1 DEF StoreInv, Agrees, NextBlock, Saving, Unsynced, Losable, PartsBeforeMeta, Complete
<1> QED
  BY <1>2, <1>3, <1>4 DEF StoreInv

(***************************************************************************)
(* flush: the base rises first, then the blocks below it go.                *)
(***************************************************************************)
LEMMA FlushBaseKeeps ==
  ASSUME Constants, StoreInv, FlushBase
  PROVE  StoreInv'
<1>1. /\ writer = "flush" /\ writer' = "delete" /\ base' = newBase /\ unsynced' = <<>>
      /\ descriptor' = [base |-> newBase, height |-> height]
      /\ UNCHANGED <<first, db, height, todo, retain, cursor, batch, newBase, crashes>>
  BY DEF FlushBase, SaveBlockStoreState, prune
<1>2. descriptor'.base = newBase /\ descriptor'.height = height
  BY <1>1
<1>3. /\ newBase \in AllHeights /\ height \in AllHeights /\ cursor \in AllHeights
      /\ retain \in AllHeights /\ base \in AllHeights
      /\ base = descriptor.base /\ 0 < base /\ base <= newBase
      /\ newBase <= cursor /\ cursor <= retain /\ retain <= height
  BY <1>1 DEF StoreInv, StoreType, Agrees, Pruning
<1>4. newBase <= height /\ 0 < newBase
  BY <1>3 DEF AllHeights
<1>5. StoreType'
  <2>1. descriptor' \in [base: AllHeights, height: AllHeights]
    BY <1>1, <1>3
  <2>2. newBase # 0
    BY <1>3, <1>4 DEF AllHeights
  <2> QED
    BY <1>1, <1>2, <1>3, <1>4, <2>1, <2>2, EmptySeq DEF StoreInv, StoreType
<1>6. Agrees' /\ Saving'
  BY <1>1, <1>2 DEF Agrees, Saving
<1>7. Unsynced'
  BY <1>1, EmptySeq DEF Unsynced
<1>8. Pruning'
  BY <1>1, <1>2, <1>3, <1>4 DEF StoreInv, Pruning
<1>9. PartsBeforeMeta'
  <2>1. \A h \in AllHeights : h > newBase => h > descriptor.base
    BY <1>3 DEF AllHeights
  <2> QED
    BY <1>1, <1>2, <2>1 DEF StoreInv, PartsBeforeMeta
<1>10. \A h \in base' + 1 .. height' : Complete(h)'
  <2>1. \A h \in newBase + 1 .. height : h \in base + 1 .. height
    BY <1>3 DEF AllHeights
  <2> QED
    BY <1>1, <2>1 DEF StoreInv, Complete
<1> QED
  BY <1>5, <1>6, <1>7, <1>8, <1>9, <1>10 DEF StoreInv

LEMMA FlushDeleteKeeps ==
  ASSUME Constants, StoreInv, FlushDelete
  PROVE  StoreInv'
<1> DEFINE key == Head(batch)
<1>1. /\ writer = "delete" /\ batch # <<>> /\ batch' = Tail(batch)
      /\ db' = [db EXCEPT ![key[2]] = @ \ {key[1]}]
      /\ UNCHANGED <<first, unsynced, base, height, descriptor, writer, todo, retain, cursor,
                     newBase, crashes>>
  BY DEF FlushDelete
<1>2. /\ batch \in Seq(Key) /\ db \in [AllHeights -> SUBSET Kinds]
      /\ base = descriptor.base /\ unsynced = <<>>
      /\ base \in AllHeights
  BY <1>1 DEF StoreInv, StoreType, Agrees, Pruning
<1>3. /\ 1 \in DOMAIN batch /\ key = batch[1] /\ batch' \in Seq(Key)
      /\ \A i \in DOMAIN batch' : i + 1 \in DOMAIN batch /\ batch'[i] = batch[i + 1]
  BY <1>1, <1>2, HeadTailProperties, LenProperties, EmptySeq
<1>4. key \in Key /\ key[2] <= base
  BY <1>1, <1>2, <1>3, ElementOfSeq, LenProperties DEF StoreInv, Pruning
<1> HIDE DEF key
<1>5. /\ db' \in [AllHeights -> SUBSET Kinds]
      /\ \A h \in AllHeights : h > base => db'[h] = db[h]
  BY <1>1, <1>2, <1>4 DEF Key, AllHeights
<1>6. StoreType'
  BY <1>1, <1>3, <1>5 DEF StoreInv, StoreType
<1>7. Pruning'
  BY <1>1, <1>3 DEF StoreInv, Pruning
<1>8. Agrees' /\ Saving'
  BY <1>1 DEF StoreInv, Agrees, NextBlock, Saving
<1>9. Unsynced'
  BY <1>1, <1>2, EmptySeq DEF Unsynced
<1>10. PartsBeforeMeta'
  BY <1>1, <1>2, <1>5 DEF StoreInv, PartsBeforeMeta
<1>11. \A h \in base' + 1 .. height' : Complete(h)'
  <2> SUFFICES ASSUME NEW h \in base + 1 .. height PROVE Complete(h)'
    BY <1>1
  <2>1. db'[h] = db[h] /\ Complete(h)
    BY <1>5, BlocksInRange DEF StoreInv
  <2> QED
    BY <1>1, <2>1 DEF Complete
<1> QED
  BY <1>6, <1>7, <1>8, <1>9, <1>10, <1>11 DEF StoreInv

LEMMA FlushDoneKeeps ==
  ASSUME Constants, StoreInv, FlushDone
  PROVE  StoreInv'
<1>1. /\ writer = "delete" /\ batch = <<>> /\ writer' \in {"idle", "scan"}
      /\ UNCHANGED <<first, db, unsynced, descriptor, base, height, todo, retain, cursor, batch,
                     newBase, crashes>>
  BY DEF FlushDone, database, prune
<1>2. StoreType' /\ Pruning'
  BY <1>1 DEF StoreInv, StoreType, Pruning
<1>3. Agrees' /\ Saving' /\ Unsynced' /\ PartsBeforeMeta' /\ \A h \in base' + 1 .. height' : Complete(h)'
  BY <1>1 DEF StoreInv, Agrees, NextBlock, Saving, Unsynced, Losable, PartsBeforeMeta, Complete
<1> QED
  BY <1>2, <1>3 DEF StoreInv

-----------------------------------------------------------------------------
(***************************************************************************)
(* A crash loses nothing of the blocks the descriptor counts, and a meta    *)
(* that survives has its parts.                                             *)
(***************************************************************************)
LEMMA CrashKeeps ==
  ASSUME Constants, StoreInv, BlockStoreCrash
  PROVE  StoreInv'
<1> DEFINE Lost(n, h) == {unsynced[i][1] : i \in {j \in n + 1 .. Len(unsynced) : unsynced[j][2] = h}}
<1>1. PICK n \in 0 .. Len(unsynced) : db' = [h \in AllHeights |-> db[h] \ Lost(n, h)]
  BY DEF BlockStoreCrash
<1>2. /\ unsynced' = <<>> /\ base' = descriptor.base /\ height' = descriptor.height
      /\ writer' = "start" /\ todo' = <<>> /\ batch' = <<>> /\ retain' = 0 /\ cursor' = 0
      /\ newBase' = 0 /\ crashes' = crashes + 1 /\ first' = first /\ descriptor' = descriptor
  BY DEF BlockStoreCrash
<1>3. /\ unsynced \in Seq(Key) /\ Len(unsynced) \in Nat /\ DOMAIN unsynced = 1 .. Len(unsynced)
      /\ db \in [AllHeights -> SUBSET Kinds]
  BY LenProperties DEF StoreInv, StoreType
<1>4. \A h \in AllHeights : db'[h] = db[h] \ Lost(n, h)
  BY <1>1
<1>5. ASSUME NEW h, NEW k \in Lost(n, h)
      PROVE  \E i \in DOMAIN unsynced : i > n /\ unsynced[i][1] = k /\ unsynced[i][2] = h
  BY <1>3, <1>5
<1>6. ASSUME NEW i \in DOMAIN unsynced, i > n
      PROVE  unsynced[i][1] \in Lost(n, unsynced[i][2])
  BY <1>3, <1>6
<1> HIDE DEF Lost
<1>7. PartsBeforeMeta'
  <2> SUFFICES ASSUME NEW h \in AllHeights, h > descriptor.base, "meta" \in db'[h],
                      NEW k \in PartKinds
               PROVE  k \in db'[h]
    BY <1>2 DEF PartsBeforeMeta
  <2>1. "meta" \in db[h] /\ "meta" \notin Lost(n, h) /\ k \in db[h]
    BY <1>4 DEF StoreInv, PartsBeforeMeta
  <2>2. k \notin Lost(n, h)
    <3> SUFFICES ASSUME k \in Lost(n, h) PROVE FALSE
      OBVIOUS
    <3>1. PICK i \in DOMAIN unsynced : i > n /\ unsynced[i][1] = k /\ unsynced[i][2] = h
      BY <1>5
    <3>2. PICK j \in DOMAIN unsynced : j > i /\ unsynced[j] = <<"meta", h>>
      BY <2>1, <3>1 DEF StoreInv, Unsynced
    <3>3. j > n
      BY <1>3, <3>1, <3>2
    <3> QED
      BY <1>6, <2>1, <3>2, <3>3
  <2> QED
    BY <1>4, <2>1, <2>2
<1>8. ASSUME NEW h \in descriptor.base + 1 .. descriptor.height
      PROVE  Complete(h)'
  <2>1. /\ h \in AllHeights /\ descriptor.base > 0 /\ h <= descriptor.height /\ h > descriptor.base
        /\ NextBlock = descriptor.height + 1 /\ h \in Int
    <3>1. /\ descriptor.base \in Nat /\ descriptor.height \in Nat /\ descriptor.height <= MaxHeight
          /\ (descriptor.base = 0 => descriptor.height = 0) /\ MaxHeight \in Nat
      BY DEF StoreInv, StoreType, AllHeights, Constants
    <3>2. /\ h \in Int /\ 0 <= h /\ h <= MaxHeight /\ h > descriptor.base
          /\ h <= descriptor.height /\ descriptor.base > 0
      BY <1>8, <3>1
    <3> QED
      BY <3>1, <3>2, NextBlockAbove DEF AllHeights
  <2>2. base = descriptor.base /\ (height = descriptor.height \/ height = descriptor.height + 1)
    BY <2>1 DEF StoreInv, Agrees
  <2>3. h \in base + 1 .. height
    BY <1>8, <2>1, <2>2, NextBlockAbove DEF AllHeights
  <2>4. Complete(h)
    BY <2>3 DEF StoreInv
  <2>5. \A k \in Lost(n, h) : k = "commit" /\ h = descriptor.height
    <3> TAKE k \in Lost(n, h)
    <3>1. PICK i \in DOMAIN unsynced : unsynced[i][1] = k /\ unsynced[i][2] = h
      BY <1>5
    <3>2. Losable(unsynced[i])
      BY DEF StoreInv, Unsynced
    <3>3. h # NextBlock /\ (h = NextBlock - 1 => h = descriptor.height) /\ descriptor.base # 0
      BY <2>1, NextBlockAbove DEF AllHeights
    <3> QED
      BY <3>1, <3>2, <3>3 DEF Losable
  <2>6. h < descriptor.height => h < height /\ h # descriptor.height
    BY <2>1, <2>2, NextBlockAbove DEF AllHeights
  <2> QED
    BY <1>2, <1>4, <2>1, <2>4, <2>5, <2>6 DEF Complete, PartKinds
<1>9. StoreType'
  <2>1. db' \in [AllHeights -> SUBSET Kinds]
    BY <1>1, <1>3
  <2>2. 0 \in AllHeights /\ crashes' \in Nat
    BY <1>2 DEF AllHeights, Constants, StoreInv, StoreType
  <2>3. /\ descriptor.base \in AllHeights /\ descriptor.height \in AllHeights
        /\ descriptor.base <= descriptor.height
    BY DEF StoreInv, StoreType
  <2> QED
    BY <1>2, <2>1, <2>2, <2>3, EmptySeq DEF StoreInv, StoreType
<1>10. Agrees' /\ Saving' /\ Pruning'
  BY <1>2 DEF Agrees, Saving, Pruning
<1>11. Unsynced'
  BY <1>2, EmptySeq DEF Unsynced
<1> QED
  BY <1>2, <1>7, <1>8, <1>9, <1>10, <1>11 DEF StoreInv

LEMMA InitStore == Constants /\ BlockStoreInit => StoreInv
<1> SUFFICES ASSUME Constants, BlockStoreInit PROVE StoreInv
  OBVIOUS
<1>1. StoreType
  BY EmptySeq DEF Constants, BlockStoreInit, StoreType, AllHeights
<1>2. Agrees /\ Saving /\ Pruning
  BY DEF BlockStoreInit, Agrees, Saving, Pruning
<1>3. Unsynced
  BY EmptySeq DEF BlockStoreInit, Unsynced
<1>4. PartsBeforeMeta /\ \A h \in base + 1 .. height : Complete(h)
  BY DEF BlockStoreInit, PartsBeforeMeta
<1> QED
  BY <1>1, <1>2, <1>3, <1>4 DEF StoreInv

LEMMA StepKeeps ==
  ASSUME Constants, StoreInv, [BlockStoreNext]_blockStoreVars
  PROVE  StoreInv'
<1>1. CASE UNCHANGED blockStoreVars
  BY <1>1 DEF blockStoreVars, database, prune, StoreInv, StoreType, Agrees, NextBlock, Saving, Saved, Written,
              Unsynced, Losable, Pruning, PartsBeforeMeta, Complete
<1> QED
  BY <1>1, SaveSeenCommitKeeps, SaveBlockKeeps, SaveKeyKeeps, SaveBlockDoneKeeps,
     SaveBlockStateKeeps, PruneBlocksKeeps, PruneBlockKeeps, PruneLastKeeps, FlushBaseKeeps,
     FlushDeleteKeeps, FlushDoneKeeps, CrashKeeps DEF BlockStoreNext

(***************************************************************************)
(* The invariant of the block store holds always.                           *)
(***************************************************************************)
THEOREM StoreInvariant ==
  ASSUME Constants
  PROVE  BlockStoreSpec => []StoreInv
<1>1. BlockStoreInit => StoreInv
  BY InitStore
<1>2. StoreInv /\ [BlockStoreNext]_blockStoreVars => StoreInv'
  BY StepKeeps
<1> QED
  BY <1>1, <1>2, PTL DEF BlockStoreSpec

(***************************************************************************)
(* Between base and height every block is there with its commit, and a      *)
(* block with a meta has its parts, for every reader at every moment of     *)
(* SaveBlock and PruneBlocks and after every crash.                         *)
(***************************************************************************)
THEOREM StoreContiguous ==
  ASSUME Constants
  PROVE  BlockStoreSpec => []BlocksContiguous
<1>1. StoreInv => BlocksContiguous
  <2> SUFFICES ASSUME StoreInv, NEW h \in AllHeights, h > base, "meta" \in db[h]
               PROVE  PartKinds \subseteq db[h]
    BY DEF StoreInv, BlocksContiguous
  <2>1. h > descriptor.base
    BY DEF StoreInv, StoreType, Agrees, AllHeights
  <2> QED
    BY <2>1 DEF StoreInv, PartsBeforeMeta
<1> QED
  BY <1>1, StoreInvariant, PTL

-----------------------------------------------------------------------------
(***************************************************************************)
(* Pruning, without a crash: outside it nothing is stored below base and    *)
(* the block at base is there; during it everything below the cursor is in  *)
(* the batch, and the blocks from the cursor on have their meta, so that    *)
(* none is skipped.                                                         *)
(***************************************************************************)
Empty(h) == h # first - 1 => db[h] = {}

Rest ==
  writer \in {"start", "idle", "save", "saveState"} =>
    /\ \A h \in AllHeights : h < base \/ (base = 0 /\ h < first - 1) => Empty(h)
    /\ base > 0 => "meta" \in db[base]

Collected ==
  writer \in {"scan", "flush", "delete"} =>
    /\ \A h \in AllHeights : h < cursor /\ h # first - 1 =>
         \A k \in db[h] : \E i \in DOMAIN batch : batch[i] = <<k, h>>
    /\ \A h \in cursor .. height : "meta" \in db[h]
    /\ writer # "scan" /\ newBase = retain => cursor = retain

ReclaimInv == StoreInv /\ (crashes = 0 => Rest /\ Collected)

(***************************************************************************)
(* Writing adds nothing below base, or below the first block's commit.      *)
(***************************************************************************)
LEMMA SetAboveBase ==
  ASSUME StoreInv, NEW key \in Key, Set(key), Rest, writer \in {"start", "save"},
         base > 0 => key[2] >= base,
         base = 0 => key[2] >= first - 1,
         UNCHANGED <<first, base>>, writer' \in {"idle", "save"}
  PROVE  Rest'
<1>1. /\ key[2] \in AllHeights /\ db \in [AllHeights -> SUBSET Kinds]
      /\ base \in AllHeights /\ first \in Int
  BY DEF StoreInv, StoreType, Key
<1>2. \A h \in AllHeights : db'[h] = IF h = key[2] THEN db[h] \cup {key[1]} ELSE db[h]
  BY <1>1 DEF Set
<1>3. ASSUME NEW h \in AllHeights, h < base \/ (base = 0 /\ h < first - 1)
      PROVE  Empty(h)'
  <2>1. h # key[2]
    BY <1>1, <1>3 DEF AllHeights
  <2> QED
    BY <1>2, <1>3, <2>1 DEF Rest, Empty
<1>4. base > 0 => "meta" \in db'[base]
  BY <1>1, <1>2 DEF Rest
<1> QED
  BY <1>3, <1>4 DEF Rest

LEMMA SavingReclaims ==
  ASSUME Constants, ReclaimInv, crashes = 0,
         SaveSeenCommit \/ SaveBlock \/ SaveKey \/ SaveBlockDone \/ SaveBlockState
  PROVE  Rest' /\ Collected'
<1>1. StoreInv /\ Rest
  BY DEF ReclaimInv
<1>2. writer' \in {"idle", "save", "saveState"} /\ writer \in {"start", "idle", "save", "saveState"}
  BY DEF SaveSeenCommit, SaveBlock, SaveKey, SaveBlockDone, SaveBlockState
<1>3. Collected'
  BY <1>2 DEF Collected
<1>4. ASSUME SaveSeenCommit PROVE Rest'
  <2>1. UNCHANGED <<first, base>> /\ writer = "start" /\ writer' = "idle"
    BY <1>4 DEF SaveSeenCommit
  <2>2. CASE first > 1 /\ height = 0
    <3> DEFINE key == <<"seen", first - 1>>
    <3>1. key \in Key /\ key[2] = first - 1 /\ first - 1 \in Int
      BY <1>1, <2>2 DEF StoreInv, StoreType, Constants, Key, Kinds, AllHeights
    <3>2. base = 0
      BY <1>1, <2>2 DEF StoreInv, StoreType, AllHeights
    <3>3. Set(key)
      BY <1>4, <2>2 DEF SaveSeenCommit
    <3> HIDE DEF key
    <3>4. key[2] >= first - 1
      BY <3>1
    <3> QED
      BY <1>1, <2>1, <3>1, <3>2, <3>3, <3>4, SetAboveBase
  <2>3. CASE ~ (first > 1 /\ height = 0)
    BY <1>1, <1>4, <2>1, <2>3 DEF SaveSeenCommit, Rest, Empty
  <2> QED
    BY <2>2, <2>3
<1>5. ASSUME SaveBlock PROVE Rest'
  BY <1>1, <1>5 DEF SaveBlock, database, Rest, Empty
<1>6. ASSUME SaveKey PROVE Rest'
  <2>1. /\ writer = "save" /\ writer' = writer /\ Set(Head(todo)) /\ todo # <<>>
        /\ UNCHANGED <<first, base, height, descriptor>>
    BY <1>6 DEF SaveKey
  <2>2. /\ base = descriptor.base /\ height = descriptor.height
        /\ NextBlock \in 1 .. MaxHeight
    BY <1>1, <2>1, NextBlockAbove DEF StoreInv, Agrees, Saving, Constants
  <2>3. PICK k \in 0 .. 6 : Saved(k)
    BY <1>1, <2>1 DEF StoreInv, Saving
  <2>4. k < 6 /\ Head(todo) = Writes(NextBlock)[k + 1]
    <3>1. todo \in Seq(Key)
      BY <1>1 DEF StoreInv, StoreType
    <3>2. Len(todo) # 0
      BY <2>1, <3>1, EmptySeq
    <3> QED
      BY <2>1, <2>3, <3>1, <3>2, HeadTailProperties DEF Saved
  <2> DEFINE key == Head(todo)
  <2>5. key \in Key /\ (key[2] = NextBlock \/ key = <<"commit", NextBlock - 1>>)
    <3>1. k + 1 \in 1 .. 6
      BY <2>4
    <3> QED
      BY <2>2, <2>4, <3>1, WritesOrder DEF Constants
  <2> HIDE DEF key
  <2>6. key[2] = NextBlock \/ key[2] = NextBlock - 1
    BY <2>5
  <2>7. /\ base > 0 => key[2] >= base
        /\ base = 0 => key[2] >= first - 1
    <3>1. base \in Nat /\ height \in Nat /\ first \in Nat /\ base <= height
      BY <1>1 DEF StoreInv, StoreType, AllHeights, Constants
    <3>2. NextBlock = IF base > 0 THEN height + 1 ELSE first
      BY <2>2 DEF NextBlock
    <3> QED
      BY <2>6, <3>1, <3>2
  <2> QED
    BY <1>1, <2>1, <2>5, <2>7, SetAboveBase DEF key
<1>7. ASSUME SaveBlockDone PROVE Rest'
  <2>1. /\ writer = "save" /\ UNCHANGED <<first, db>>
        /\ writer' = "saveState"
    BY <1>7 DEF SaveBlockDone, database
  <2>2. StoreInv'
    BY <1>1, <1>7, SaveBlockDoneKeeps
  <2>3. base = descriptor.base /\ base \in Nat /\ first \in Nat
    BY <1>1, <2>1 DEF StoreInv, Agrees, StoreType, AllHeights
  <2>4. base' = IF base = 0 THEN first ELSE base
    BY <1>7, <2>3 DEF SaveBlockDone
  <2>5. \A h \in AllHeights : h < base' \/ (base' = 0 /\ h < first - 1) => Empty(h)
    <3> SUFFICES ASSUME NEW h \in AllHeights, h < base' \/ (base' = 0 /\ h < first - 1)
                 PROVE  Empty(h)
      OBVIOUS
    <3>1. h < base \/ (base = 0 /\ h < first - 1) \/ h = first - 1
      BY <2>3, <2>4 DEF AllHeights
    <3> QED
      BY <1>1, <2>1, <3>1 DEF Rest, Empty
  <2>6. base' > 0 => "meta" \in db[base']
    <3>1. CASE base > 0
      BY <1>1, <2>1, <2>3, <2>4, <3>1 DEF Rest
    <3>2. CASE base = 0
      <4>1. PICK k \in 0 .. 6 : Saved(k)
        BY <1>1, <2>1 DEF StoreInv, Saving
      <4>2. k = 6 /\ NextBlock = first
        BY <1>7, <2>3, <3>2, <4>1, EmptySeq DEF Saved, SaveBlockDone, NextBlock
      <4>3. Written(Writes(first)[3])
        BY <4>1, <4>2 DEF Saved
      <4>4. first \in 1 .. MaxHeight
        BY <1>1 DEF StoreInv, StoreType
      <4>5. Writes(first)[3] = <<"meta", first>>
        BY <4>4, WritesOrder DEF Constants
      <4> QED
        BY <2>4, <3>2, <4>3, <4>5 DEF Written
    <3> QED
      BY <2>3, <3>1, <3>2
  <2> QED
    BY <2>1, <2>5, <2>6 DEF Rest, Empty
<1>8. ASSUME SaveBlockState PROVE Rest'
  BY <1>1, <1>8 DEF SaveBlockState, Rest, Empty
<1> QED
  BY <1>3, <1>4, <1>5, <1>6, <1>7, <1>8

LEMMA PruningReclaims ==
  ASSUME Constants, ReclaimInv, crashes = 0, PruneBlocks \/ PruneBlock \/ PruneLast
  PROVE  Rest' /\ Collected'
<1>1. StoreInv /\ Rest /\ Collected
  BY DEF ReclaimInv
<1>2. writer' \in {"scan", "flush"} /\ UNCHANGED <<db, first, height>>
  BY DEF PruneBlocks, PruneBlock, PruneLast, database
<1>3. Rest'
  BY <1>2 DEF Rest
<1>4. base \in Nat /\ height \in Nat /\ cursor \in Nat /\ retain \in Nat /\ MaxHeight \in Nat
      /\ cursor \in AllHeights /\ height <= MaxHeight /\ batch \in Seq(Key)
      /\ db \in [AllHeights -> SUBSET Kinds]
  BY <1>1 DEF StoreInv, StoreType, AllHeights, Constants
<1>5. ASSUME PruneBlocks PROVE Collected'
  <2>1. writer = "idle" /\ writer' = "scan" /\ cursor' = base /\ height > 0
    BY <1>4, <1>5 DEF PruneBlocks
  <2>2. base > 0
    BY <1>1, <1>4, <2>1 DEF StoreInv, StoreType, Agrees
  <2>3. \A h \in AllHeights : h < base /\ h # first - 1 => db[h] = {}
    BY <1>1, <2>1 DEF Rest, Empty
  <2>4. \A h \in base .. height : "meta" \in db[h]
    <3> TAKE h \in base .. height
    <3>1. CASE h = base
      BY <1>1, <2>1, <2>2, <3>1 DEF Rest
    <3>2. CASE h # base
      <4>1. h \in base + 1 .. height
        BY <1>4, <3>2
      <4> QED
        BY <1>1, <4>1 DEF StoreInv, Complete
    <3> QED
      BY <3>1, <3>2
  <2> QED
    BY <1>2, <2>1, <2>3, <2>4 DEF Collected
<1>6. ASSUME PruneBlock PROVE Collected'
  <2>1. writer = "scan" /\ cursor < retain /\ cursor' = cursor + 1 /\ retain' = retain
    BY <1>6 DEF PruneBlock
  <2>2. cursor \in cursor .. height
    BY <1>1, <1>4, <2>1 DEF StoreInv, Pruning
  <2>3. "meta" \in db[cursor]
    BY <1>1, <2>1, <2>2 DEF Collected
  <2>4. batch' = batch \o Deletes(cursor) /\ (writer' = "flush" => newBase' = cursor)
    BY <1>6, <2>1, <2>3 DEF PruneBlock
  <2>5. /\ \A i \in DOMAIN batch : i \in DOMAIN batch' /\ batch'[i] = batch[i]
        /\ \A k \in Kinds : \E i \in DOMAIN batch' : batch'[i] = <<k, cursor>>
    BY <1>4, <2>4, BatchGrows
  <2>6. ASSUME NEW h \in AllHeights, h < cursor + 1, h # first - 1, NEW k \in db[h]
        PROVE  \E i \in DOMAIN batch' : batch'[i] = <<k, h>>
    <3>1. CASE h = cursor
      <4>1. k \in Kinds
        BY <1>4, <2>6
      <4> QED
        BY <2>5, <3>1, <4>1
    <3>2. CASE h # cursor
      <4>1. h < cursor
        BY <1>4, <2>6, <3>2 DEF AllHeights
      <4>2. PICK i \in DOMAIN batch : batch[i] = <<k, h>>
        BY <1>1, <2>1, <2>6, <4>1 DEF Collected
      <4> QED
        BY <2>5, <4>2
    <3> QED
      BY <3>1, <3>2
  <2>7. \A h \in cursor + 1 .. height : "meta" \in db[h]
    <3> TAKE h \in cursor + 1 .. height
    <3>1. h \in cursor .. height
      BY <1>4
    <3> QED
      BY <1>1, <2>1, <3>1 DEF Collected
  <2>8. writer' # "scan" => newBase' # retain'
    BY <1>2, <1>4, <2>1, <2>4
  <2> QED
    BY <1>2, <2>1, <2>6, <2>7, <2>8 DEF Collected
<1>7. ASSUME PruneLast PROVE Collected'
  BY <1>1, <1>7 DEF PruneLast, database, Collected
<1> QED
  BY <1>3, <1>5, <1>6, <1>7

LEMMA FlushingReclaims ==
  ASSUME Constants, ReclaimInv, crashes = 0, FlushBase \/ FlushDelete \/ FlushDone
  PROVE  Rest' /\ Collected'
<1>1. StoreInv /\ Rest /\ Collected
  BY DEF ReclaimInv
<1>2. batch \in Seq(Key) /\ db \in [AllHeights -> SUBSET Kinds]
      /\ cursor \in Nat /\ height \in Nat /\ MaxHeight \in Nat /\ height <= MaxHeight
  BY <1>1 DEF StoreInv, StoreType, AllHeights, Constants
<1>3. ASSUME FlushBase PROVE Rest' /\ Collected'
  BY <1>1, <1>3 DEF FlushBase, prune, Rest, Collected
<1>4. ASSUME FlushDelete PROVE Rest' /\ Collected'
  <2> DEFINE key == Head(batch)
  <2>1. /\ writer = "delete" /\ writer' = writer /\ batch # <<>> /\ batch' = Tail(batch)
        /\ db' = [db EXCEPT ![key[2]] = @ \ {key[1]}]
        /\ UNCHANGED <<first, height, cursor, retain, newBase>>
    BY <1>4 DEF FlushDelete
  <2>2. /\ DOMAIN batch = 1 .. Len(batch) /\ Len(batch) \in Nat /\ Len(batch) > 0
        /\ key = batch[1] /\ 1 \in DOMAIN batch
        /\ DOMAIN batch' = 1 .. Len(batch) - 1
        /\ \A i \in 1 .. Len(batch) - 1 : batch'[i] = batch[i + 1]
    BY <1>2, <2>1, HeadTailProperties, LenProperties, EmptySeq
  <2>3. key \in Key /\ key[2] < cursor
    BY <1>1, <1>2, <2>1, <2>2, ElementOfSeq DEF StoreInv, Pruning
  <2> HIDE DEF key
  <2>4. key[2] \in AllHeights /\ key = <<key[1], key[2]>>
    BY <2>3 DEF Key
  <2>5. \A h \in AllHeights : db'[h] = IF h = key[2] THEN db[h] \ {key[1]} ELSE db[h]
    BY <1>2, <2>1, <2>4
  <2>6. ASSUME NEW h \in AllHeights, h < cursor, h # first - 1, NEW k \in db'[h]
        PROVE  \E i \in DOMAIN batch' : batch'[i] = <<k, h>>
    <3>1. k \in db[h] /\ <<k, h>> # key
      <4>1. k \in db[h] /\ ~ (k = key[1] /\ h = key[2])
        BY <2>5, <2>6
      <4>2. <<k, h>>[1] = k /\ <<k, h>>[2] = h
        OBVIOUS
      <4> QED
        BY <4>1, <4>2
    <3>2. PICK i \in DOMAIN batch : batch[i] = <<k, h>>
      BY <1>1, <2>1, <2>6, <3>1 DEF Collected
    <3>3. i # 1
      BY <2>2, <3>1, <3>2
    <3>4. i - 1 \in 1 .. Len(batch) - 1 /\ (i - 1) + 1 = i
      BY <2>2, <3>3
    <3> QED
      BY <2>2, <3>2, <3>4
  <2>7. \A h \in cursor .. height : "meta" \in db'[h]
    <3> TAKE h \in cursor .. height
    <3>1. h \in AllHeights /\ h # key[2]
      BY <1>2, <2>3, <2>4 DEF AllHeights
    <3> QED
      BY <1>1, <2>1, <2>5, <3>1 DEF Collected
  <2>8. writer' # "scan" /\ newBase' = retain' => cursor' = retain'
    BY <1>1, <2>1 DEF Collected
  <2> QED
    BY <2>1, <2>6, <2>7, <2>8 DEF Rest, Collected
<1>5. ASSUME FlushDone PROVE Rest' /\ Collected'
  <2>1. /\ writer = "delete" /\ batch = <<>> /\ writer' = (IF newBase = retain THEN "idle" ELSE "scan")
        /\ UNCHANGED <<first, db, base, height, cursor, retain, newBase, batch>>
    BY <1>5 DEF FlushDone, database, prune
  <2>2. \A h \in AllHeights : h < cursor /\ h # first - 1 => db[h] = {}
    <3>1. DOMAIN batch = {}
      BY <2>1, EmptySeq
    <3> QED
      BY <1>1, <2>1, <3>1 DEF Collected
  <2>3. CASE newBase = retain
    <3>1. cursor = base /\ base <= height /\ 0 < base
      BY <1>1, <2>1, <2>3 DEF Collected, StoreInv, StoreType, Pruning, Agrees
    <3>2. cursor \in cursor .. height
      BY <1>2, <3>1
    <3>3. "meta" \in db[base] /\ base # 0
      BY <1>1, <1>2, <2>1, <3>1, <3>2 DEF Collected
    <3>4. writer' = "idle"
      BY <2>1, <2>3
    <3> QED
      BY <2>1, <2>2, <3>1, <3>3, <3>4 DEF Rest, Collected, Empty
  <2>4. CASE newBase # retain
    BY <1>1, <2>1, <2>4 DEF Rest, Collected
  <2> QED
    BY <2>3, <2>4
<1> QED
  BY <1>3, <1>4, <1>5

(***************************************************************************)
(* Without a crash PruneBlocks leaves nothing of a pruned block in the      *)
(* database, whatever the size of its batches.                              *)
(***************************************************************************)
THEOREM PrunedReclaimed ==
  ASSUME Constants
  PROVE  BlockStoreSpec => []Reclaimed
<1>1. BlockStoreInit => ReclaimInv
  BY InitStore DEF BlockStoreInit, ReclaimInv, Rest, Collected, Empty, AllHeights
<1>2. ReclaimInv /\ [BlockStoreNext]_blockStoreVars => ReclaimInv'
  <2> SUFFICES ASSUME ReclaimInv, [BlockStoreNext]_blockStoreVars, crashes' = 0
               PROVE  Rest' /\ Collected'
    BY StepKeeps DEF ReclaimInv
  <2>1. crashes \in Nat
    BY DEF ReclaimInv, StoreInv, StoreType
  <2>2. ~ BlockStoreCrash
    <3>1. BlockStoreCrash => crashes' = crashes + 1
      BY DEF BlockStoreCrash
    <3> QED
      BY <2>1, <3>1
  <2>3. CASE UNCHANGED blockStoreVars
    BY <2>3 DEF ReclaimInv, blockStoreVars, database, prune, Rest, Collected, Empty
  <2>4. ASSUME BlockStoreNext PROVE crashes = 0
    BY <2>2, <2>4 DEF BlockStoreNext, SaveSeenCommit, SaveBlock, SaveKey, SaveBlockDone, SaveBlockState,
                      PruneBlocks, PruneBlock, PruneLast, FlushBase, FlushDelete, FlushDone
  <2> QED
    BY <2>2, <2>3, <2>4, SavingReclaims, PruningReclaims, FlushingReclaims DEF BlockStoreNext
<1>3. ReclaimInv => Reclaimed
  BY DEF ReclaimInv, Rest, Reclaimed, Empty
<1> QED
  BY <1>1, <1>2, <1>3, PTL DEF BlockStoreSpec
=============================================================================

----------------------------- MODULE SyncProofs -----------------------------
(***************************************************************************)
(* The pool of fast sync never counts fewer pending requests than there    *)
(* are, and the reactor's routine redoes only requests that are there.     *)
(* State sync restores complete snapshots only, and never waits for a      *)
(* chunk that nobody fetches, for any peers, snapshots, numbers of chunks  *)
(* and fetchers, and whatever the application answers.                     *)
(***************************************************************************)
EXTENDS BlockPool, StateSync, NaturalsInduction, WellFoundedInduction, FiniteSetTheorems, TLAPS

-----------------------------------------------------------------------------
(* Fast sync *)

Requester ==
  [pc: {"pick", "assign", "wait", "reset"}, picked: PoolPeers \cup {Absent}, peer: PoolPeers \cup {Absent},
   block: {"good", "bad", Absent}, redo: PoolPeers \cup {Absent}]

CountInv ==
  /\ IsFiniteSet(DOMAIN requesters)
  /\ requesters \in [DOMAIN requesters -> Requester]
  /\ DOMAIN peers \subseteq PoolPeers
  /\ numPending \in Int /\ numPending >= Cardinality(Missing)

Routine == [pc: {"peek", "pop", "redo", "stop"}, at: Nat, ok: BOOLEAN, peer: PoolPeers \cup {Absent}]

(***************************************************************************)
(* Only PopRequest removes requesters, and it runs in the routine itself.   *)
(***************************************************************************)
RoutineInv ==
  /\ height \in Nat /\ routine \in Routine
  /\ routine.pc \in {"redo", "stop"} =>
       /\ height \in DOMAIN requesters /\ height + 1 \in DOMAIN requesters
       /\ routine.at \in {height, height + 1}

PoolInv == CountInv /\ RoutineInv

-----------------------------------------------------------------------------
(***************************************************************************)
(* Steps that leave every block where it is, and perhaps drop requesters.   *)
(***************************************************************************)
LEMMA SameBlocks ==
  ASSUME CountInv, numPending' = numPending, DOMAIN peers' \subseteq PoolPeers,
         DOMAIN requesters' \subseteq DOMAIN requesters,
         requesters' \in [DOMAIN requesters' -> Requester],
         \A h \in DOMAIN requesters' : requesters'[h].block = requesters[h].block
  PROVE  CountInv'
<1>1. IsFiniteSet(DOMAIN requesters')
  BY FS_Subset DEF CountInv
<1>2. Missing' \subseteq Missing /\ IsFiniteSet(Missing)
  <2>1. Missing' \subseteq Missing
    BY DEF Missing
  <2>2. Missing \subseteq DOMAIN requesters
    BY DEF Missing
  <2> QED
    BY <2>1, <2>2, FS_Subset DEF CountInv
<1>3. Cardinality(Missing') <= Cardinality(Missing) /\ IsFiniteSet(Missing')
  BY <1>2, FS_Subset
<1>4. Cardinality(Missing) \in Nat /\ Cardinality(Missing') \in Nat
  BY <1>2, <1>3, FS_CardinalityType
<1>5. numPending' >= Cardinality(Missing')
  BY <1>3, <1>4 DEF CountInv
<1> QED
  BY <1>1, <1>5 DEF CountInv

LEMMA RedoKeepsBlocks ==
  ASSUME NEW rs, rs \in [DOMAIN rs -> Requester], NEW gone \in SUBSET (PoolPeers \cup {Absent})
  PROVE  /\ DOMAIN RedoAll(rs, gone) = DOMAIN rs
         /\ RedoAll(rs, gone) \in [DOMAIN rs -> Requester]
         /\ \A h \in DOMAIN rs : RedoAll(rs, gone)[h].block = rs[h].block
<1>1. ASSUME NEW h \in DOMAIN rs
      PROVE  RedoAll(rs, gone)[h] \in Requester /\ RedoAll(rs, gone)[h].block = rs[h].block
  BY <1>1 DEF RedoAll, Requester
<1> QED
  BY <1>1 DEF RedoAll

LEMMA RemovalKeeps ==
  ASSUME CountInv, NEW gone \in SUBSET (PoolPeers \cup {Absent}), RemovePeers(gone), numPending' = numPending
  PROVE  CountInv'
<1>1. requesters' = RedoAll(requesters, gone) /\ DOMAIN peers' \subseteq PoolPeers
  BY DEF RemovePeers, Restrict, CountInv
<1>2. /\ DOMAIN requesters' = DOMAIN requesters
      /\ requesters' \in [DOMAIN requesters -> Requester]
      /\ \A h \in DOMAIN requesters : requesters'[h].block = requesters[h].block
  BY <1>1, RedoKeepsBlocks DEF CountInv
<1> QED
  BY <1>1, <1>2, SameBlocks

-----------------------------------------------------------------------------
(***************************************************************************)
(* Steps that change one requester.                                         *)
(***************************************************************************)
LEMMA PickKeeps ==
  ASSUME CountInv, NEW h \in PoolHeights, PickPeer(h)
  PROVE  CountInv'
<1>1. /\ numPending' = numPending /\ h \in DOMAIN requesters
      /\ TimedOut \subseteq PoolPeers /\ Available(h) \subseteq PoolPeers
  BY DEF PickPeer, TimedOut, Available, CountInv
<1>2. CASE RemovePeers(TimedOut)
  BY <1>1, <1>2, RemovalKeeps
<1>3. ASSUME NEW p \in Available(h), NEW gone \in SUBSET TimedOut,
             requesters' = [RedoAll(requesters, gone) EXCEPT ![h].pc = "assign", ![h].picked = p],
             DOMAIN peers' \subseteq DOMAIN peers
      PROVE  CountInv'
  <2> DEFINE rs == RedoAll(requesters, gone)
  <2>1. /\ DOMAIN rs = DOMAIN requesters /\ rs \in [DOMAIN requesters -> Requester]
        /\ \A k \in DOMAIN requesters : rs[k].block = requesters[k].block
    BY <1>1, RedoKeepsBlocks DEF CountInv
  <2> HIDE DEF rs
  <2>2. requesters' = [rs EXCEPT ![h] = [rs[h] EXCEPT !.pc = "assign", !.picked = p]]
    BY <1>1, <1>3, <2>1 DEF rs
  <2>3. rs[h] \in Requester
    BY <1>1, <2>1
  <2> DEFINE r == [rs[h] EXCEPT !.pc = "assign", !.picked = p]
  <2>4. r \in Requester /\ r.block = rs[h].block
    BY <1>1, <2>3 DEF Requester
  <2> HIDE DEF r
  <2>5. requesters' = [rs EXCEPT ![h] = r]
    BY <2>2 DEF r
  <2>6. /\ DOMAIN requesters' = DOMAIN requesters /\ requesters' \in [DOMAIN requesters -> Requester]
        /\ \A k \in DOMAIN requesters : requesters'[k].block = requesters[k].block
    BY <1>1, <2>1, <2>4, <2>5
  <2>7. DOMAIN peers' \subseteq PoolPeers
    BY <1>3 DEF CountInv
  <2> QED
    BY <1>1, <2>6, <2>7, SameBlocks
<1> QED
  BY <1>2, <1>3 DEF PickPeer, Restrict

LEMMA AssignKeeps ==
  ASSUME CountInv, NEW h \in PoolHeights, AssignPeer(h) \/ ReceiveRedo(h)
  PROVE  CountInv'
<1> DEFINE r == requesters[h]
           a == [r EXCEPT !.peer = r.picked, !.picked = Absent, !.pc = "wait"]
           b == [r EXCEPT !.redo = Absent, !.pc = IF r.redo = r.peer THEN "reset" ELSE "wait"]
<1>1. /\ numPending' = numPending /\ h \in DOMAIN requesters /\ peers' = peers
      /\ requesters' = [requesters EXCEPT ![h] = a] \/ requesters' = [requesters EXCEPT ![h] = b]
  BY DEF AssignPeer, ReceiveRedo
<1>2. r \in Requester
  BY <1>1 DEF CountInv
<1>3. /\ a \in Requester /\ a.block = r.block
      /\ b \in Requester /\ b.block = r.block
  BY <1>2 DEF Requester
<1> HIDE DEF a, b
<1>4. /\ DOMAIN requesters' = DOMAIN requesters /\ requesters' \in [DOMAIN requesters -> Requester]
      /\ \A k \in DOMAIN requesters : requesters'[k].block = requesters[k].block
  BY <1>1, <1>3 DEF CountInv
<1> QED
  BY <1>1, <1>4, SameBlocks DEF CountInv

(***************************************************************************)
(* A request that gets its block, or loses it, and a new one.               *)
(***************************************************************************)
LEMMA MissingFinite ==
  ASSUME CountInv
  PROVE  /\ IsFiniteSet(Missing) /\ Cardinality(Missing) \in Nat
         /\ \A h : /\ IsFiniteSet(Missing \cup {h})
                   /\ Cardinality(Missing \cup {h}) <= Cardinality(Missing) + 1
                   /\ h \in Missing => Cardinality(Missing \ {h}) = Cardinality(Missing) - 1
<1>1. Missing \subseteq DOMAIN requesters
  BY DEF Missing
<1>2. IsFiniteSet(Missing)
  BY <1>1, FS_Subset DEF CountInv
<1>3. Cardinality(Missing) \in Nat
  BY <1>2, FS_CardinalityType
<1>4. ASSUME NEW h
      PROVE  /\ IsFiniteSet(Missing \cup {h})
             /\ Cardinality(Missing \cup {h}) = Cardinality(Missing) \/
                Cardinality(Missing \cup {h}) = Cardinality(Missing) + 1
             /\ h \in Missing => Cardinality(Missing \ {h}) = Cardinality(Missing) - 1
  BY <1>2, FS_AddElement, FS_RemoveElement
<1>5. ASSUME NEW h PROVE Cardinality(Missing \cup {h}) <= Cardinality(Missing) + 1
  <2> DEFINE n == Cardinality(Missing)
             m == Cardinality(Missing \cup {h})
  <2>1. n \in Nat /\ (m = n \/ m = n + 1)
    BY <1>3, <1>4
  <2> HIDE DEF n, m
  <2>2. m <= n + 1
    BY <2>1
  <2> QED
    BY <2>2 DEF n, m
<1> QED
  BY <1>2, <1>3, <1>4, <1>5

LEMMA MakeKeeps ==
  ASSUME CountInv, MakeNextRequester
  PROVE  CountInv'
<1> DEFINE next == height + Cardinality(DOMAIN requesters)
<1>1. /\ requesters' = [h \in DOMAIN requesters \cup {next} |->
                         IF h = next THEN NewRequester ELSE requesters[h]]
      /\ numPending' = numPending + 1 /\ peers' = peers
  BY DEF MakeNextRequester
<1> HIDE DEF next
<1>2. NewRequester \in Requester
  BY DEF NewRequester, Requester
<1>3. DOMAIN requesters' = DOMAIN requesters \cup {next} /\ requesters' \in [DOMAIN requesters' -> Requester]
  BY <1>1, <1>2 DEF CountInv
<1>4. IsFiniteSet(DOMAIN requesters')
  BY <1>3, FS_AddElement DEF CountInv
<1>5. Missing' \subseteq Missing \cup {next}
  BY <1>1 DEF Missing
<1>6. Cardinality(Missing') <= Cardinality(Missing \cup {next}) /\ IsFiniteSet(Missing')
  BY <1>5, MissingFinite, FS_Subset
<1>7. /\ Cardinality(Missing \cup {next}) \in Nat /\ Cardinality(Missing') \in Nat
      /\ Cardinality(Missing) \in Nat /\ Cardinality(Missing \cup {next}) <= Cardinality(Missing) + 1
  BY <1>6, MissingFinite, FS_CardinalityType
<1>8. numPending' \in Int /\ numPending' >= Cardinality(Missing')
  BY <1>1, <1>6, <1>7 DEF CountInv
<1> QED
  BY <1>1, <1>3, <1>4, <1>8 DEF CountInv

LEMMA ResetKeeps ==
  ASSUME CountInv, NEW h \in PoolHeights, Reset(h)
  PROVE  CountInv'
<1> DEFINE r == requesters[h]
           a == [r EXCEPT !.peer = Absent, !.block = Absent, !.pc = "pick"]
<1>1. /\ requesters' = [requesters EXCEPT ![h] = a] /\ h \in DOMAIN requesters /\ peers' = peers
      /\ numPending' = IF r.block # Absent THEN numPending + 1 ELSE numPending
  BY DEF Reset
<1>2. r \in Requester
  BY <1>1 DEF CountInv
<1>3. a \in Requester /\ a.block = Absent
  BY <1>2 DEF Requester
<1> HIDE DEF a
<1>4. /\ DOMAIN requesters' = DOMAIN requesters /\ requesters' \in [DOMAIN requesters -> Requester]
      /\ \A k \in DOMAIN requesters : requesters'[k].block = Absent => k = h \/ requesters[k].block = Absent
  BY <1>1, <1>3 DEF CountInv
<1>5. Missing' \subseteq Missing \cup {h} /\ (r.block = Absent => Missing' \subseteq Missing)
  BY <1>1, <1>4 DEF Missing
<1>6. /\ Cardinality(Missing') <= Cardinality(Missing \cup {h}) /\ IsFiniteSet(Missing')
      /\ r.block = Absent => Cardinality(Missing') <= Cardinality(Missing)
  BY <1>5, MissingFinite, FS_Subset
<1>7. /\ Cardinality(Missing \cup {h}) \in Nat /\ Cardinality(Missing') \in Nat
      /\ Cardinality(Missing) \in Nat /\ Cardinality(Missing \cup {h}) <= Cardinality(Missing) + 1
  BY <1>6, MissingFinite, FS_CardinalityType
<1>8. numPending' \in Int /\ numPending' >= Cardinality(Missing')
  BY <1>1, <1>6, <1>7 DEF CountInv
<1> QED
  BY <1>1, <1>4, <1>8 DEF CountInv

LEMMA AddBlockKeeps ==
  ASSUME CountInv, Absent \notin {"good", "bad"},
         NEW p \in PoolPeers, NEW h \in PoolHeights, NEW b \in Blocks(p), AddBlock(p, h, b)
  PROVE  CountInv'
<1>0. DOMAIN peers' = DOMAIN peers
  BY DEF AddBlock, DecrPending
<1>1. CASE UNCHANGED <<requesters, numPending>>
  BY <1>0, <1>1 DEF CountInv, Missing
<1>2. CASE /\ h \in DOMAIN requesters /\ requesters[h].block = Absent
           /\ requesters' = [requesters EXCEPT ![h].block = b] /\ numPending' = numPending - 1
  <2> DEFINE a == [requesters[h] EXCEPT !.block = b]
  <2>1. requesters' = [requesters EXCEPT ![h] = a]
    BY <1>2
  <2>2. requesters[h] \in Requester /\ b \in {"good", "bad"}
    BY <1>2 DEF CountInv, Blocks
  <2>3. a \in Requester /\ a.block # Absent
    BY <2>2 DEF Requester
  <2> HIDE DEF a
  <2>4. DOMAIN requesters' = DOMAIN requesters /\ requesters' \in [DOMAIN requesters -> Requester]
    BY <1>2, <2>1, <2>3 DEF CountInv
  <2>5. Missing' \subseteq Missing \ {h} /\ h \in Missing
    BY <1>2, <2>1, <2>3 DEF Missing
  <2>6. IsFiniteSet(Missing \ {h})
    BY MissingFinite, FS_Subset
  <2>7. Cardinality(Missing') <= Cardinality(Missing \ {h}) /\ IsFiniteSet(Missing')
    BY <2>5, <2>6, FS_Subset
  <2>8. /\ Cardinality(Missing \ {h}) = Cardinality(Missing) - 1
        /\ Cardinality(Missing) \in Nat /\ Cardinality(Missing') \in Nat
    BY <2>5, <2>7, MissingFinite, FS_CardinalityType
  <2>9. numPending' \in Int /\ numPending' >= Cardinality(Missing')
    BY <1>2, <2>7, <2>8 DEF CountInv
  <2> QED
    BY <1>0, <2>4, <2>9 DEF CountInv
<1> QED
  BY <1>1, <1>2 DEF AddBlock

-----------------------------------------------------------------------------
LEMMA CountStepKeeps ==
  ASSUME CountInv, RoutineInv, Absent \notin {"good", "bad"}, [FastSyncNext]_blockPoolVars
  PROVE  CountInv'
<1>0. ASSUME NEW p \in PoolPeers \cup {Absent}, Drop(p), numPending' = numPending PROVE CountInv'
  BY <1>0, RemovalKeeps DEF Drop
<1>1. ASSUME UNCHANGED <<requesters, numPending>>, DOMAIN peers' \subseteq PoolPeers PROVE CountInv'
  BY <1>1 DEF CountInv, Missing
<1>2. ASSUME NEW p \in PoolPeers, Connect(p) \/ SetPeerRange(p) \/ OnTimeout(p) PROVE CountInv'
  <2>1. UNCHANGED <<requesters, numPending>> /\ DOMAIN peers' \subseteq DOMAIN peers \cup {p}
    BY <1>2 DEF Connect, SetPeerRange, OnTimeout, pool
  <2> QED
    BY <1>1, <2>1 DEF CountInv
<1>3. ASSUME NEW p \in PoolPeers, Leave(p) \/ HandleError(p) PROVE CountInv'
  BY <1>0, <1>1, <1>3 DEF Leave, HandleError, CountInv
<1>4. ASSUME RemoveTimedoutPeers PROVE CountInv'
  <2>1. PICK slow \in SUBSET (Bad \cap DOMAIN peers) : RemovePeers(TimedOut \cup slow)
    BY <1>4 DEF RemoveTimedoutPeers
  <2>2. TimedOut \cup slow \in SUBSET (PoolPeers \cup {Absent})
    BY DEF TimedOut, CountInv
  <2> QED
    BY <1>4, <2>1, <2>2, RemovalKeeps DEF RemoveTimedoutPeers
<1>5. ASSUME PopRequest PROVE CountInv'
  <2>1. /\ DOMAIN requesters' \subseteq DOMAIN requesters /\ requesters' \in [DOMAIN requesters' -> Requester]
        /\ \A h \in DOMAIN requesters' : requesters'[h].block = requesters[h].block
        /\ peers' = peers /\ numPending' = numPending
    BY <1>5 DEF PopRequest, Restrict, CountInv
  <2> QED
    BY <2>1, SameBlocks DEF CountInv
<1>6. ASSUME RedoRequest PROVE CountInv'
  <2>1. requesters[routine.at].peer \in PoolPeers \cup {Absent}
    BY <1>6 DEF RedoRequest, RoutineInv, CountInv, Requester
  <2>2. {requesters[routine.at].peer} \in SUBSET (PoolPeers \cup {Absent})
    BY <2>1
  <2> QED
    BY <1>1, <1>6, <2>2, RemovalKeeps DEF RedoRequest, CountInv
<1>7. ASSUME StopPeerForError PROVE CountInv'
  BY <1>0, <1>1, <1>7 DEF StopPeerForError, CountInv, RoutineInv, Routine
<1>8. ASSUME PeekTwoBlocks \/ SwitchToConsensus \/ UNCHANGED blockPoolVars PROVE CountInv'
  BY <1>1, <1>8 DEF PeekTwoBlocks, SwitchToConsensus, blockPoolVars, pool, CountInv
<1>9. ASSUME NEW h \in PoolHeights, PickPeer(h) \/ AssignPeer(h) \/ ReceiveRedo(h) \/ Reset(h) PROVE CountInv'
  BY <1>9, PickKeeps, AssignKeeps, ResetKeeps
<1> QED
  BY <1>2, <1>3, <1>4, <1>5, <1>6, <1>7, <1>8, <1>9, MakeKeeps, AddBlockKeeps DEF FastSyncNext

(***************************************************************************)
(* The routine.                                                             *)
(***************************************************************************)
LEMMA RoutineWaits ==
  ASSUME RoutineInv, UNCHANGED <<height, routine>>, DOMAIN requesters \subseteq DOMAIN requesters'
  PROVE  RoutineInv'
BY DEF RoutineInv

LEMMA RoutineStepKeeps ==
  ASSUME CountInv, RoutineInv, [FastSyncNext]_blockPoolVars
  PROVE  RoutineInv'
<1>1. ASSUME NEW p \in PoolPeers,
             \/ Connect(p) \/ SetPeerRange(p) \/ Leave(p) \/ HandleError(p) \/ OnTimeout(p)
             \/ \E h \in PoolHeights : \E b \in Blocks(p) : AddBlock(p, h, b)
      PROVE  UNCHANGED <<height, routine>> /\ DOMAIN requesters' = DOMAIN requesters
  BY <1>1 DEF Connect, SetPeerRange, Leave, HandleError, OnTimeout, AddBlock, Drop, RemovePeers, RedoAll,
              pool
<1>2. ASSUME NEW h \in PoolHeights, PickPeer(h) \/ AssignPeer(h) \/ ReceiveRedo(h) \/ Reset(h)
      PROVE  UNCHANGED <<height, routine>> /\ DOMAIN requesters' = DOMAIN requesters
  BY <1>2 DEF PickPeer, AssignPeer, ReceiveRedo, Reset, RemovePeers, RedoAll
<1>3. ASSUME MakeNextRequester \/ RemoveTimedoutPeers \/ SwitchToConsensus \/ UNCHANGED blockPoolVars
      PROVE  UNCHANGED <<height, routine>> /\ DOMAIN requesters \subseteq DOMAIN requesters'
  BY <1>3 DEF MakeNextRequester, RemoveTimedoutPeers, SwitchToConsensus, RemovePeers, RedoAll, blockPoolVars, pool
<1>4. ASSUME PeekTwoBlocks PROVE RoutineInv'
  <2>1. PICK c \in {"pop", "redo"} : routine' = [pc |-> c, at |-> height, ok |-> FALSE, peer |-> Absent]
    BY <1>4 DEF PeekTwoBlocks, Idle
  <2>2. height \in DOMAIN requesters /\ height + 1 \in DOMAIN requesters
    BY <1>4 DEF PeekTwoBlocks, BlockAt
  <2>3. height \in Nat /\ UNCHANGED <<height, requesters>>
    BY <1>4 DEF RoutineInv, PeekTwoBlocks, pool
  <2>4. routine' \in Routine /\ routine'.at = height
    BY <2>1, <2>3 DEF Routine
  <2> QED
    BY <2>2, <2>3, <2>4 DEF RoutineInv
<1>5. ASSUME PopRequest PROVE RoutineInv'
  BY <1>5 DEF PopRequest, RoutineInv, Routine, Idle
<1>6. ASSUME RedoRequest PROVE RoutineInv'
  <2> DEFINE p == requesters[routine.at].peer
  <2>1. /\ routine' = [routine EXCEPT !.pc = "stop", !.peer = p]
        /\ height' = height /\ DOMAIN requesters' = DOMAIN requesters
    BY <1>6 DEF RedoRequest, RemovePeers, RedoAll
  <2>2. p \in PoolPeers \cup {Absent}
    BY <1>6 DEF RedoRequest, RoutineInv, CountInv, Requester
  <2> HIDE DEF p
  <2>3. routine' \in Routine /\ routine'.at = routine.at /\ routine.pc = "redo"
    BY <1>6, <2>1, <2>2 DEF RedoRequest, Routine, RoutineInv
  <2> QED
    BY <2>1, <2>3 DEF RoutineInv
<1>7. ASSUME StopPeerForError PROVE RoutineInv'
  <2>1. height' = height /\ DOMAIN requesters' = DOMAIN requesters /\ routine.pc = "stop"
    BY <1>7 DEF StopPeerForError, Drop, RemovePeers, RedoAll
  <2>2. \/ routine' = [pc |-> "redo", at |-> height + 1, ok |-> FALSE, peer |-> Absent]
        \/ routine' = [pc |-> "peek", at |-> 0, ok |-> FALSE, peer |-> Absent]
    BY <1>7 DEF StopPeerForError, Idle
  <2>3. height \in Nat /\ height + 1 \in Nat
    BY DEF RoutineInv
  <2>4. CASE routine' = [pc |-> "redo", at |-> height + 1, ok |-> FALSE, peer |-> Absent]
    <3>1. routine' \in Routine /\ routine'.at = height + 1
      BY <2>3, <2>4 DEF Routine
    <3> QED
      BY <2>1, <3>1 DEF RoutineInv
  <2>5. CASE routine' = [pc |-> "peek", at |-> 0, ok |-> FALSE, peer |-> Absent]
    <3>1. routine' \in Routine /\ routine'.pc = "peek"
      BY <2>5 DEF Routine
    <3> QED
      BY <2>1, <3>1 DEF RoutineInv
  <2> QED
    BY <2>2, <2>4, <2>5
<1> QED
  BY <1>1, <1>2, <1>3, <1>4, <1>5, <1>6, <1>7, RoutineWaits DEF FastSyncNext

(***************************************************************************)
(* PoolInv is invariant.  None is no block.                                 *)
(***************************************************************************)
THEOREM PoolInvariant ==
  ASSUME Absent \notin {"good", "bad"}
  PROVE  FastSyncSpec => []PoolInv
<1>1. FastSyncInit => PoolInv
  <2> SUFFICES ASSUME FastSyncInit PROVE PoolInv
    OBVIOUS
  <2>1. DOMAIN requesters = {} /\ Missing = {} /\ DOMAIN peers = {}
    BY DEF FastSyncInit, Missing
  <2>2. CountInv
    BY <2>1, FS_EmptySet DEF FastSyncInit, CountInv
  <2>3. RoutineInv
    BY DEF FastSyncInit, RoutineInv, Routine, Idle
  <2> QED
    BY <2>2, <2>3 DEF PoolInv
<1>2. PoolInv /\ [FastSyncNext]_blockPoolVars => PoolInv'
  BY CountStepKeeps, RoutineStepKeeps DEF PoolInv
<1> QED
  BY <1>1, <1>2, PTL DEF FastSyncSpec

(***************************************************************************)
(* The pool never counts fewer pending requests than it has, in whatever    *)
(* order blocks arrive late, requesters reset themselves and are popped.    *)
(***************************************************************************)
THEOREM PendingCounted ==
  ASSUME Absent \notin {"good", "bad"}
  PROVE  FastSyncSpec => []PendingNotUndercounted
<1>1. PoolInv => PendingNotUndercounted
  BY DEF PoolInv, CountInv, PendingNotUndercounted
<1> QED
  BY <1>1, PoolInvariant, PTL

(***************************************************************************)
(* RedoRequest finds the requester it redoes: PeekTwoBlocks saw it, and no  *)
(* other goroutine removes one.                                             *)
(***************************************************************************)
THEOREM RedoFindsRequester ==
  ASSUME Absent \notin {"good", "bad"}
  PROVE  FastSyncSpec => [](routine.pc = "redo" => routine.at \in DOMAIN requesters)
<1>1. PoolInv => (routine.pc = "redo" => routine.at \in DOMAIN requesters)
  BY DEF PoolInv, RoutineInv
<1> QED
  BY <1>1, PoolInvariant, PTL

-----------------------------------------------------------------------------
(* State sync *)

Constants == Chunks \in Nat /\ None \notin Snapshots

Restoring == {"next", "wait", "apply"}

QueueType ==
  [files: SUBSET Index, senders: [Index -> Peers \cup {None}], allocated: SUBSET Index,
   returned: SUBSET Index]

SyncType ==
  /\ chunks \in QueueType
  /\ applied \in SUBSET Index
  /\ pc \in {"pick", "offer", "build", "done", "failed"} \cup Restoring
  /\ pc \in {"wait", "apply"} => current \in Index
  /\ pc \in {"offer", "build"} \cup Restoring => snapshot # None

(***************************************************************************)
(* Of the chunks that Next has returned, all but the one in hand are in the *)
(* queue and were accepted as they are there.                               *)
(***************************************************************************)
InHand == IF pc \in {"wait", "apply"} THEN {current} ELSE {}

Applied ==
  /\ pc \in Restoring => chunks.returned \ InHand \subseteq chunks.files \cap applied
  /\ pc = "apply" => current \in chunks.files
  /\ pc \in {"offer", "build"} \/ (pc = "pick" /\ snapshot = None) => chunks.returned = {}

SyncInv == SyncType /\ Applied /\ RestoredComplete

(***************************************************************************)
(* In a first attempt all fetchers belong to it, and what is allocated and  *)
(* not there is being waited for.                                           *)
(***************************************************************************)
Fetcher ==
  [by: Fetchers, ctx: Nat, pc: {"allocate", "wait"}, index: Index \cup {None}]

Waited ==
  \A i \in Index \ chunks.files :
    i \in chunks.allocated => \E f \in fetchers : f.pc = "wait" /\ f.index = i

FetchInv ==
  /\ SyncInv /\ attempt \in Nat /\ fetchers \in SUBSET Fetcher
  /\ (pc = "pick" /\ snapshot = None) \/ (pc = "offer" /\ attempt = 1)
       => fetchers = {} /\ chunks.allocated = {}
  /\ (pc = "pick" /\ snapshot # None) \/ pc \in {"offer", "build"} \cup Restoring => attempt >= 1
  /\ attempt = 1 => \A f \in fetchers : f.ctx = 1
  /\ pc \in {"build"} \cup Restoring /\ attempt = 1 => Waited

-----------------------------------------------------------------------------
(***************************************************************************)
(* The lowest index that is left is one that is left.                       *)
(***************************************************************************)
LEMMA MinIsLeft ==
  ASSUME NEW S \in SUBSET Nat, S # {}
  PROVE  Min(S) \in S
<1>1. PICK x \in S : \A y \in S : ~ (<<y, x>> \in OpToRel(<, Nat))
  BY NatLessThanWellFounded, WFMin
<1>2. \A y \in S : x <= y
  <2> SUFFICES ASSUME NEW y \in S, y < x PROVE FALSE
    OBVIOUS
  <2>1. <<y, x>> \in OpToRel(<, Nat)
    BY Zenon DEF OpToRel
  <2> QED
    BY <1>1, <2>1
<1> QED
  BY <1>2 DEF Min

(***************************************************************************)
(* Discarding takes a chunk from the files, and with it from those that     *)
(* were returned and allocated.                                             *)
(***************************************************************************)
LEMMA Discarded ==
  ASSUME NEW q \in QueueType, NEW is
  PROVE  LET r == Discard(q, is)
         IN  /\ r \in QueueType /\ r.senders = q.senders
             /\ r.files \subseteq q.files /\ r.returned \subseteq q.returned
             /\ r.allocated \subseteq q.allocated
             /\ \A i \in q.files \ r.files : i \notin r.returned /\ i \notin r.allocated
  BY DEF Discard, QueueType

LEMMA SendersDiscarded ==
  ASSUME NEW q \in QueueType, NEW ps
  PROVE  LET r == DiscardSenders(q, ps)
         IN  /\ r \in QueueType
             /\ r.files \subseteq q.files /\ r.returned \subseteq q.returned
             /\ r.allocated \subseteq q.allocated
             /\ \A i \in q.files \ r.files : i \notin r.returned /\ i \notin r.allocated
<1> DEFINE theirs == {i \in Index : q.senders[i] \in ps /\ i \notin q.returned}
           d == Discard(q, theirs)
           f == [i \in Index |-> IF i \in theirs THEN None ELSE q.senders[i]]
<1>1. DiscardSenders(q, ps) = [d EXCEPT !.senders = f]
  BY DEF DiscardSenders
<1>2. f \in [Index -> Peers \cup {None}]
  BY DEF QueueType
<1>3. /\ d \in QueueType
      /\ d.files \subseteq q.files /\ d.returned \subseteq q.returned
      /\ d.allocated \subseteq q.allocated
      /\ \A i \in q.files \ d.files : i \notin d.returned /\ i \notin d.allocated
  BY Discarded
<1> HIDE DEF d, f
<1> QED
  BY <1>1, <1>2, <1>3 DEF QueueType

-----------------------------------------------------------------------------
(***************************************************************************)
(* Steps that leave the restoration alone, and those that close the queue.  *)
(***************************************************************************)
LEMMA QuietKeeps ==
  ASSUME SyncInv, UNCHANGED <<pc, snapshot, chunks, current, applied>>
  PROVE  SyncInv'
  BY DEF SyncInv, SyncType, Applied, InHand, RestoredComplete

LEMMA CloseKeeps ==
  ASSUME GiveUp \/ FailSync
  PROVE  SyncInv'
<1>1. /\ chunks' = EmptyQueue /\ applied' = {}
      /\ pc' = "failed" \/ (pc' = "pick" /\ snapshot' = None)
  BY DEF GiveUp, FailSync, Close
<1>2. EmptyQueue \in QueueType /\ EmptyQueue.returned = {}
  BY DEF EmptyQueue, QueueType
<1> QED
  BY <1>1, <1>2 DEF SyncInv, SyncType, Applied, InHand, RestoredComplete, Restoring

LEMMA AddChunkKeeps ==
  ASSUME SyncInv, NEW p \in Peers, NEW s \in Snapshots, NEW i \in Index, AddChunk(p, s, i)
  PROVE  SyncInv'
<1>1. CASE pc \notin {"pick", "done", "failed"} /\ s = snapshot /\ i \notin chunks.files
  <2> DEFINE g == [chunks.senders EXCEPT ![i] = p]
  <2>1. /\ chunks' = [chunks EXCEPT !.files = @ \cup {i}, !.senders = g]
        /\ applied' = applied \ {i} /\ UNCHANGED <<pc, snapshot, current>>
    BY <1>1 DEF AddChunk, SyncInv, SyncType, QueueType
  <2>2. g \in [Index -> Peers \cup {None}]
    BY DEF SyncInv, SyncType, QueueType
  <2> HIDE DEF g
  <2>3. /\ chunks' \in QueueType /\ chunks'.files = chunks.files \cup {i}
        /\ chunks'.returned = chunks.returned
    BY <2>1, <2>2 DEF SyncInv, SyncType, QueueType
  <2> QED
    BY <1>1, <2>1, <2>3 DEF SyncInv, SyncType, Applied, InHand, RestoredComplete, Restoring
<1>2. CASE ~ (pc \notin {"pick", "done", "failed"} /\ s = snapshot /\ i \notin chunks.files)
  BY <1>2, QuietKeeps DEF AddChunk
<1> QED
  BY <1>1, <1>2

LEMMA NextChunkKeeps ==
  ASSUME Constants, SyncInv, NextChunk
  PROVE  SyncInv'
<1> DEFINE i == Min(Index \ chunks.returned)
<1>1. /\ chunks' = [chunks EXCEPT !.returned = @ \cup {i}]
      /\ current' = i /\ pc' = IF i \in chunks.files THEN "apply" ELSE "wait"
      /\ pc = "next" /\ UNCHANGED <<snapshot, applied>>
  BY DEF NextChunk
<1>2. i \in Index
  <2>1. Index \ chunks.returned \in SUBSET Nat /\ Index \ chunks.returned # {}
    <3>1. Index \in SUBSET Nat
      BY DEF Constants, Index
    <3>2. chunks.returned \in SUBSET Index /\ chunks.returned # Index
      BY DEF NextChunk, SyncInv, SyncType, QueueType
    <3> QED
      BY <3>1, <3>2
  <2> QED
    BY <2>1, MinIsLeft
<1> HIDE DEF i
<1>3. /\ chunks' \in QueueType /\ chunks'.files = chunks.files
      /\ chunks'.returned = chunks.returned \cup {i}
  BY <1>1, <1>2 DEF SyncInv, SyncType, QueueType
<1> QED
  BY <1>1, <1>2, <1>3 DEF SyncInv, SyncType, Applied, InHand, RestoredComplete, Restoring

LEMMA ApplyComplaintKeeps ==
  ASSUME SyncInv, ApplyComplaint
  PROVE  SyncInv'
<1>1. PICK refetch \in SUBSET Index, senders \in SUBSET Peers :
        LET q == DiscardSenders(Discard(chunks, refetch), senders)
        IN  \/ /\ current' = None
               /\ \/ pc' = "next" /\ chunks' = q /\ applied' = applied \cup {current}
                  \/ /\ pc' = "next" /\ chunks' = [q EXCEPT !.returned = @ \ {current}]
                     /\ UNCHANGED applied
                  \/ pc' = "pick" /\ chunks' = q /\ UNCHANGED applied
               /\ UNCHANGED snapshot
            \/ GiveUp
            \/ FailSync
  BY DEF ApplyComplaint
<1> DEFINE d == Discard(chunks, refetch)
           q == DiscardSenders(d, senders)
<1>2. chunks \in QueueType
  BY DEF SyncInv, SyncType
<1>3. /\ d \in QueueType
      /\ d.files \subseteq chunks.files /\ d.returned \subseteq chunks.returned
      /\ \A i \in chunks.files \ d.files : i \notin d.returned
  BY <1>2, Discarded
<1> HIDE DEF d
<1>4. /\ q \in QueueType
      /\ q.files \subseteq d.files /\ q.returned \subseteq d.returned
      /\ \A i \in d.files \ q.files : i \notin q.returned
  BY <1>3, SendersDiscarded
<1> HIDE DEF q
<1>5. /\ pc = "apply" /\ current \in Index /\ current \in chunks.files
      /\ chunks.returned \ {current} \subseteq chunks.files \cap applied
      /\ applied \in SUBSET Index /\ snapshot # None
  BY DEF ApplyComplaint, SyncInv, SyncType, Applied, InHand, Restoring
<1>6. q.returned \subseteq q.files /\ q.returned \ {current} \subseteq applied
  BY <1>3, <1>4, <1>5
<1>7. CASE GiveUp \/ FailSync
  BY <1>7, CloseKeeps
<1>8. CASE /\ pc' = "next" /\ chunks' = q /\ applied' = applied \cup {current}
           /\ UNCHANGED snapshot
  BY <1>4, <1>5, <1>6, <1>8
     DEF SyncInv, SyncType, Applied, InHand, RestoredComplete, Restoring
<1>9. CASE /\ pc' = "next" /\ chunks' = [q EXCEPT !.returned = @ \ {current}]
           /\ UNCHANGED <<applied, snapshot>>
  <2>1. chunks' \in QueueType /\ chunks'.files = q.files /\ chunks'.returned = q.returned \ {current}
    BY <1>4, <1>9 DEF QueueType
  <2> QED
    BY <1>4, <1>5, <1>6, <1>9, <2>1
       DEF SyncInv, SyncType, Applied, InHand, RestoredComplete, Restoring
<1>10. CASE pc' = "pick" /\ chunks' = q /\ UNCHANGED <<applied, snapshot>>
  BY <1>4, <1>5, <1>10 DEF SyncInv, SyncType, Applied, InHand, RestoredComplete, Restoring
<1> QED
  BY <1>1, <1>7, <1>8, <1>9, <1>10 DEF d, q

LEMMA SyncStepKeeps ==
  ASSUME Constants, SyncInv, [SyncNext]_syncVars
  PROVE  SyncInv'
<1>1. ASSUME NEW p \in Peers, RemovePeer(p) PROVE SyncInv'
  BY <1>1, QuietKeeps DEF RemovePeer
<1>2. ASSUME NEW p \in Peers, NEW s \in Snapshots, AddSnapshot(p, s) PROVE SyncInv'
  BY <1>2, QuietKeeps DEF AddSnapshot
<1>3. ASSUME NEW p \in Peers, NEW s \in Snapshots, NEW i \in Index, AddChunk(p, s, i) PROVE SyncInv'
  BY <1>3, AddChunkKeeps
<1>4. ASSUME NEW f \in fetchers, FetchArrived(f) \/ FetchAgain(f) \/ FetchExit(f) PROVE SyncInv'
  BY <1>4, QuietKeeps DEF FetchArrived, FetchAgain, FetchExit
<1>5. ASSUME NEW f \in fetchers, FetchAllocate(f) PROVE SyncInv'
  <2> DEFINE i == Min(Index \ chunks.allocated)
  <2>1. /\ chunks' = [chunks EXCEPT !.allocated = @ \cup {i}]
        /\ UNCHANGED <<pc, snapshot, current, applied>>
    BY <1>5 DEF FetchAllocate
  <2>2. i \in Index
    <3>1. Index \in SUBSET Nat
      BY DEF Constants, Index
    <3>2. chunks.allocated \in SUBSET Index /\ chunks.allocated # Index
      BY <1>5 DEF FetchAllocate, SyncInv, SyncType, QueueType
    <3>3. Index \ chunks.allocated \in SUBSET Nat /\ Index \ chunks.allocated # {}
      BY <3>1, <3>2
    <3> QED
      BY <3>3, MinIsLeft
  <2> HIDE DEF i
  <2>3. chunks' \in QueueType /\ chunks'.files = chunks.files /\ chunks'.returned = chunks.returned
    BY <2>1, <2>2 DEF SyncInv, SyncType, QueueType
  <2> QED
    BY <2>1, <2>3 DEF SyncInv, SyncType, Applied, InHand, RestoredComplete
<1>6. ASSUME NEW s \in Snapshots, PickSnapshot(s) PROVE SyncInv'
  BY <1>6 DEF PickSnapshot, Constants, SyncInv, SyncType, Applied, InHand, RestoredComplete, Restoring
<1>7. ASSUME RetrySnapshot PROVE SyncInv'
  <2>1. chunks' \in QueueType /\ chunks'.returned = {}
    BY <1>7 DEF RetrySnapshot, SyncInv, SyncType, QueueType
  <2> QED
    BY <1>7, <2>1 DEF RetrySnapshot, SyncInv, SyncType, Applied, InHand, RestoredComplete, Restoring
<1>8. ASSUME OfferAccepted PROVE SyncInv'
  BY <1>8 DEF OfferAccepted, SyncInv, SyncType, Applied, InHand, RestoredComplete, Restoring
<1>9. ASSUME OfferRejected \/ NextTimeout PROVE SyncInv'
  BY <1>9, CloseKeeps DEF OfferRejected, NextTimeout
<1>10. ASSUME StateBuilt PROVE SyncInv'
  <2>1. CASE pc = "build" /\ pc' = "next" /\ UNCHANGED <<snapshot, chunks, current, applied>>
    BY <2>1 DEF SyncInv, SyncType, Applied, InHand, RestoredComplete, Restoring
  <2> QED
    BY <1>10, <2>1, CloseKeeps DEF StateBuilt
<1>11. ASSUME NextChunk PROVE SyncInv'
  BY <1>11, NextChunkKeeps
<1>12. ASSUME NextArrived PROVE SyncInv'
  BY <1>12 DEF NextArrived, SyncInv, SyncType, Applied, InHand, RestoredComplete, Restoring
<1>13. ASSUME ApplyAccepted PROVE SyncInv'
  BY <1>13 DEF ApplyAccepted, SyncInv, SyncType, Applied, InHand, RestoredComplete, Restoring
<1>14. ASSUME ApplyComplaint PROVE SyncInv'
  BY <1>14, ApplyComplaintKeeps
<1>15. ASSUME VerifyApp PROVE SyncInv'
  <2>1. EmptyQueue \in QueueType
    BY DEF EmptyQueue, QueueType
  <2>2. applied = Index
    BY <1>15 DEF VerifyApp, SyncInv, SyncType, Applied, InHand, Restoring
  <2> QED
    BY <1>15, <2>1, <2>2 DEF VerifyApp, SyncInv, SyncType, Applied, InHand, RestoredComplete, Restoring
<1>16. CASE UNCHANGED syncVars
  BY <1>16, QuietKeeps DEF syncVars
<1> QED
  BY <1>1, <1>2, <1>3, <1>4, <1>5, <1>6, <1>7, <1>8, <1>9, <1>10, <1>11, <1>12, <1>13, <1>14,
     <1>15, <1>16 DEF SyncNext

(***************************************************************************)
(* When the syncer reports success, the application has accepted every      *)
(* chunk of the snapshot, in the copy that is in the queue.                 *)
(***************************************************************************)
THEOREM SnapshotRestoredComplete ==
  ASSUME Constants
  PROVE  SyncSpec => []RestoredComplete
<1>1. SyncInit => SyncInv
  BY DEF SyncInit, EmptyQueue, QueueType, SyncInv, SyncType, Applied, InHand, RestoredComplete, Restoring
<1>2. SyncInv /\ [SyncNext]_syncVars => SyncInv'
  BY SyncStepKeeps
<1>3. SyncInv => RestoredComplete
  BY DEF SyncInv
<1> QED
  BY <1>1, <1>2, <1>3, PTL DEF SyncSpec

-----------------------------------------------------------------------------
(***************************************************************************)
(* Fetching.  Steps that keep the fetchers and what is allocated, and take  *)
(* nothing from the files; those that close the queue.                      *)
(***************************************************************************)
LEMMA QuietFetch ==
  ASSUME FetchInv, SyncInv', UNCHANGED <<snapshot, attempt, fetchers>>,
         pc' = pc \/ (pc \in {"build"} \cup Restoring /\ pc' \in Restoring \cup {"done", "failed"}),
         chunks'.allocated = chunks.allocated, chunks.files \subseteq chunks'.files
  PROVE  FetchInv'
<1>1. Waited => Waited'
  BY DEF Waited
<1> QED
  BY <1>1 DEF FetchInv, Restoring

LEMMA CloseFetch ==
  ASSUME FetchInv, SyncInv', GiveUp \/ FailSync
  PROVE  FetchInv'
<1>1. /\ fetchers' = {} /\ chunks'.allocated = {}
      /\ \/ pc' = "failed" /\ attempt' = attempt
         \/ pc' = "pick" /\ snapshot' = None /\ attempt' = 0
  BY DEF GiveUp, FailSync, Close, EmptyQueue
<1> QED
  BY <1>1 DEF FetchInv, Restoring

LEMMA AllocateFetch ==
  ASSUME Constants, FetchInv, SyncInv', NEW f \in fetchers, FetchAllocate(f)
  PROVE  FetchInv'
<1> DEFINE i == Min(Index \ chunks.allocated)
           g == [f EXCEPT !.pc = "wait", !.index = i]
<1>1. /\ chunks' = [chunks EXCEPT !.allocated = @ \cup {i}]
      /\ fetchers' = (fetchers \ {f}) \cup {g}
      /\ f.pc = "allocate"
      /\ UNCHANGED <<pc, snapshot, attempt>>
  BY DEF FetchAllocate
<1>2. i \in Index
  <2>1. Index \in SUBSET Nat
    BY DEF Constants, Index
  <2>2. chunks.allocated \in SUBSET Index /\ chunks.allocated # Index
    BY DEF FetchAllocate, FetchInv, SyncInv, SyncType, QueueType
  <2>3. Index \ chunks.allocated \in SUBSET Nat /\ Index \ chunks.allocated # {}
    BY <2>1, <2>2
  <2> QED
    BY <2>3, MinIsLeft
<1>3. f \in Fetcher
  BY DEF FetchInv
<1> HIDE DEF i
<1>4. g \in Fetcher /\ g.pc = "wait" /\ g.index = i /\ g.ctx = f.ctx
  BY <1>2, <1>3 DEF Fetcher
<1> HIDE DEF g
<1>5. chunks'.files = chunks.files /\ chunks'.allocated = chunks.allocated \cup {i}
  BY <1>1 DEF FetchInv, SyncInv, SyncType, QueueType
<1>6. Waited => Waited'
  BY <1>1, <1>4, <1>5 DEF Waited
<1>7. /\ ~ (pc = "pick" /\ snapshot = None)
      /\ ~ (pc = "offer" /\ attempt = 1)
  BY DEF FetchInv
<1>8. fetchers' \in SUBSET Fetcher /\ (attempt = 1 => \A h \in fetchers' : h.ctx = 1)
  BY <1>1, <1>4 DEF FetchInv
<1> QED
  BY <1>1, <1>6, <1>7, <1>8 DEF FetchInv

LEMMA ArrivedFetch ==
  ASSUME FetchInv, SyncInv', NEW f \in fetchers, FetchArrived(f)
  PROVE  FetchInv'
<1> DEFINE g == [f EXCEPT !.pc = "allocate", !.index = None]
<1>1. /\ fetchers' = (fetchers \ {f}) \cup {g} /\ f.index \in chunks.files
      /\ UNCHANGED <<pc, snapshot, attempt, chunks>>
  BY DEF FetchArrived
<1>2. f \in Fetcher
  BY DEF FetchInv
<1>3. g \in Fetcher /\ g.ctx = f.ctx
  BY <1>2 DEF Fetcher
<1> HIDE DEF g
<1>4. Waited => Waited'
  BY <1>1 DEF Waited
<1>5. /\ ~ (pc = "pick" /\ snapshot = None)
      /\ ~ (pc = "offer" /\ attempt = 1)
  BY DEF FetchInv
<1>6. fetchers' \in SUBSET Fetcher /\ (attempt = 1 => \A h \in fetchers' : h.ctx = 1)
  BY <1>1, <1>3 DEF FetchInv
<1> QED
  BY <1>1, <1>4, <1>5, <1>6 DEF FetchInv

LEMMA ExitFetch ==
  ASSUME FetchInv, SyncInv', NEW f \in fetchers, FetchExit(f)
  PROVE  FetchInv'
<1>1. /\ fetchers' = fetchers \ {f} /\ ~ Live(f)
      /\ UNCHANGED <<pc, snapshot, attempt, chunks>>
  BY DEF FetchExit
<1>2. ~ (pc \in {"build"} \cup Restoring /\ attempt = 1)
  BY <1>1 DEF Live, FetchInv, Restoring
<1> QED
  BY <1>1, <1>2 DEF FetchInv

LEMMA ComplaintFetch ==
  ASSUME FetchInv, SyncInv', ApplyComplaint
  PROVE  FetchInv'
<1>1. PICK refetch \in SUBSET Index, senders \in SUBSET Peers :
        LET q == DiscardSenders(Discard(chunks, refetch), senders)
        IN  \/ /\ \/ pc' = "next" /\ chunks' = q
                  \/ pc' = "next" /\ chunks' = [q EXCEPT !.returned = @ \ {current}]
                  \/ pc' = "pick" /\ chunks' = q
               /\ UNCHANGED <<snapshot, attempt, fetchers>>
            \/ GiveUp
            \/ FailSync
  BY DEF ApplyComplaint
<1> DEFINE d == Discard(chunks, refetch)
           q == DiscardSenders(d, senders)
<1>2. chunks \in QueueType /\ pc = "apply" /\ snapshot # None
  BY DEF FetchInv, SyncInv, SyncType, ApplyComplaint, Restoring
<1>3. /\ d \in QueueType /\ d.allocated \subseteq chunks.allocated
      /\ d.files \subseteq chunks.files /\ \A i \in chunks.files \ d.files : i \notin d.allocated
  BY <1>2, Discarded
<1> HIDE DEF d
<1>4. /\ q \in QueueType /\ q.allocated \subseteq d.allocated
      /\ q.files \subseteq d.files /\ \A i \in d.files \ q.files : i \notin q.allocated
  BY <1>3, SendersDiscarded
<1> HIDE DEF q
<1>5. CASE GiveUp \/ FailSync
  BY <1>5, CloseFetch
<1>6. CASE /\ pc' \in {"next", "pick"}
           /\ chunks' = q \/ chunks' = [q EXCEPT !.returned = @ \ {current}]
           /\ UNCHANGED <<snapshot, attempt, fetchers>>
  <2>1. chunks'.files = q.files /\ chunks'.allocated = q.allocated
    BY <1>4, <1>6 DEF QueueType
  <2>2. Waited => Waited'
    BY <1>3, <1>4, <1>6, <2>1 DEF Waited
  <2>3. attempt >= 1 /\ attempt' = attempt /\ fetchers' = fetchers /\ snapshot' # None
    BY <1>2, <1>6 DEF FetchInv, Restoring
  <2>4. attempt = 1 => Waited'
    BY <1>2, <2>2 DEF FetchInv, Restoring
  <2> QED
    BY <1>1, <1>6, <2>3, <2>4 DEF FetchInv, Restoring
<1> QED
  BY <1>1, <1>5, <1>6 DEF d, q

LEMMA FetchStepKeeps ==
  ASSUME Constants, FetchInv, [SyncNext]_syncVars
  PROVE  FetchInv'
<1>1. SyncInv'
  BY SyncStepKeeps DEF FetchInv
<1>2. chunks.files \subseteq chunks.files
  OBVIOUS
<1>3. CASE \/ \E p \in Peers : RemovePeer(p)
           \/ \E p \in Peers, s \in Snapshots : AddSnapshot(p, s)
           \/ \E f \in fetchers : FetchAgain(f)
           \/ UNCHANGED syncVars
  BY <1>1, <1>2, <1>3, QuietFetch DEF RemovePeer, AddSnapshot, FetchAgain, syncVars
<1>4. ASSUME NEW p \in Peers, NEW s \in Snapshots, NEW i \in Index, AddChunk(p, s, i) PROVE FetchInv'
  <2> DEFINE g == [chunks.senders EXCEPT ![i] = p]
  <2>0. chunks' = chunks \/ chunks' = [chunks EXCEPT !.files = @ \cup {i}, !.senders = g]
    BY <1>4 DEF AddChunk, FetchInv, SyncInv, SyncType, QueueType
  <2> HIDE DEF g
  <2>1. chunks'.allocated = chunks.allocated /\ chunks.files \subseteq chunks'.files
    BY <2>0 DEF FetchInv, SyncInv, SyncType, QueueType
  <2> QED
    BY <1>1, <1>4, <2>1, QuietFetch DEF AddChunk
<1>5. ASSUME NEW f \in fetchers, FetchAllocate(f) \/ FetchArrived(f) \/ FetchExit(f) PROVE FetchInv'
  BY <1>1, <1>5, AllocateFetch, ArrivedFetch, ExitFetch
<1>6. ASSUME NEW s \in Snapshots, PickSnapshot(s) PROVE FetchInv'
  <2>1. /\ pc = "pick" /\ snapshot = None /\ pc' = "offer" /\ attempt' = 1
        /\ fetchers' = fetchers /\ chunks' = chunks
    BY <1>6 DEF PickSnapshot
  <2>2. fetchers' = {} /\ chunks'.allocated = {}
    BY <1>1, <2>1 DEF FetchInv
  <2>3. pc' \notin {"build"} \cup Restoring
    BY <2>1 DEF Restoring
  <2>4. attempt' \in Nat /\ attempt' >= 1
    BY <2>1
  <2>5. \A f \in fetchers' : f.ctx = 1
    BY <2>2
  <2> QED
    BY <1>1, <2>2, <2>3, <2>4, <2>5 DEF FetchInv
<1>7. ASSUME RetrySnapshot PROVE FetchInv'
  <2>1. attempt \in Nat /\ attempt >= 1 /\ attempt' = attempt + 1 /\ pc' = "offer" /\ fetchers' = fetchers
    BY <1>7 DEF RetrySnapshot, FetchInv
  <2>2. attempt' \in Nat /\ attempt' >= 1 /\ attempt' # 1
    BY <2>1
  <2> QED
    BY <1>1, <2>1, <2>2 DEF FetchInv, Restoring
<1>8. ASSUME OfferAccepted PROVE FetchInv'
  <2>1. /\ pc = "offer" /\ pc' = "build" /\ UNCHANGED <<snapshot, attempt, chunks>>
        /\ fetchers' = fetchers \cup
             {[by |-> f, ctx |-> attempt, pc |-> "allocate", index |-> None] : f \in Fetchers}
    BY <1>8 DEF OfferAccepted
  <2>2. fetchers' \in SUBSET Fetcher
    BY <2>1 DEF FetchInv, Fetcher
  <2>3. attempt = 1 => \A f \in fetchers' : f.ctx = 1
    BY <2>1 DEF FetchInv
  <2>4. attempt = 1 => Waited'
    BY <2>1 DEF FetchInv, Waited
  <2> QED
    BY <1>1, <2>1, <2>2, <2>3, <2>4 DEF FetchInv, Restoring
<1>9. ASSUME OfferRejected \/ NextTimeout PROVE FetchInv'
  BY <1>1, <1>9, CloseFetch DEF OfferRejected, NextTimeout
<1>10. ASSUME StateBuilt PROVE FetchInv'
  <2>1. CASE pc = "build" /\ pc' = "next" /\ UNCHANGED <<snapshot, attempt, chunks, fetchers>>
    BY <1>1, <1>2, <2>1, QuietFetch DEF Restoring
  <2> QED
    BY <1>1, <1>10, <2>1, CloseFetch DEF StateBuilt
<1>11. ASSUME NextChunk \/ NextArrived \/ ApplyAccepted PROVE FetchInv'
  <2>1. /\ chunks'.files = chunks.files /\ chunks'.allocated = chunks.allocated
        /\ UNCHANGED <<snapshot, attempt, fetchers>> /\ pc \in Restoring /\ pc' \in Restoring
    BY <1>11 DEF NextChunk, NextArrived, ApplyAccepted, FetchInv, SyncInv, SyncType, QueueType, Restoring
  <2> QED
    BY <1>1, <2>1, QuietFetch
<1>12. ASSUME ApplyComplaint PROVE FetchInv'
  BY <1>1, <1>12, ComplaintFetch
<1>13. ASSUME VerifyApp PROVE FetchInv'
  BY <1>1, <1>13 DEF VerifyApp, FetchInv, Restoring
<1> QED
  BY <1>3, <1>4, <1>5, <1>6, <1>7, <1>8, <1>9, <1>10, <1>11, <1>12, <1>13 DEF SyncNext

(***************************************************************************)
(* While a snapshot is restored for the first time, a chunk that is not in  *)
(* the queue can be allocated or is waited for by a live fetcher.           *)
(***************************************************************************)
THEOREM MissingChunksFetched ==
  ASSUME Constants
  PROVE  SyncSpec => []MissingIsFetched
<1>1. SyncInit => FetchInv
  <2>1. SyncInit => SyncInv
    BY DEF SyncInit, EmptyQueue, QueueType, SyncInv, SyncType, Applied, InHand, RestoredComplete, Restoring
  <2>2. ASSUME SyncInit
        PROVE  /\ pc = "pick" /\ attempt = 0 /\ fetchers = {} /\ chunks.allocated = {}
               /\ snapshot = None
    BY <2>2 DEF SyncInit, EmptyQueue
  <2>3. ASSUME SyncInit PROVE FetchInv
    BY <2>1, <2>2, <2>3 DEF FetchInv, Restoring
  <2> QED
    BY <2>3
<1>2. FetchInv /\ [SyncNext]_syncVars => FetchInv'
  BY FetchStepKeeps
<1>3. FetchInv => MissingIsFetched
  BY DEF FetchInv, Waited, MissingIsFetched, Live, Restoring
<1> QED
  BY <1>1, <1>2, <1>3, PTL DEF SyncSpec
=============================================================================

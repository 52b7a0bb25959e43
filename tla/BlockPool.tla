---------------------------- MODULE BlockPool ----------------------------
(***************************************************************************)
(* The fast sync of blockchain/v0: the pool that asks peers for blocks     *)
(* (pool.go) and the reactor's routine that verifies and applies them      *)
(* (reactor.go).                                                           *)
(*                                                                         *)
(* Every operation that holds pool.mtx is one action.  The goroutine of a  *)
(* requester takes several: it picks a peer under pool.mtx, records it     *)
(* under its own mutex, and on a redo receives the message before it       *)
(* resets itself; the pool may run between any two of them.  The routine   *)
(* of the reactor peeks, then pops or redoes, in separate critical         *)
(* sections too.                                                           *)
(*                                                                         *)
(* A block is reduced to whether its commit verifies.  Peers in Good       *)
(* answer every request with the block of the chain and reconnect when     *)
(* dropped; the others may answer anything, be silent, and leave.  Status  *)
(* messages of a peer always report Claimed[p].                            *)
(***************************************************************************)
EXTENDS Integers, FiniteSets, FiniteSetsExt, Functions

CONSTANTS
  Good, Bad,     \* the peers that serve the chain, and the others
  Claimed,       \* the height each peer reports
  MaxTotal,      \* maxTotalRequesters
  MaxPending,    \* maxPendingRequests
  MaxPerPeer,    \* maxPendingRequestsPerPeer
  MaxJoins,      \* bound: how often peers outside Good enter the pool
  Absent

PoolPeers == Good \cup Bad

VARIABLES
  height, requesters, peers, maxPeerHeight, numPending,  \* BlockPool
  connected,     \* the switch's peer set
  errors,        \* peers with an error in errorsCh
  asked,         \* block requests sent and not answered: <<peer, height>>
  routine,       \* the reactor's poolRoutine
  status,        \* "syncing", "switched" to consensus, or "crashed"
  joins

pool == <<height, requesters, peers, maxPeerHeight, numPending>>
blockPoolVars == <<height, requesters, peers, maxPeerHeight, numPending, connected, errors, asked,
          routine, status, joins>>

NewRequester == [pc |-> "pick", picked |-> Absent, peer |-> Absent, block |-> Absent, redo |-> Absent]

NewPeer(p) == [height |-> Claimed[p], numPending |-> 0, didTimeout |-> FALSE,
               monitor |-> FALSE, timer |-> FALSE]

Idle == [pc |-> "peek", at |-> 0, ok |-> FALSE, peer |-> Absent]

FastSyncInit ==
  /\ height = 1 /\ requesters = <<>> /\ peers = <<>>
  /\ maxPeerHeight = 0 /\ numPending = 0
  /\ connected = PoolPeers /\ errors = {} /\ asked = {}
  /\ routine = Idle /\ status = "syncing" /\ joins = 0

----------------------------------------------------------------------------
(* Helpers on the pool *)

\* redo: a message to each requester whose recorded peer is gone, unless its channel is full
RedoAll(rs, gone) ==
  [h \in DOMAIN rs |-> IF rs[h].peer \in gone /\ rs[h].redo = Absent
                       THEN [rs[h] EXCEPT !.redo = rs[h].peer] ELSE rs[h]]

BestHeight(ps) == Max({0} \cup {ps[p].height : p \in DOMAIN ps})

(***************************************************************************)
(* Mutant: the height of the tallest peer stays when that peer leaves.     *)
(***************************************************************************)
MaxAfterStale(gone) == maxPeerHeight

\* updateMaxPeerHeight, when a peer of the greatest height is removed
MaxAfter(gone) ==
  IF \E p \in gone \cap DOMAIN peers : peers[p].height = maxPeerHeight
  THEN BestHeight(Restrict(peers, DOMAIN peers \ gone))
  ELSE maxPeerHeight

RemovePeers(gone) ==
  /\ requesters' = RedoAll(requesters, gone)
  /\ peers' = Restrict(peers, DOMAIN peers \ gone)
  /\ maxPeerHeight' = MaxAfter(gone)

\* the switch stops a peer: its connection is closed and every reactor told
Drop(p) ==
  /\ connected' = connected \ {p}
  /\ asked' = {a \in asked : a[1] # p}
  /\ RemovePeers({p})

TimedOut == {p \in DOMAIN peers : peers[p].didTimeout}

Available(h) == {p \in DOMAIN peers \ TimedOut :
                   peers[p].numPending < MaxPerPeer /\ h <= peers[p].height}

AtLimit == numPending >= MaxPending \/ Cardinality(DOMAIN requesters) >= MaxTotal

BlockAt(h) == IF h \in DOMAIN requesters THEN requesters[h].block ELSE Absent

IsCaughtUp == DOMAIN peers # {} /\ (maxPeerHeight = 0 \/ height >= maxPeerHeight - 1)

Running == status = "syncing"

----------------------------------------------------------------------------
(* Peers *)

\* no goroutine of the pool has anything to do but wait for peers
Quiet ==
  /\ errors = {} /\ routine.pc = "peek" /\ ~IsCaughtUp
  /\ BlockAt(height) = Absent \/ BlockAt(height + 1) = Absent
  /\ \A h \in DOMAIN requesters :
       \/ requesters[h].pc = "wait" /\ requesters[h].redo = Absent
       \/ requesters[h].pc = "pick" /\ Available(h) = {}

\* a reconnection takes longer than the pool's own goroutines need
Connect(p) ==
  /\ Running /\ p \notin connected /\ Quiet
  /\ connected' = connected \cup {p}
  /\ UNCHANGED <<pool, errors, asked, routine, status, joins>>

\* SetPeerRange, on a status response
SetPeerRange(p) ==
  /\ Running /\ p \in connected /\ p \notin DOMAIN peers
  /\ p \in Good \/ joins < MaxJoins
  /\ joins' = IF p \in Good THEN joins ELSE joins + 1
  /\ peers' = [q \in DOMAIN peers \cup {p} |-> IF q = p THEN NewPeer(p) ELSE peers[q]]
  /\ maxPeerHeight' = Max({maxPeerHeight, Claimed[p]})
  /\ UNCHANGED <<height, requesters, numPending, connected, errors, asked, routine, status>>

Leave(p) ==
  /\ Running /\ p \in connected \cap Bad
  /\ Drop(p)
  /\ UNCHANGED <<height, numPending, errors, routine, status, joins>>

\* the reactor reads errorsCh and has the switch stop the peer
HandleError(p) ==
  /\ Running /\ p \in errors
  /\ errors' = errors \ {p}
  /\ IF p \in connected THEN Drop(p) ELSE UNCHANGED <<connected, asked, requesters, peers, maxPeerHeight>>
  /\ UNCHANGED <<height, numPending, routine, status, joins>>

\* the timer of a peer fires; a peer in Good answers well within peerTimeout, so
\* that its timer fires only for a request that was counted and not sent, or twice
OnTimeout(p) ==
  /\ Running /\ p \in DOMAIN peers /\ peers[p].timer
  /\ p \in Bad \/ (Quiet /\ \A a \in asked : a[1] # p)
  /\ peers' = [peers EXCEPT ![p].didTimeout = TRUE, ![p].timer = FALSE]
  /\ errors' = errors \cup {p}
  /\ UNCHANGED <<height, requesters, maxPeerHeight, numPending, connected, asked, routine, status, joins>>

----------------------------------------------------------------------------
(* makeRequestersRoutine *)

MakeNextRequester ==
  /\ Running /\ ~AtLimit
  /\ LET next == height + Cardinality(DOMAIN requesters)
     IN  /\ next <= maxPeerHeight
         /\ requesters' = [h \in DOMAIN requesters \cup {next} |->
                             IF h = next THEN NewRequester ELSE requesters[h]]
  /\ numPending' = numPending + 1
  /\ UNCHANGED <<height, peers, maxPeerHeight, connected, errors, asked, routine, status, joins>>

\* slow: the peers whose rate of sending is found to be too low
RemoveTimedoutPeers ==
  /\ Running /\ AtLimit
  /\ \E slow \in SUBSET {p \in (Bad \cap DOMAIN peers) \ TimedOut : peers[p].numPending > 0} :
       /\ TimedOut \cup slow # {}
       /\ errors' = errors \cup slow
       /\ RemovePeers(TimedOut \cup slow)
  /\ UNCHANGED <<height, numPending, connected, asked, routine, status, joins>>

----------------------------------------------------------------------------
(* requestRoutine of the requester of height h *)

\* pickIncrAvailablePeer: the peers are visited in any order, and those that
\* timed out are removed until one is found that can take the request
PickPeer(h) ==
  /\ Running /\ h \in DOMAIN requesters /\ requesters[h].pc = "pick"
  /\ \/ /\ Available(h) = {} /\ TimedOut # {}
        /\ RemovePeers(TimedOut)
     \/ \E p \in Available(h), gone \in SUBSET TimedOut :
          LET left == Restrict(peers, DOMAIN peers \ gone)
          IN  /\ requesters' = [RedoAll(requesters, gone) EXCEPT ![h].pc = "assign", ![h].picked = p]
              /\ peers' = [left EXCEPT ![p].numPending = @ + 1,
                             ![p].monitor = TRUE,
                             ![p].timer = IF left[p].numPending = 0 THEN TRUE ELSE @]
              /\ maxPeerHeight' = MaxAfter(gone)
  /\ UNCHANGED <<height, numPending, connected, errors, asked, routine, status, joins>>

\* the peer is recorded and the request sent; a request to a peer that is not
\* there is dropped, and so it is when the queue of a slow one is full
AssignPeer(h) ==
  /\ Running /\ h \in DOMAIN requesters /\ requesters[h].pc = "assign"
  /\ LET p == requesters[h].picked
     IN  /\ requesters' = [requesters EXCEPT ![h].peer = p, ![h].picked = Absent, ![h].pc = "wait"]
         /\ \/ p \in connected /\ asked' = asked \cup {<<p, h>>}
            \/ p \notin connected \cap Good /\ asked' = asked
  /\ UNCHANGED <<height, peers, maxPeerHeight, numPending, connected, errors, routine, status, joins>>

\* a redo of an earlier peer is ignored
ReceiveRedo(h) ==
  /\ Running /\ h \in DOMAIN requesters
  /\ requesters[h].pc = "wait" /\ requesters[h].redo # Absent
  /\ requesters' = [requesters EXCEPT ![h].redo = Absent,
                      ![h].pc = IF requesters[h].redo = requesters[h].peer THEN "reset" ELSE "wait"]
  /\ UNCHANGED <<height, peers, maxPeerHeight, numPending, connected, errors, asked, routine,
                 status, joins>>

(***************************************************************************)
(* Mutant: a block that is thrown away is not counted as pending again.    *)
(***************************************************************************)
ResetUncounted(h) ==
  /\ Running /\ h \in DOMAIN requesters /\ requesters[h].pc = "reset"
  /\ requesters' = [requesters EXCEPT ![h].peer = Absent, ![h].block = Absent, ![h].pc = "pick"]
  /\ UNCHANGED <<height, peers, maxPeerHeight, numPending, connected, errors, asked, routine,
                 status, joins>>

Reset(h) ==
  /\ Running /\ h \in DOMAIN requesters /\ requesters[h].pc = "reset"
  /\ numPending' = IF requesters[h].block # Absent THEN numPending + 1 ELSE numPending
  /\ requesters' = [requesters EXCEPT ![h].peer = Absent, ![h].block = Absent, ![h].pc = "pick"]
  /\ UNCHANGED <<height, peers, maxPeerHeight, connected, errors, asked, routine, status, joins>>

----------------------------------------------------------------------------
(* AddBlock *)

\* decrPending: a peer record that was never asked has no rate monitor, and
\* updating it dereferences nil
DecrPending(p) ==
  LET n == peers[p].numPending - 1
  IN  IF n # 0 /\ ~peers[p].monitor
      THEN status' = "crashed" /\ UNCHANGED peers
      ELSE /\ peers' = [peers EXCEPT ![p].numPending = n, ![p].timer = n # 0]
           /\ UNCHANGED status

AddBlock(p, h, b) ==
  /\ Running /\ <<p, h>> \in asked
  /\ asked' = asked \ {<<p, h>>}
  /\ \/ /\ h \notin DOMAIN requesters    \* not expected any more
        /\ UNCHANGED <<requesters, peers, numPending, errors, status>>
     \/ /\ h \in DOMAIN requesters
        /\ requesters[h].block = Absent /\ requesters[h].peer = p
        /\ requesters' = [requesters EXCEPT ![h].block = b]
        /\ numPending' = numPending - 1
        /\ IF p \in DOMAIN peers THEN DecrPending(p) ELSE UNCHANGED <<peers, status>>
        /\ UNCHANGED errors
     \/ /\ h \in DOMAIN requesters        \* invalid peer
        /\ requesters[h].block # Absent \/ requesters[h].peer # p
        /\ errors' = errors \cup {p}
        /\ UNCHANGED <<requesters, peers, numPending, status>>
  /\ UNCHANGED <<height, maxPeerHeight, connected, routine, joins>>

----------------------------------------------------------------------------
(* poolRoutine *)

\* PeekTwoBlocks, and the verification of the first with the commit of the second
PeekTwoBlocks ==
  /\ Running /\ routine.pc = "peek"
  /\ BlockAt(height) # Absent /\ BlockAt(height + 1) # Absent
  /\ routine' = [Idle EXCEPT !.pc = IF BlockAt(height) = "good" /\ BlockAt(height + 1) = "good"
                                    THEN "pop" ELSE "redo", !.at = height]
  /\ UNCHANGED <<pool, connected, errors, asked, status, joins>>

\* PopRequest, SaveBlock, ApplyBlock
PopRequest ==
  /\ Running /\ routine.pc = "pop"
  /\ requesters' = Restrict(requesters, DOMAIN requesters \ {height})
  /\ height' = height + 1
  /\ routine' = Idle
  /\ UNCHANGED <<peers, maxPeerHeight, numPending, connected, errors, asked, status, joins>>

\* RedoRequest
RedoRequest ==
  /\ Running /\ routine.pc = "redo"
  /\ routine' = [routine EXCEPT !.pc = "stop", !.peer = requesters[routine.at].peer]
  /\ IF requesters[routine.at].peer # Absent
     THEN RemovePeers({requesters[routine.at].peer})
     ELSE UNCHANGED <<requesters, peers, maxPeerHeight>>
  /\ UNCHANGED <<height, numPending, connected, errors, asked, status, joins>>

\* StopPeerForError; then the same for the second block
StopPeerForError ==
  /\ Running /\ routine.pc = "stop"
  /\ IF routine.peer \in connected
     THEN Drop(routine.peer)
     ELSE UNCHANGED <<connected, asked, requesters, peers, maxPeerHeight>>
  /\ routine' = IF routine.at = height THEN [Idle EXCEPT !.pc = "redo", !.at = height + 1] ELSE Idle
  /\ UNCHANGED <<height, numPending, errors, status, joins>>

SwitchToConsensus ==
  /\ Running /\ routine.pc = "peek" /\ IsCaughtUp
  /\ status' = "switched"
  /\ UNCHANGED <<pool, connected, errors, asked, routine, joins>>

----------------------------------------------------------------------------
PoolHeights == 1 .. Max({Claimed[p] : p \in PoolPeers})

Blocks(p) == IF p \in Good THEN {"good"} ELSE {"good", "bad"}

FastSyncNext ==
  \/ \E p \in PoolPeers : \/ Connect(p) \/ SetPeerRange(p) \/ Leave(p)
                          \/ HandleError(p) \/ OnTimeout(p)
                          \/ \E h \in PoolHeights : \E b \in Blocks(p) : AddBlock(p, h, b)
  \/ MakeNextRequester \/ RemoveTimedoutPeers
  \/ \E h \in PoolHeights : PickPeer(h) \/ AssignPeer(h) \/ ReceiveRedo(h) \/ Reset(h)
  \/ PeekTwoBlocks \/ PopRequest \/ RedoRequest \/ StopPeerForError \/ SwitchToConsensus

(***************************************************************************)
(* The goroutines run, timers fire, and the peers in Good connect, report  *)
(* their height and answer.                                                *)
(***************************************************************************)
FastSyncFairness ==
  /\ \A p \in Good :
       /\ WF_blockPoolVars(Connect(p))
       /\ \A h \in PoolHeights : WF_blockPoolVars(AddBlock(p, h, "good"))
  /\ \A p \in PoolPeers :
       /\ WF_blockPoolVars(SetPeerRange(p)) /\ WF_blockPoolVars(HandleError(p))
       /\ WF_blockPoolVars(OnTimeout(p))
  /\ WF_blockPoolVars(MakeNextRequester) /\ WF_blockPoolVars(RemoveTimedoutPeers)
  /\ \A h \in PoolHeights :
       /\ WF_blockPoolVars(PickPeer(h)) /\ WF_blockPoolVars(AssignPeer(h))
       /\ WF_blockPoolVars(ReceiveRedo(h)) /\ WF_blockPoolVars(Reset(h))
  /\ WF_blockPoolVars(\/ PeekTwoBlocks \/ PopRequest \/ RedoRequest
                      \/ StopPeerForError \/ SwitchToConsensus)

FastSyncSpec == FastSyncInit /\ [][FastSyncNext]_blockPoolVars /\ FastSyncFairness

----------------------------------------------------------------------------
(* Properties *)

Missing == {h \in DOMAIN requesters : requesters[h].block = Absent}

\* a requester whose recorded peer is not in the pool and that no redo will wake
Stranded(h) ==
  /\ h \in DOMAIN requesters
  /\ requesters[h].pc = "wait" /\ requesters[h].block = Absent
  /\ requesters[h].peer \notin DOMAIN peers
  /\ requesters[h].redo # requesters[h].peer

(***************************************************************************)
(* The pool never counts fewer pending requests than it has: whatever the  *)
(* order of redo, reset, late blocks and pops, the limit of pending        *)
(* requests is respected.  (The count may be too high: a request popped    *)
(* after its block was thrown away stays counted.)                         *)
(***************************************************************************)
PendingNotUndercounted == numPending >= Cardinality(Missing)

(***************************************************************************)
(* Fast sync ends with the switch to consensus while one peer serves the   *)
(* chain, whatever the others do, except in the two ways the code leaves   *)
(* open: a requester that waits for a peer removed before the requester    *)
(* had recorded it, and a block from a peer whose record was made anew     *)
(* after the request.                                                      *)
(***************************************************************************)
SyncEnds == <>(status # "syncing" \/ \E h \in PoolHeights : Stranded(h))
=============================================================================

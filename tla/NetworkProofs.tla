---------------------------- MODULE NetworkProofs ---------------------------
(***************************************************************************)
(* The limit on inbound peers holds for any number of IDs and any limit,   *)
(* although acceptRoutine counts before the peer is started and added. No  *)
(* wake-up of a connection's sendRoutine is lost, for any number of        *)
(* channels, messages and packets per message, any capacity of the queues  *)
(* and any size of a batch.                                                *)
(***************************************************************************)
EXTENDS Switch, MConnection, FiniteSetTheorems, SequenceTheorems, TLAPS

-----------------------------------------------------------------------------
(* The peer set of the switch *)

Peer == [id: IDs, outbound: BOOLEAN, run: {"new", "running", "stopped"},
         reactors: {"none", "added", "removed"}, stops: Nat]

Adding == [pc: {"idle", "filter", "start", "add", "reactors"}, peer: Nat]

SwitchType ==
  /\ peers \in Seq(Peer)
  /\ set \in [IDs -> Nat]
  /\ \A id \in IDs : set[id] # 0 => set[id] \in DOMAIN peers
  /\ adding \in [Adders -> Adding]
  /\ \A w \in Adders : adding[w].pc # "idle" => adding[w].peer \in DOMAIN peers
  /\ stopping \in SUBSET [peer: Nat, call: Nat, pc: {"stop", "reactors", "remove"}]
  /\ \A c \in stopping : c.peer \in DOMAIN peers

(***************************************************************************)
(* Every goroutine but acceptRoutine adds the outbound peer it dialed.      *)
(***************************************************************************)
DialsOutbound == \A id \in IDs : adding[id].pc # "idle" => peers[adding[id].peer].outbound

(***************************************************************************)
(* acceptRoutine adds one peer at a time, so the room it saw when it        *)
(* accepted the connection is there until that peer is in the set.          *)
(***************************************************************************)
RoomKept ==
  /\ adding[Acceptor].pc \in {"filter", "start", "add"}
  /\ peers[adding[Acceptor].peer].id \notin Unconditional
  => Cardinality(Inbound) < MaxInbound

SwitchInv == SwitchType /\ DialsOutbound /\ RoomKept /\ InboundBounded

\* a step that leaves the peers what they are, or makes new ones
PeersKept ==
  /\ peers' \in Seq(Peer)
  /\ \A i \in DOMAIN peers :
       i \in DOMAIN peers' /\ peers'[i].id = peers[i].id /\ peers'[i].outbound = peers[i].outbound

-----------------------------------------------------------------------------
(***************************************************************************)
(* Peers leave the set, and those that stay are inbound or outbound as      *)
(* before: the number of inbound ones does not grow.                        *)
(***************************************************************************)
LEMMA InboundShrinks ==
  ASSUME IsFiniteSet(IDs), Inbound' \subseteq Inbound
  PROVE  /\ Cardinality(Inbound) \in Nat /\ Cardinality(Inbound') \in Nat
         /\ Cardinality(Inbound') <= Cardinality(Inbound)
<1>1. Inbound \in SUBSET IDs /\ Inbound' \in SUBSET Inbound
  BY DEF Inbound
<1>2. IsFiniteSet(Inbound)
  BY <1>1, FS_Subset
<1>3. IsFiniteSet(Inbound') /\ Cardinality(Inbound') <= Cardinality(Inbound)
  BY <1>1, <1>2, FS_Subset
<1> QED
  BY <1>2, <1>3, FS_CardinalityType

LEMMA NoNewInbound ==
  ASSUME SwitchType, PeersKept, \A id \in IDs : set'[id] = set[id] \/ set'[id] = 0
  PROVE  Inbound' \subseteq Inbound
  BY DEF SwitchType, PeersKept, Inbound

(***************************************************************************)
(* Starting and stopping a peer, and the calls of the reactors, change one  *)
(* field of one object.                                                     *)
(***************************************************************************)
LEMMA FieldChanged ==
  ASSUME SwitchType, NEW i \in DOMAIN peers, NEW p \in Peer,
         p.id = peers[i].id, p.outbound = peers[i].outbound,
         peers' = [peers EXCEPT ![i] = p]
  PROVE  PeersKept /\ DOMAIN peers' = DOMAIN peers
<1>1. peers \in Seq(Peer) /\ DOMAIN peers = 1 .. Len(peers)
  BY LenProperties DEF SwitchType
<1>2. /\ peers' \in Seq(Peer) /\ Len(peers') = Len(peers)
      /\ \A j \in 1 .. Len(peers) : peers'[j] = IF j = i THEN p ELSE peers[j]
  BY <1>1, ExceptSeq
<1>3. DOMAIN peers' = DOMAIN peers
  BY <1>1, <1>2, LenProperties
<1> QED
  BY <1>1, <1>2, <1>3 DEF PeersKept

(***************************************************************************)
(* A step that adds no inbound peer, and brings no goroutine a new peer,    *)
(* keeps the invariant.                                                     *)
(***************************************************************************)
LEMMA QuietStep ==
  ASSUME IsFiniteSet(IDs), MaxInbound \in Nat, Acceptor \notin IDs,
         SwitchInv, PeersKept, Inbound' \subseteq Inbound, SwitchType',
         \A w \in Adders :
           \/ adding'[w].pc = "idle"
           \/ /\ adding'[w].peer = adding[w].peer
              /\ adding'[w].pc \in {"filter", "start", "add"} =>
                   adding[w].pc \in {"filter", "start", "add"}
              /\ adding[w].pc # "idle"
  PROVE  SwitchInv'
<1>1. DialsOutbound'
  BY DEF DialsOutbound, SwitchInv, SwitchType, PeersKept, Adders
<1>2. /\ Cardinality(Inbound) \in Nat /\ Cardinality(Inbound') \in Nat
      /\ Cardinality(Inbound') <= Cardinality(Inbound)
  BY InboundShrinks
<1>3. InboundBounded'
  BY <1>2 DEF SwitchInv, InboundBounded
<1>4. RoomKept'
  <2> SUFFICES ASSUME adding'[Acceptor].pc \in {"filter", "start", "add"},
                      peers'[adding'[Acceptor].peer].id \notin Unconditional
               PROVE  Cardinality(Inbound') < MaxInbound
    BY DEF RoomKept
  <2>1. /\ adding[Acceptor].pc \in {"filter", "start", "add"}
        /\ adding'[Acceptor].peer = adding[Acceptor].peer
        /\ adding[Acceptor].peer \in DOMAIN peers
    BY DEF SwitchInv, SwitchType, Adders
  <2>2. peers[adding[Acceptor].peer].id \notin Unconditional
    BY <2>1 DEF PeersKept
  <2> QED
    BY <1>2, <2>1, <2>2 DEF SwitchInv, RoomKept
<1> QED
  BY <1>1, <1>3, <1>4 DEF SwitchInv

(***************************************************************************)
(* A new connection is a new object, which is not in the set.               *)
(***************************************************************************)
LEMMA PeerMade ==
  ASSUME SwitchType, NEW id \in IDs, NEW out \in BOOLEAN,
         peers' = Append(peers, NewPeer(id, out))
  PROVE  /\ PeersKept /\ DOMAIN peers' = 1 .. Len(peers) + 1
         /\ Len(peers) \in Nat /\ DOMAIN peers = 1 .. Len(peers)
         /\ peers'[Len(peers) + 1] = NewPeer(id, out)
<1>1. NewPeer(id, out) \in Peer
  BY DEF NewPeer, Peer
<1>2. peers \in Seq(Peer) /\ Len(peers) \in Nat /\ DOMAIN peers = 1 .. Len(peers)
  BY LenProperties DEF SwitchType
<1>3. /\ peers' \in Seq(Peer) /\ Len(peers') = Len(peers) + 1
      /\ \A i \in 1 .. Len(peers) : peers'[i] = peers[i]
      /\ peers'[Len(peers) + 1] = NewPeer(id, out)
  BY <1>1, <1>2, AppendProperties
<1>4. DOMAIN peers' = 1 .. Len(peers) + 1
  BY <1>3, LenProperties
<1> QED
  BY <1>2, <1>3, <1>4 DEF PeersKept

(***************************************************************************)
(* acceptRoutine takes a new connection when there is room for it.          *)
(***************************************************************************)
LEMMA AcceptKeeps ==
  ASSUME IsFiniteSet(IDs), MaxInbound \in Nat, Acceptor \notin IDs,
         SwitchInv, NEW id \in IDs, Accept(id)
  PROVE  SwitchInv'
<1>1. /\ PeersKept /\ DOMAIN peers' = 1 .. Len(peers) + 1
      /\ Len(peers) \in Nat /\ DOMAIN peers = 1 .. Len(peers)
      /\ peers'[Len(peers) + 1] = NewPeer(id, FALSE)
  BY PeerMade DEF Accept, SwitchInv
<1>2. /\ adding' = [adding EXCEPT ![Acceptor] = [pc |-> "filter", peer |-> Len(peers) + 1]]
      /\ UNCHANGED <<set, stopping>>
  BY DEF Accept, Step
<1>3. SwitchType'
  <2>1. \A w \in Adders : adding'[w] = IF w = Acceptor THEN [pc |-> "filter", peer |-> Len(peers) + 1] ELSE adding[w]
    BY <1>2 DEF SwitchInv, SwitchType
  <2>2. adding' \in [Adders -> Adding]
    <3>1. [pc |-> "filter", peer |-> Len(peers) + 1] \in Adding
      BY <1>1 DEF Adding
    <3> QED
      BY <1>2, <3>1 DEF SwitchInv, SwitchType
  <2>3. \A w \in Adders : adding'[w].pc # "idle" => adding'[w].peer \in DOMAIN peers'
    <3> TAKE w \in Adders
    <3>1. \A i \in DOMAIN peers : i \in DOMAIN peers'
      BY <1>1
    <3>2. Len(peers) + 1 \in DOMAIN peers'
      BY <1>1
    <3>3. CASE w = Acceptor
      <4>1. adding'[w].peer = Len(peers) + 1
        BY <2>1, <3>3
      <4> QED
        BY <3>2, <4>1
    <3>4. CASE w # Acceptor
      <4>1. adding'[w] = adding[w]
        BY <2>1, <3>4
      <4>2. adding[w].pc # "idle" => adding[w].peer \in DOMAIN peers
        BY DEF SwitchInv, SwitchType
      <4> QED
        BY <3>1, <4>1, <4>2
    <3> QED
      BY <3>3, <3>4
  <2> QED
    BY <1>1, <1>2, <2>2, <2>3 DEF SwitchInv, SwitchType, PeersKept
<1>4. Inbound' = Inbound
  BY <1>1, <1>2 DEF SwitchInv, SwitchType, PeersKept, Inbound
<1>5. DialsOutbound'
  BY <1>1, <1>2 DEF DialsOutbound, SwitchInv, SwitchType, PeersKept, Adders
<1>6. adding'[Acceptor].peer = Len(peers) + 1 /\ peers'[Len(peers) + 1].id = id
  BY <1>1, <1>2 DEF SwitchInv, SwitchType, Adders, NewPeer
<1>7. RoomKept'
  BY <1>4, <1>6 DEF RoomKept, Accept, HasRoom
<1> QED
  BY <1>3, <1>4, <1>5, <1>7 DEF SwitchInv, InboundBounded

(***************************************************************************)
(* A dial makes an outbound peer.                                           *)
(***************************************************************************)
LEMMA DialKeeps ==
  ASSUME IsFiniteSet(IDs), MaxInbound \in Nat, Acceptor \notin IDs,
         SwitchInv, NEW id \in IDs, DialPeerWithAddress(id)
  PROVE  SwitchInv'
<1>1. /\ PeersKept /\ DOMAIN peers' = 1 .. Len(peers) + 1
      /\ Len(peers) \in Nat /\ DOMAIN peers = 1 .. Len(peers)
      /\ peers'[Len(peers) + 1] = NewPeer(id, TRUE)
  BY PeerMade DEF DialPeerWithAddress, SwitchInv
<1>2. /\ adding' = [adding EXCEPT ![id] = [pc |-> "filter", peer |-> Len(peers) + 1]]
      /\ UNCHANGED <<set, stopping>>
  BY DEF DialPeerWithAddress, Step
<1>3. SwitchType'
  <2>1. \A w \in Adders : adding'[w] = IF w = id THEN [pc |-> "filter", peer |-> Len(peers) + 1] ELSE adding[w]
    BY <1>2 DEF SwitchInv, SwitchType
  <2>2. adding' \in [Adders -> Adding]
    <3>1. [pc |-> "filter", peer |-> Len(peers) + 1] \in Adding
      BY <1>1 DEF Adding
    <3> QED
      BY <1>2, <3>1 DEF SwitchInv, SwitchType
  <2>3. \A w \in Adders : adding'[w].pc # "idle" => adding'[w].peer \in DOMAIN peers'
    <3> TAKE w \in Adders
    <3>1. \A i \in DOMAIN peers : i \in DOMAIN peers'
      BY <1>1
    <3>2. Len(peers) + 1 \in DOMAIN peers'
      BY <1>1
    <3> QED
      BY <2>1, <3>1, <3>2 DEF SwitchInv, SwitchType
  <2> QED
    BY <1>1, <1>2, <2>2, <2>3 DEF SwitchInv, SwitchType, PeersKept
<1>4. Inbound' = Inbound
  BY <1>1, <1>2 DEF SwitchInv, SwitchType, PeersKept, Inbound
<1>5. DialsOutbound'
  BY <1>1, <1>2 DEF DialsOutbound, SwitchInv, SwitchType, PeersKept, Adders, NewPeer
<1>6. adding'[Acceptor] = adding[Acceptor]
  BY <1>2 DEF SwitchInv, SwitchType, Adders
<1>7. adding[Acceptor].pc \in {"filter", "start", "add"} =>
        peers'[adding[Acceptor].peer].id = peers[adding[Acceptor].peer].id
  BY <1>1 DEF PeersKept, SwitchInv, SwitchType, Adders
<1>8. RoomKept'
  BY <1>4, <1>6, <1>7 DEF RoomKept, SwitchInv
<1> QED
  BY <1>3, <1>4, <1>5, <1>8 DEF SwitchInv, InboundBounded

(***************************************************************************)
(* filterPeer, Start and the reactors: the goroutine moves on with its      *)
(* peer, or gives it up.                                                    *)
(***************************************************************************)
LEMMA AddStepKeeps ==
  ASSUME IsFiniteSet(IDs), MaxInbound \in Nat, Acceptor \notin IDs,
         SwitchInv, NEW w \in Adders, FilterPeer(w) \/ StartPeer(w) \/ AddToReactors(w)
  PROVE  SwitchInv'
<1> DEFINE a == adding[w]
<1>1. a \in Adding /\ a.pc # "idle" /\ a.peer \in DOMAIN peers /\ peers[a.peer] \in Peer
  BY DEF FilterPeer, StartPeer, AddToReactors, SwitchInv, SwitchType
<1>2. PICK local : /\ adding' = [adding EXCEPT ![w] = local]
                   /\ \/ local = Idle
                      \/ local = [a EXCEPT !.pc = "start"] /\ a.pc = "filter"
                      \/ local = [a EXCEPT !.pc = "add"] /\ a.pc = "start"
  BY DEF FilterPeer, StartPeer, AddToReactors, Step
<1>3. set' = set /\ stopping' = stopping
  BY DEF FilterPeer, StartPeer, AddToReactors, Step
<1>4. PeersKept /\ DOMAIN peers' = DOMAIN peers
  <2>1. CASE FilterPeer(w)
    BY <2>1 DEF FilterPeer, PeersKept, SwitchInv, SwitchType
  <2>2. CASE StartPeer(w)
    <3>1. [peers[a.peer] EXCEPT !.run = "running"] \in Peer
      BY <1>1 DEF Peer
    <3> QED
      BY <1>1, <2>2, <3>1, FieldChanged DEF StartPeer, SwitchInv, Peer
  <2>3. CASE AddToReactors(w)
    <3>1. [peers[a.peer] EXCEPT !.reactors = "added"] \in Peer
      BY <1>1 DEF Peer
    <3> QED
      BY <1>1, <2>3, <3>1, FieldChanged DEF AddToReactors, SwitchInv, Peer
  <2> QED
    BY <2>1, <2>2, <2>3
<1>5. Inbound' \subseteq Inbound
  BY <1>3, <1>4, NoNewInbound DEF SwitchInv
<1>6. local \in Adding /\ (local.pc = "idle" \/ local.peer = a.peer)
  BY <1>1, <1>2 DEF Adding, Idle
<1>7. adding' \in [Adders -> Adding] /\ \A v \in Adders : adding'[v] = IF v = w THEN local ELSE adding[v]
  BY <1>2, <1>6 DEF SwitchInv, SwitchType
<1>8. SwitchType'
  BY <1>1, <1>3, <1>4, <1>6, <1>7 DEF SwitchInv, SwitchType, PeersKept
<1>9. local.pc \in {"filter", "start", "add"} => a.pc \in {"filter", "start", "add"}
  BY <1>1, <1>2 DEF Adding, Idle
<1>10. \A v \in Adders :
         \/ adding'[v].pc = "idle"
         \/ /\ adding'[v].peer = adding[v].peer
            /\ adding'[v].pc \in {"filter", "start", "add"} =>
                 adding[v].pc \in {"filter", "start", "add"}
            /\ adding[v].pc # "idle"
  BY <1>1, <1>6, <1>7, <1>9
<1> QED
  BY <1>4, <1>5, <1>8, <1>10, QuietStep

(***************************************************************************)
(* The peer enters the set.  Only acceptRoutine adds an inbound one, and it *)
(* had seen room.                                                           *)
(***************************************************************************)
LEMMA AddToSetKeeps ==
  ASSUME IsFiniteSet(IDs), MaxInbound \in Nat, Acceptor \notin IDs,
         SwitchInv, NEW w \in Adders, AddToSet(w)
  PROVE  SwitchInv'
<1> DEFINE p == adding[w].peer
           id == peers[p].id
<1>1. p \in DOMAIN peers /\ peers[p] \in Peer /\ id \in IDs /\ p \in Nat /\ adding[w] \in Adding
  <2>1. adding[w] \in Adding /\ adding[w].pc = "add" /\ p \in DOMAIN peers
    BY DEF AddToSet, SwitchInv, SwitchType
  <2>2. peers[p] \in Peer
    BY <2>1 DEF SwitchInv, SwitchType
  <2> QED
    BY <2>1, <2>2 DEF Adding, Peer
<1>2. stopping' = stopping /\ adding[w].pc = "add"
  BY DEF AddToSet, Step
<1>3. CASE set[id] # 0
  <2>1. /\ peers' = [peers EXCEPT ![p] = [peers[p] EXCEPT !.run = "stopped"]]
        /\ adding' = [adding EXCEPT ![w] = Idle] /\ set' = set
    BY <1>3 DEF AddToSet, Step
  <2>2. [peers[p] EXCEPT !.run = "stopped"] \in Peer
    BY <1>1 DEF Peer
  <2>3. PeersKept /\ DOMAIN peers' = DOMAIN peers
    BY <1>1, <2>1, <2>2, FieldChanged DEF SwitchInv, Peer
  <2>4. Inbound' \subseteq Inbound
    BY <2>1, <2>3, NoNewInbound DEF SwitchInv
  <2>5. \A v \in Adders : adding'[v] = IF v = w THEN Idle ELSE adding[v]
    BY <2>1 DEF SwitchInv, SwitchType
  <2>6. adding' \in [Adders -> Adding]
    BY <2>1 DEF SwitchInv, SwitchType, Adding, Idle
  <2>7. SwitchType'
    BY <1>2, <2>1, <2>3, <2>5, <2>6 DEF SwitchInv, SwitchType, PeersKept, Idle
  <2>8. \A v \in Adders :
          \/ adding'[v].pc = "idle"
          \/ /\ adding'[v].peer = adding[v].peer
             /\ adding'[v].pc \in {"filter", "start", "add"} =>
                  adding[v].pc \in {"filter", "start", "add"}
             /\ adding[v].pc # "idle"
    BY <2>5 DEF Idle
  <2> QED
    BY <2>3, <2>4, <2>7, <2>8, QuietStep
<1>4. CASE set[id] = 0
  <2> DEFINE local == [adding[w] EXCEPT !.pc = "reactors"]
  <2>1. /\ peers' = peers /\ set' = [set EXCEPT ![id] = p]
        /\ adding' = [adding EXCEPT ![w] = local]
    BY <1>4 DEF AddToSet, Step
  <2>2. local \in Adding /\ local.pc = "reactors" /\ local.peer = p
    BY <1>1 DEF Adding
  <2> HIDE DEF local
  <2>3. \A v \in Adders : adding'[v] = IF v = w THEN local ELSE adding[v]
    BY <2>1 DEF SwitchInv, SwitchType
  <2>4. \A i \in IDs : set'[i] = IF i = id THEN p ELSE set[i]
    BY <2>1 DEF SwitchInv, SwitchType
  <2>5. SwitchType'
    <3>1. set' \in [IDs -> Nat] /\ adding' \in [Adders -> Adding]
      BY <1>1, <2>1, <2>2 DEF SwitchInv, SwitchType
    <3> QED
      BY <1>1, <1>2, <2>1, <2>2, <2>3, <2>4, <3>1 DEF SwitchInv, SwitchType
  <2>6. PeersKept
    BY <2>1 DEF PeersKept, SwitchInv, SwitchType
  <2>7. CASE w \in IDs \/ id \in Unconditional
    <3>1. w \in IDs => peers[p].outbound
      BY <1>2 DEF SwitchInv, DialsOutbound
    <3>2. Inbound' \subseteq Inbound
      BY <2>1, <2>4, <2>7, <3>1 DEF Inbound
    <3>3. \A v \in Adders :
            \/ adding'[v].pc = "idle"
            \/ /\ adding'[v].peer = adding[v].peer
               /\ adding'[v].pc \in {"filter", "start", "add"} =>
                    adding[v].pc \in {"filter", "start", "add"}
               /\ adding[v].pc # "idle"
      BY <1>2, <2>2, <2>3 DEF SwitchInv, SwitchType
    <3> QED
      BY <2>5, <2>6, <3>2, <3>3, QuietStep
  <2>8. CASE w = Acceptor /\ id \notin Unconditional
    <3>1. Inbound' \subseteq Inbound \cup {id}
      BY <2>1, <2>4 DEF Inbound
    <3>2. Inbound \in SUBSET IDs
      BY DEF Inbound
    <3>3. IsFiniteSet(Inbound) /\ Cardinality(Inbound) \in Nat
      BY <3>2, FS_Subset, FS_CardinalityType
    <3>4. IsFiniteSet(Inbound \cup {id}) /\ Cardinality(Inbound \cup {id}) \in {Cardinality(Inbound), Cardinality(Inbound) + 1}
      BY <3>3, FS_AddElement
    <3>5. IsFiniteSet(Inbound') /\ Cardinality(Inbound') \in Nat /\ Cardinality(Inbound') <= Cardinality(Inbound \cup {id})
      BY <3>1, <3>4, FS_Subset, FS_CardinalityType
    <3>6. Cardinality(Inbound) < MaxInbound
      BY <1>2, <2>8 DEF SwitchInv, RoomKept
    <3>7. InboundBounded'
      BY <3>3, <3>4, <3>5, <3>6 DEF InboundBounded
    <3>8. DialsOutbound' /\ RoomKept'
      BY <2>1, <2>2, <2>3, <2>8 DEF DialsOutbound, RoomKept, SwitchInv, Adders
    <3> QED
      BY <2>5, <3>7, <3>8 DEF SwitchInv
  <2> QED
    BY <2>7, <2>8 DEF Adders
<1> QED
  BY <1>3, <1>4

(***************************************************************************)
(* StopPeerForError and its steps take peers out of the set only.           *)
(***************************************************************************)
LEMMA StopKeeps ==
  ASSUME IsFiniteSet(IDs), MaxInbound \in Nat, Acceptor \notin IDs, SwitchInv,
         \/ \E p \in DOMAIN peers : StopPeerForError(p)
         \/ \E c \in stopping : StopPeer(c) \/ RemoveFromReactors(c) \/ RemoveFromSet(c)
  PROVE  SwitchInv'
<1>1. adding' = adding
  BY DEF StopPeerForError, StopPeer, RemoveFromReactors, RemoveFromSet
<1>2. SUFFICES PeersKept /\ Inbound' \subseteq Inbound /\ SwitchType'
  <2>1. \A v \in Adders :
          \/ adding'[v].pc = "idle"
          \/ /\ adding'[v].peer = adding[v].peer
             /\ adding'[v].pc \in {"filter", "start", "add"} =>
                  adding[v].pc \in {"filter", "start", "add"}
             /\ adding[v].pc # "idle"
    BY <1>1
  <2> QED
    BY <2>1, QuietStep
<1>3. ASSUME NEW p \in DOMAIN peers, StopPeerForError(p)
      PROVE  PeersKept /\ Inbound' \subseteq Inbound /\ SwitchType'
  <2>1. peers[p] \in Peer /\ p \in Nat
    BY DEF SwitchInv, SwitchType
  <2>2. [peers[p] EXCEPT !.stops = @ + 1] \in Peer
    BY <2>1 DEF Peer
  <2>3. PeersKept /\ DOMAIN peers' = DOMAIN peers
    BY <1>3, <2>1, <2>2, FieldChanged DEF StopPeerForError, SwitchInv, Peer
  <2>4. Inbound' \subseteq Inbound
    BY <1>3, <2>3, NoNewInbound DEF StopPeerForError, SwitchInv
  <2>5. [peer |-> p, call |-> peers[p].stops, pc |-> "stop"]
          \in [peer: Nat, call: Nat, pc: {"stop", "reactors", "remove"}]
    BY <2>1 DEF Peer
  <2> QED
    BY <1>1, <1>3, <2>3, <2>4, <2>5 DEF StopPeerForError, SwitchInv, SwitchType, PeersKept
<1>4. ASSUME NEW c \in stopping, StopPeer(c) \/ RemoveFromReactors(c)
      PROVE  PeersKept /\ Inbound' \subseteq Inbound /\ SwitchType'
  <2>1. peers[c.peer] \in Peer /\ c.peer \in DOMAIN peers /\ set' = set
    BY <1>4 DEF SwitchInv, SwitchType, StopPeer, RemoveFromReactors
  <2>2. /\ [peers[c.peer] EXCEPT !.run = "stopped"] \in Peer
        /\ [peers[c.peer] EXCEPT !.reactors = "removed"] \in Peer
    BY <2>1 DEF Peer
  <2>3. PeersKept /\ DOMAIN peers' = DOMAIN peers
    BY <1>4, <2>1, <2>2, FieldChanged DEF StopPeer, RemoveFromReactors, SwitchInv, Peer
  <2>4. Inbound' \subseteq Inbound
    BY <2>1, <2>3, NoNewInbound DEF SwitchInv
  <2>5. PICK pc \in {"reactors", "remove"} : stopping' = (stopping \ {c}) \cup {[c EXCEPT !.pc = pc]}
    BY <1>4 DEF StopPeer, RemoveFromReactors, Goto
  <2>6. /\ [c EXCEPT !.pc = pc] \in [peer: Nat, call: Nat, pc: {"stop", "reactors", "remove"}]
        /\ [c EXCEPT !.pc = pc].peer = c.peer
    BY DEF SwitchInv, SwitchType
  <2> QED
    BY <1>1, <2>1, <2>3, <2>4, <2>5, <2>6 DEF SwitchInv, SwitchType, PeersKept
<1>5. ASSUME NEW c \in stopping, RemoveFromSet(c)
      PROVE  PeersKept /\ Inbound' \subseteq Inbound /\ SwitchType'
  <2>1. PeersKept
    BY <1>5 DEF RemoveFromSet, PeersKept, SwitchInv, SwitchType
  <2>2. set' \in [IDs -> Nat] /\ \A id \in IDs : set'[id] = set[id] \/ set'[id] = 0
    BY <1>5 DEF RemoveFromSet, SwitchInv, SwitchType
  <2> QED
    BY <1>1, <1>5, <2>1, <2>2, NoNewInbound DEF RemoveFromSet, SwitchInv, SwitchType
<1> QED
  BY <1>3, <1>4, <1>5

-----------------------------------------------------------------------------
(***************************************************************************)
(* Never more than MaxNumInboundPeers inbound peers, the unconditional ones *)
(* aside, are in the peer set: acceptRoutine counts them before the new one *)
(* is started and added, but no other goroutine adds inbound peers.         *)
(***************************************************************************)
THEOREM InboundLimitHolds ==
  ASSUME IsFiniteSet(IDs), MaxInbound \in Nat, Acceptor \notin IDs
  PROVE  Spec => []InboundBounded
<1>1. Init => SwitchInv
  <2> SUFFICES ASSUME Init PROVE SwitchInv
    OBVIOUS
  <2>1. SwitchType /\ DialsOutbound
    BY DEF Init, SwitchType, DialsOutbound, Idle, Adding, Adders
  <2>2. Inbound = {}
    BY DEF Init, Inbound
  <2>3. Cardinality(Inbound) = 0
    BY <2>2, FS_EmptySet
  <2>4. adding[Acceptor].pc = "idle"
    BY DEF Init, Adders, Idle
  <2> QED
    BY <2>1, <2>3, <2>4 DEF SwitchInv, RoomKept, InboundBounded
<1>2. ASSUME SwitchInv, [Next]_vars PROVE SwitchInv'
  <2> USE <1>2
  <2>1. ASSUME NEW id \in IDs, Accept(id) PROVE SwitchInv'
    BY <2>1, AcceptKeeps
  <2>2. ASSUME NEW id \in IDs, DialPeerWithAddress(id) PROVE SwitchInv'
    BY <2>2, DialKeeps
  <2>3. ASSUME NEW w \in Adders, FilterPeer(w) \/ StartPeer(w) \/ AddToReactors(w) PROVE SwitchInv'
    BY <2>3, AddStepKeeps
  <2>4. ASSUME NEW w \in Adders, AddToSet(w) PROVE SwitchInv'
    BY <2>4, AddToSetKeeps
  <2>5. CASE \/ \E p \in DOMAIN peers : StopPeerForError(p)
             \/ \E c \in stopping : StopPeer(c) \/ RemoveFromReactors(c) \/ RemoveFromSet(c)
    BY <2>5, StopKeeps
  <2>6. CASE UNCHANGED <<peers, set, adding, stopping>>
    BY <2>6 DEF SwitchInv, SwitchType, DialsOutbound, RoomKept, InboundBounded, Inbound
  <2> QED
    BY <2>1, <2>2, <2>3, <2>4, <2>5, <2>6 DEF Next, vars, Reconnected
<1>3. SwitchInv => InboundBounded
  BY DEF SwitchInv
<1> QED
  BY <1>1, <1>2, <1>3, PTL DEF Spec

-----------------------------------------------------------------------------
(* A connection *)

Waiting == \E ch \in Channels : Pending(ch)

WakeUpInv ==
  /\ caller \in [Messages -> {"idle", "queued", "sent", "failed"}]
  /\ NoLostWakeUp

(***************************************************************************)
(* Send queues a message and only then signals: in between its caller still *)
(* owes the signal.                                                         *)
(***************************************************************************)
LEMMA SendKeeps ==
  ASSUME WakeUpInv, NEW m \in Messages, Queue(m) \/ Fail(m) \/ Signal(m)
  PROVE  WakeUpInv'
<1>1. CASE Queue(m)
  <2>1. caller'[m] = "queued" /\ UNCHANGED <<stop, buffer, timer>>
    BY <1>1 DEF Queue, WakeUpInv
  <2>2. caller' \in [Messages -> {"idle", "queued", "sent", "failed"}]
    BY <1>1 DEF Queue, WakeUpInv
  <2> QED
    BY <2>1, <2>2 DEF WakeUpInv, NoLostWakeUp
<1>2. CASE Fail(m)
  <2>1. /\ UNCHANGED <<stop, buffer, timer, queue, sending, signal, routine>>
        /\ caller' \in [Messages -> {"idle", "queued", "sent", "failed"}]
        /\ \A n \in Messages : caller[n] = "queued" => caller'[n] = "queued"
    BY <1>2 DEF Fail, WakeUpInv
  <2> QED
    BY <2>1 DEF WakeUpInv, NoLostWakeUp, Pending
<1>3. CASE Signal(m)
  <2>1. signal' /\ UNCHANGED <<stop, buffer, timer>>
    BY <1>3 DEF Signal
  <2>2. caller' \in [Messages -> {"idle", "queued", "sent", "failed"}]
    BY <1>3 DEF Signal, WakeUpInv
  <2> QED
    BY <2>1, <2>2 DEF WakeUpInv, NoLostWakeUp
<1> QED
  BY <1>1, <1>2, <1>3

(***************************************************************************)
(* sendRoutine goes back to sleep after a full batch with a signal to       *)
(* itself, and without one only when it has seen that nothing waits.        *)
(***************************************************************************)
LEMMA SendRoutineKeeps ==
  ASSUME WakeUpInv, TakeSignal \/ SendSomePacketMsgs \/ Flush
  PROVE  WakeUpInv'
<1>1. caller' = caller /\ stop' = stop
  BY DEF TakeSignal, SendSomePacketMsgs, Flush
<1>2. CASE TakeSignal
  BY <1>1, <1>2 DEF TakeSignal, WakeUpInv, NoLostWakeUp
<1>3. CASE SendSomePacketMsgs
  <2>1. CASE SendPacketMsg /\ routine' = routine
    <3>1. timer' /\ routine' = "batch"
      BY <1>3, <2>1 DEF SendSomePacketMsgs, SendPacketMsg
    <3> QED
      BY <1>1, <3>1 DEF WakeUpInv, NoLostWakeUp
  <2>2. CASE /\ batch = 0 \/ ~ Waiting
             /\ signal' = (signal \/ Awake(batch > 0))
             /\ UNCHANGED <<queue, sending, buffer, timer>>
    <3>1. Waiting' => Waiting
      BY <2>2 DEF Waiting, Pending
    <3>2. batch = 0 => signal'
      <4>1. batch = 0 => ~ (batch > 0)
        OBVIOUS
      <4> QED
        BY <2>2, <4>1, Zenon DEF Awake
    <3> QED
      BY <1>1, <2>2, <3>1, <3>2 DEF WakeUpInv, NoLostWakeUp, Waiting
  <2> QED
    BY <1>3, <2>1, <2>2 DEF SendSomePacketMsgs, Waiting
<1>4. CASE Flush
  <2>1. UNCHANGED <<queue, sending, signal, routine>> /\ buffer' = <<>>
    BY <1>4 DEF Flush
  <2> QED
    BY <1>1, <2>1 DEF WakeUpInv, NoLostWakeUp, Pending
<1> QED
  BY <1>2, <1>3, <1>4

(***************************************************************************)
(* While a message waits, in a queue or half sent, a signal is there,       *)
(* sendRoutine is at work, or a caller has yet to signal; and nothing stays *)
(* in the buffer without the flush timer.                                   *)
(***************************************************************************)
THEOREM WakeUpsKept == ConnSpec => []NoLostWakeUp
<1>1. ConnInit => WakeUpInv
  BY DEF ConnInit, WakeUpInv, NoLostWakeUp, Pending, Nothing
<1>2. ASSUME WakeUpInv, [ConnNext]_connVars PROVE WakeUpInv'
  <2> USE <1>2
  <2>1. ASSUME NEW m \in Messages, Queue(m) \/ Fail(m) \/ Signal(m) PROVE WakeUpInv'
    BY <2>1, SendKeeps
  <2>2. CASE TakeSignal \/ SendSomePacketMsgs \/ Flush
    BY <2>2, SendRoutineKeeps
  <2>3. CASE Receive
    BY <2>3 DEF Receive, WakeUpInv, NoLostWakeUp, Pending
  <2>4. CASE Stop \/ FlushStop \/ QuitSendRoutine \/ Drain
    <3>1. caller' = caller /\ stop' # "no"
      BY <2>4 DEF Stop, FlushStop, QuitSendRoutine, Drain
    <3> QED
      BY <3>1 DEF WakeUpInv, NoLostWakeUp
  <2>5. CASE UNCHANGED connVars
    BY <2>5 DEF connVars, WakeUpInv, NoLostWakeUp, Pending
  <2> QED
    BY <2>1, <2>2, <2>3, <2>4, <2>5 DEF ConnNext
<1>3. WakeUpInv => NoLostWakeUp
  BY DEF WakeUpInv
<1> QED
  BY <1>1, <1>2, <1>3, PTL DEF ConnSpec
=============================================================================

------------------------------- MODULE Switch -------------------------------
(***************************************************************************)
(* The peers of a node (p2p/switch.go and p2p/peer_set.go): a goroutine    *)
(* accepts inbound connections, others dial and reconnect, and a peer's    *)
(* own goroutines and the reactors stop it for an error.  Every connection *)
(* is a Peer object of its own; the peer set holds at most one for an ID.  *)
(*                                                                         *)
(* Start, the change of the peer set, the calls to the reactors and the    *)
(* steps of stopping a peer are separate steps: no lock is held over them. *)
(* Peer filters, duplicate IP addresses and the address book are left out. *)
(***************************************************************************)
EXTENDS Integers, Sequences, FiniteSets

CONSTANTS
  Acceptor,                         \* the acceptRoutine goroutine
  IDs, Persistent, Unconditional,   \* IDs, those of persistent and of unconditional peers
  MaxInbound,                       \* MaxNumInboundPeers
  MaxConns,                         \* bound: connections made
  MaxStops                          \* bound: calls of StopPeerForError per connection

VARIABLES
  peers,        \* Peer objects: [id, outbound, run, reactors, stops]
  set,          \* PeerSet: ID -> index of the object, or 0
  adding,       \* the goroutines that add a peer, acceptRoutine and one dial per ID: [pc, peer]
  stopping,     \* calls of StopPeerForError: set of [peer, call, pc]
  reconnecting  \* IDs a reconnectToPeer goroutine works on

vars == <<peers, set, adding, stopping, reconnecting>>
Adders == IDs \cup {Acceptor}
Idle == [pc |-> "idle", peer |-> 0]

NewPeer(id, out) == [id |-> id, outbound |-> out, run |-> "new", reactors |-> "none", stops |-> 0]

Init ==
  /\ peers = <<>>
  /\ set = [id \in IDs |-> 0]
  /\ adding = [w \in Adders |-> Idle]
  /\ stopping = {} /\ reconnecting = {}

----------------------------------------------------------------------------
(***************************************************************************)
(* addPeer, called by goroutine w: filterPeer, Start, the peer set, the    *)
(* reactors.  The peer is stopped again when the set has its ID by then.   *)
(***************************************************************************)
Step(w, local) == adding' = [adding EXCEPT ![w] = local] /\ UNCHANGED <<stopping, reconnecting>>

FilterPeer(w) ==
  /\ adding[w].pc = "filter"
  /\ Step(w, IF set[peers[adding[w].peer].id] # 0 THEN Idle ELSE [adding[w] EXCEPT !.pc = "start"])
  /\ UNCHANGED <<peers, set>>

StartPeer(w) ==
  /\ adding[w].pc = "start" /\ Step(w, [adding[w] EXCEPT !.pc = "add"])
  /\ peers' = [peers EXCEPT ![adding[w].peer].run = "running"]
  /\ UNCHANGED set

AddToSet(w) ==
  LET p == adding[w].peer
  IN  /\ adding[w].pc = "add"
      /\ \/ /\ set[peers[p].id] = 0
            /\ set' = [set EXCEPT ![peers[p].id] = p]
            /\ Step(w, [adding[w] EXCEPT !.pc = "reactors"])
            /\ UNCHANGED peers
         \/ /\ set[peers[p].id] # 0
            /\ peers' = [peers EXCEPT ![p].run = "stopped"]
            /\ Step(w, Idle)
            /\ UNCHANGED set

AddToReactors(w) ==
  /\ adding[w].pc = "reactors" /\ Step(w, Idle)
  /\ peers' = [peers EXCEPT ![adding[w].peer].reactors = "added"]
  /\ UNCHANGED set

(***************************************************************************)
(* Mutant: the limit is checked for an unconditional peer only.            *)
(***************************************************************************)
HasRoomSwapped(id) == id \in Unconditional => Cardinality({i \in IDs : set[i] # 0}) < MaxInbound

Inbound == {id \in IDs \ Unconditional : set[id] # 0 /\ ~peers[set[id]].outbound}
HasRoom(id) == id \in Unconditional \/ Cardinality(Inbound) < MaxInbound

\* acceptRoutine: a connection has come in and is authenticated
Accept(id) ==
  /\ adding[Acceptor] = Idle /\ Len(peers) < MaxConns
  /\ HasRoom(id)
  /\ peers' = Append(peers, NewPeer(id, FALSE))
  /\ Step(Acceptor, [pc |-> "filter", peer |-> Len(peers) + 1])
  /\ UNCHANGED set

\* DialPeerWithAddress, for the address book, the configuration or reconnectToPeer,
\* of an ID neither dialed nor in the set; a dial that fails leaves nothing behind
DialPeerWithAddress(id) ==
  /\ adding[id] = Idle /\ set[id] = 0 /\ Len(peers) < MaxConns
  /\ peers' = Append(peers, NewPeer(id, TRUE))
  /\ Step(id, [pc |-> "filter", peer |-> Len(peers) + 1])
  /\ UNCHANGED set

----------------------------------------------------------------------------
(* StopPeerForError, called by the goroutines of the peer and by reactors  *)

StopPeerForError(p) ==
  /\ peers[p].run = "running" /\ peers[p].stops < MaxStops
  /\ peers' = [peers EXCEPT ![p].stops = @ + 1]
  /\ stopping' = stopping \cup {[peer |-> p, call |-> peers[p].stops, pc |-> "stop"]}
  /\ UNCHANGED <<set, adding, reconnecting>>

Goto(c, pc) == stopping' = (stopping \ {c}) \cup {[c EXCEPT !.pc = pc]}

\* stopAndRemovePeer: the connection and the peer, the reactors, and last the set
StopPeer(c) ==
  /\ c.pc = "stop" /\ Goto(c, "reactors")
  /\ peers' = [peers EXCEPT ![c.peer].run = "stopped"]
  /\ UNCHANGED <<set, adding, reconnecting>>

RemoveFromReactors(c) ==
  /\ c.pc = "reactors" /\ Goto(c, "remove")
  /\ peers' = [peers EXCEPT ![c.peer].reactors = "removed"]
  /\ UNCHANGED <<set, adding, reconnecting>>

\* PeerSet.Remove goes by the ID of the peer
RemoveFromSet(c) ==
  /\ c.pc = "remove"
  /\ set' = [set EXCEPT ![peers[c.peer].id] = 0]
  /\ stopping' = stopping \ {c}
  /\ reconnecting' = IF peers[c.peer].id \in Persistent THEN reconnecting \cup {peers[c.peer].id} ELSE reconnecting
  /\ UNCHANGED <<peers, adding>>

(***************************************************************************)
(* reconnectToPeer ends when a dial succeeds, or when the ID is already    *)
(* being dialed or in the peer set.                                        *)
(***************************************************************************)
Reconnected(id) ==
  /\ id \in reconnecting /\ (set[id] # 0 \/ adding[id] # Idle)
  /\ reconnecting' = reconnecting \ {id}
  /\ UNCHANGED <<peers, set, adding, stopping>>

Next ==
  \/ \E id \in IDs : Accept(id) \/ DialPeerWithAddress(id) \/ Reconnected(id)
  \/ \E w \in Adders : FilterPeer(w) \/ StartPeer(w) \/ AddToSet(w) \/ AddToReactors(w)
  \/ \E p \in DOMAIN peers : StopPeerForError(p)
  \/ \E c \in stopping : StopPeer(c) \/ RemoveFromReactors(c) \/ RemoveFromSet(c)

Spec == Init /\ [][Next]_vars

----------------------------------------------------------------------------
(***************************************************************************)
(* Never more inbound peers than MaxNumInboundPeers are in the peer set,   *)
(* the unconditional ones aside: the count is taken before the peer is     *)
(* started and added, with peers added and removed in between.             *)
(***************************************************************************)
InboundBounded == Cardinality(Inbound) <= MaxInbound

(***************************************************************************)
(* A peer that has stopped for an error is found in the peer set and       *)
(* removed: no stopped peer is in the set unless a call that will remove   *)
(* it is under way.                                                        *)
(***************************************************************************)
StoppedIsRemoved ==
  \A id \in IDs : set[id] # 0 /\ peers[set[id]].run = "stopped" => \E c \in stopping : peers[c.peer].id = id
=============================================================================

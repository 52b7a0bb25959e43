---------------------------- MODULE StateSync ----------------------------
(***************************************************************************)
(* State sync: the pool of snapshots that peers advertise (snapshots.go),  *)
(* the queue of the chunks of the snapshot being restored (chunks.go), and *)
(* the syncer that offers snapshots to the application, fetches chunks     *)
(* and applies them (syncer.go), driven by the reactor (reactor.go).       *)
(*                                                                         *)
(* Actors: the goroutine of SyncAny; the chunk fetchers it spawns, which   *)
(* outlive the attempt they were spawned for until they see that their     *)
(* context is cancelled; the peers' messages; and the application, whose   *)
(* answers are free within a budget of complaints.  The critical sections  *)
(* of the pool's and of the queue's mutexes are atomic.                    *)
(*                                                                         *)
(* A chunk's content is reduced to who sent it and whether the application *)
(* has accepted the copy in the queue.                                     *)
(***************************************************************************)
EXTENDS Integers, FiniteSets, FiniteSetsExt, Functions

CONSTANTS
  Peers, Snapshots,
  Format,          \* the format of each snapshot; a greater number is preferred
  Chunks,          \* number of chunks of every snapshot
  Fetchers,        \* chunkFetchers: names of the goroutines of one attempt
  MaxComplaints,   \* bound: answers of the application other than ACCEPT
  MaxLeaves,       \* bound: peers that disconnect
  MaxSent,         \* bound: chunk responses on their way
  None

Index == 0 .. Chunks - 1

VARIABLES
  offers,          \* snapshotPool: the peers of each snapshot in it
  black,           \* snapshotPool: the three blacklists
  pc, snapshot,    \* SyncAny: where it is and the snapshot it works on
  attempt,         \* which Sync of that snapshot this is
  chunks,           \* chunkQueue: files, senders, allocated, returned
  current,         \* the chunk that Next is waiting for or has returned
  fetchers,        \* fetchChunks goroutines: [by, ctx, pc, index]
  answers,            \* chunk responses on their way: <<peer, snapshot, index>>
  applied,        \* history: the chunks whose copy the application accepted
  complaints, leaves

poolVars == <<offers, black>>
budget == <<complaints, leaves>>
syncVars == <<offers, black, pc, snapshot, attempt, chunks, current, fetchers, answers, applied,
          complaints, leaves>>

EmptyQueue == [files |-> {}, senders |-> [i \in Index |-> None], allocated |-> {}, returned |-> {}]

\* discoveryTime has passed and the peers have advertised their snapshots
SyncInit ==
  /\ offers = [s \in Snapshots |-> Peers]
  /\ black = [formats |-> {}, peers |-> {}, snapshots |-> {}]
  /\ pc = "pick" /\ snapshot = None /\ attempt = 0
  /\ chunks = EmptyQueue /\ current = None /\ fetchers = {} /\ answers = {} /\ applied = {}
  /\ complaints = 0 /\ leaves = 0

----------------------------------------------------------------------------
(* snapshotPool *)

Allowed(p, s) ==
  /\ Format[s] \notin black.formats
  /\ p \notin black.peers
  /\ s \notin black.snapshots

\* a snapshot without peers is out of the pool
Known == {s \in Snapshots : offers[s] # {}}

\* Best: the snapshots ranked by height and format (here one number), then by their peers
Best(s) ==
  /\ s \in Known
  /\ \A t \in Known : \/ Format[s] > Format[t]
                      \/ /\ Format[s] = Format[t]
                         /\ Cardinality(offers[s]) >= Cardinality(offers[t])

RejectPeersAnd(ps, rejected) ==
  /\ black' = [black EXCEPT !.peers = @ \cup ps, !.snapshots = @ \cup rejected]
  /\ offers' = [s \in Snapshots |-> IF s \in rejected THEN {} ELSE offers[s] \ ps]

Reject(s) == RejectPeersAnd({}, {s})
RejectPeers(ps) == RejectPeersAnd(ps, {})

RejectFormat(f) ==
  /\ black' = [black EXCEPT !.formats = @ \cup {f}]
  /\ offers' = [s \in Snapshots |-> IF Format[s] = f THEN {} ELSE offers[s]]

\* Add, for a snapshot a peer advertises
AddSnapshot(p, s) ==
  /\ pc \notin {"done", "failed"}
  /\ Allowed(p, s) /\ p \notin offers[s]
  /\ offers' = [offers EXCEPT ![s] = @ \cup {p}]
  /\ UNCHANGED <<black, pc, snapshot, attempt, chunks, current, fetchers, answers, applied, budget>>

RemovePeer(p) ==
  /\ leaves < MaxLeaves /\ p \in UNION {offers[s] : s \in Snapshots}
  /\ leaves' = leaves + 1
  /\ offers' = [s \in Snapshots |-> offers[s] \ {p}]
  /\ UNCHANGED <<black, pc, snapshot, attempt, chunks, current, fetchers, answers, applied, complaints>>

----------------------------------------------------------------------------
(* chunkQueue *)

(***************************************************************************)
(* Mutants: a discarded chunk still counts as returned; as allocated.      *)
(***************************************************************************)
DiscardReturned(q, is) ==
  LET here == is \cap q.files
  IN  [q EXCEPT !.files = @ \ here, !.allocated = @ \ here]

DiscardAllocated(q, is) ==
  LET here == is \cap q.files
  IN  [q EXCEPT !.files = @ \ here, !.returned = @ \ here]

Discard(q, is) ==
  LET here == is \cap q.files
  IN  [q EXCEPT !.files = @ \ here, !.returned = @ \ here, !.allocated = @ \ here]

DiscardSenders(q, ps) ==
  LET theirs == {i \in Index : q.senders[i] \in ps /\ i \notin q.returned}
  IN  [Discard(q, theirs) EXCEPT !.senders =
         [i \in Index |-> IF i \in theirs THEN None ELSE q.senders[i]]]

\* syncer.AddChunk and chunkQueue.Add, on a chunk response
AddChunk(p, s, i) ==
  /\ <<p, s, i>> \in answers
  /\ answers' = answers \ {<<p, s, i>>}
  /\ IF pc \notin {"pick", "done", "failed"} /\ s = snapshot /\ i \notin chunks.files
     THEN /\ chunks' = [chunks EXCEPT !.files = @ \cup {i}, !.senders[i] = p]
          /\ applied' = applied \ {i}
     ELSE UNCHANGED <<chunks, applied>>
  /\ UNCHANGED <<offers, black, pc, snapshot, attempt, current, fetchers, budget>>

----------------------------------------------------------------------------
(* fetchChunks *)

Live(f) == f.ctx = attempt /\ pc \notin {"pick", "done", "failed"}

\* requestChunk: to a random peer of the snapshot, which may or may not answer
Request(s, i) ==
  \/ answers' = answers
  \/ Cardinality(answers) < MaxSent /\ \E p \in offers[s] : answers' = answers \cup {<<p, s, i>>}

FetchAllocate(f) ==
  /\ f \in fetchers /\ f.pc = "allocate" /\ chunks.allocated # Index
  /\ LET i == Min(Index \ chunks.allocated)
     IN  /\ chunks' = [chunks EXCEPT !.allocated = @ \cup {i}]
         /\ fetchers' = (fetchers \ {f}) \cup {[f EXCEPT !.pc = "wait", !.index = i]}
         /\ Request(snapshot, i)
  /\ UNCHANGED <<offers, black, pc, snapshot, attempt, current, applied, budget>>

\* the chunk arrived
FetchArrived(f) ==
  /\ f \in fetchers /\ f.pc = "wait" /\ f.index \in chunks.files
  /\ fetchers' = (fetchers \ {f}) \cup {[f EXCEPT !.pc = "allocate", !.index = None]}
  /\ UNCHANGED <<offers, black, pc, snapshot, attempt, chunks, current, answers, applied, budget>>

\* the retry timeout passed
FetchAgain(f) ==
  /\ f \in fetchers /\ f.pc = "wait"
  /\ Request(snapshot, f.index)
  /\ UNCHANGED <<offers, black, pc, snapshot, attempt, chunks, current, fetchers, applied, budget>>

\* the context is seen to be cancelled: while waiting, or when there is nothing to allocate
FetchExit(f) ==
  /\ f \in fetchers /\ ~Live(f)
  /\ f.pc = "wait" \/ chunks.allocated = Index
  /\ fetchers' = fetchers \ {f}
  /\ UNCHANGED <<offers, black, pc, snapshot, attempt, chunks, current, answers, applied, budget>>

----------------------------------------------------------------------------
(* SyncAny and Sync *)

PickSnapshot(s) ==
  /\ pc = "pick" /\ snapshot = None /\ Best(s)
  /\ snapshot' = s /\ pc' = "offer" /\ attempt' = 1
  /\ UNCHANGED <<offers, black, chunks, current, fetchers, answers, applied, budget>>

RetrySnapshot ==
  /\ pc = "pick" /\ snapshot # None
  /\ pc' = "offer" /\ attempt' = attempt + 1
  /\ chunks' = [chunks EXCEPT !.returned = {}]   \* RetryAll
  /\ applied' = {}
  /\ UNCHANGED <<offers, black, snapshot, current, fetchers, answers, budget>>

\* the queue is closed, which also ends the fetchers
Close == chunks' = EmptyQueue /\ fetchers' = {} /\ applied' = {} /\ current' = None

GiveUp == pc' = "pick" /\ snapshot' = None /\ attempt' = 0 /\ Close
FailSync == pc' = "failed" /\ UNCHANGED <<snapshot, attempt>> /\ Close

Complain == complaints < MaxComplaints /\ complaints' = complaints + 1

\* AppHash and offerSnapshot accept the snapshot, and the fetchers are spawned
OfferAccepted ==
  /\ pc = "offer"
  /\ pc' = "build"
  /\ fetchers' = fetchers \cup
       {[by |-> f, ctx |-> attempt, pc |-> "allocate", index |-> None] : f \in Fetchers}
  /\ UNCHANGED <<offers, black, snapshot, attempt, chunks, current, answers, applied, budget>>

OfferRejected ==
  /\ pc = "offer" /\ Complain
  /\ \/ Reject(snapshot) /\ GiveUp
     \/ RejectFormat(Format[snapshot]) /\ GiveUp
     \/ RejectPeers(offers[snapshot]) /\ GiveUp
     \/ UNCHANGED poolVars /\ FailSync             \* ABORT, no witnesses, or the call failed
  /\ UNCHANGED <<answers, leaves>>

\* stateProvider.State and Commit
StateBuilt ==
  /\ pc = "build"
  /\ \/ /\ pc' = "next"
        /\ UNCHANGED <<poolVars, snapshot, attempt, chunks, current, fetchers, applied, complaints>>
     \/ Complain /\ Reject(snapshot) /\ GiveUp
     \/ Complain /\ FailSync /\ UNCHANGED poolVars      \* no witnesses
  /\ UNCHANGED <<answers, leaves>>

\* Next: the lowest chunk not returned, marked as returned before it is there
NextChunk ==
  /\ pc = "next" /\ chunks.returned # Index
  /\ LET i == Min(Index \ chunks.returned)
     IN  /\ chunks' = [chunks EXCEPT !.returned = @ \cup {i}]
         /\ current' = i
         /\ pc' = IF i \in chunks.files THEN "apply" ELSE "wait"
  /\ UNCHANGED <<offers, black, snapshot, attempt, fetchers, answers, applied, budget>>

NextArrived ==
  /\ pc = "wait" /\ current \in chunks.files
  /\ pc' = "apply"
  /\ UNCHANGED <<offers, black, snapshot, attempt, chunks, current, fetchers, answers, applied, budget>>

\* chunkTimeout: the snapshot is rejected
NextTimeout ==
  /\ pc = "wait" /\ current \notin chunks.files
  /\ Reject(snapshot) /\ GiveUp
  /\ UNCHANGED <<answers, budget>>

\* ApplySnapshotChunk, accepted with nothing else to say
ApplyAccepted ==
  /\ pc = "apply"
  /\ applied' = applied \cup {current} /\ current' = None /\ pc' = "next"
  /\ UNCHANGED <<offers, black, snapshot, attempt, chunks, fetchers, answers, budget>>

\* ApplySnapshotChunk, with chunks to refetch, senders to reject, or another result
ApplyComplaint ==
  /\ pc = "apply" /\ Complain
  /\ \E refetch \in SUBSET Index, senders \in SUBSET Peers :
       LET q == DiscardSenders(Discard(chunks, refetch), senders)
       IN  \/ /\ RejectPeers(senders)
              /\ current' = None
              /\ \/ pc' = "next" /\ chunks' = q /\ applied' = applied \cup {current}
                 \/ /\ pc' = "next" /\ chunks' = [q EXCEPT !.returned = @ \ {current}]   \* RETRY
                    /\ UNCHANGED applied
                 \/ pc' = "pick" /\ chunks' = q /\ UNCHANGED applied          \* RETRY_SNAPSHOT
              /\ UNCHANGED <<snapshot, attempt, fetchers>>
           \/ RejectPeersAnd(senders, {snapshot}) /\ GiveUp                    \* REJECT_SNAPSHOT
           \/ RejectPeers(senders) /\ FailSync                                     \* ABORT
  /\ UNCHANGED <<answers, leaves>>

\* all chunks are returned; verifyApp asks the application for its hash and height
VerifyApp ==
  /\ pc = "next" /\ chunks.returned = Index
  /\ pc' \in {"done", "failed"}
  /\ chunks' = EmptyQueue /\ fetchers' = {}
  /\ UNCHANGED <<offers, black, snapshot, attempt, current, answers, applied, budget>>

SyncNext ==
  \/ \E p \in Peers : \/ RemovePeer(p)
                      \/ \E s \in Snapshots : \/ AddSnapshot(p, s)
                                              \/ \E i \in Index : AddChunk(p, s, i)
  \/ \E f \in fetchers : FetchAllocate(f) \/ FetchArrived(f) \/ FetchAgain(f) \/ FetchExit(f)
  \/ \E s \in Snapshots : PickSnapshot(s)
  \/ RetrySnapshot \/ OfferAccepted \/ OfferRejected \/ StateBuilt
  \/ NextChunk \/ NextArrived \/ NextTimeout \/ ApplyAccepted \/ ApplyComplaint \/ VerifyApp

SyncSpec == SyncInit /\ [][SyncNext]_syncVars

----------------------------------------------------------------------------
(* Properties *)

(***************************************************************************)
(* A restored snapshot is complete: when the syncer reports success, the   *)
(* application has accepted the copy of every chunk that is in the queue,  *)
(* whatever it asked to have refetched or retried on the way.              *)
(***************************************************************************)
RestoredComplete == pc = "done" => applied = Index

(***************************************************************************)
(* While a snapshot is restored for the first time, a chunk that is not in *)
(* the queue can be allocated or is being fetched, so that the wait of     *)
(* Next ends.  (A second attempt after RETRY_SNAPSHOT reuses the queue but *)
(* not the fetchers, and a chunk one of them was waiting for stays         *)
(* allocated.)                                                             *)
(***************************************************************************)
MissingIsFetched ==
  pc \in {"next", "wait", "apply"} /\ attempt = 1 =>
    \A i \in Index \ chunks.files :
      \/ i \notin chunks.allocated
      \/ \E f \in fetchers : Live(f) /\ f.pc = "wait" /\ f.index = i
=============================================================================

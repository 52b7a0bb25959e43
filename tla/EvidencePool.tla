---------------------------- MODULE EvidencePool ----------------------------
(***************************************************************************)
(* The pool of evidence of misbehaviour (evidence/pool.go, verify.go and   *)
(* the Receive of reactor.go).  The consensus goroutine reports            *)
(* conflicting votes, checks the evidence of proposed blocks and, at every *)
(* committed block, calls Update; the goroutines of the peers call         *)
(* AddEvidence, whose reads and writes of the database take no lock and    *)
(* are steps of their own here.  The database survives a crash, the clist, *)
(* the counter and the buffer of votes do not.                             *)
(*                                                                         *)
(* Evidence is known by its height and kind.  A block is a time unit       *)
(* apart from the next, so age in blocks and in time expire together.      *)
(***************************************************************************)
EXTENDS Integers, FiniteSets, FiniteSetsExt

CONSTANTS
  Evidence, HeightOf(_), LightEvidence,   \* the evidence there may be, its height, and which is of an attack on light clients
  Reporters,
  MaxAge,        \* EvidenceParams.MaxAgeNumBlocks
  MaxHeight,     \* bound: height of the chain
  MaxSize,       \* bound on size, which grows with light client evidence checked again
  MaxCrashes,    \* bound
  NoEvidence

VARIABLES
  pending, committed,     \* evidenceStore
  list, size,             \* evidenceList, as a set, and evidenceSize
  height, pruningHeight,  \* state.LastBlockHeight and pruningHeight
  buffer,                 \* consensusBuffer
  adder,                  \* AddEvidence calls: [pc, ev] of every peer's goroutine
  crashes

evidenceVars == <<pending, committed, list, size, height, pruningHeight, buffer, adder, crashes>>
NoCall == [pc |-> "idle", ev |-> NoEvidence]

Expired(ev, h) == h - HeightOf(ev) > MaxAge

\* verify: a block of that height is stored and the evidence is recent enough
Verified(ev) == HeightOf(ev) <= height /\ ~Expired(ev, height)

\* removeExpiredPendingEvidence goes through the pending evidence from the
\* oldest on and stops at the first that is not expired
RemovedAsExpired(evs, h) == {ev \in evs : Expired(ev, h)}
NextPruning(evs, h) ==
  LET left == evs \ RemovedAsExpired(evs, h)
  IN  IF left = {} THEN h ELSE Min({HeightOf(ev) : ev \in left}) + MaxAge + 1

NewPool(evs, h) ==
  /\ pending' = evs \ RemovedAsExpired(evs, h)
  /\ size' = Cardinality(pending')
  /\ list' = pending'
  /\ pruningHeight' = NextPruning(evs, h)
  /\ buffer' = {}
  /\ adder' = [p \in Reporters |-> NoCall]

EvidenceInit ==
  /\ pending = {} /\ committed = {} /\ size = 0 /\ buffer = {} /\ height = 1 /\ pruningHeight = 1
  /\ list = {}
  /\ adder = [p \in Reporters |-> NoCall]
  /\ crashes = 0

----------------------------------------------------------------------------
(* AddEvidence, called by the goroutine of peer p *)

Receive(p, ev) ==
  /\ adder[p] = NoCall /\ ev \notin pending
  /\ adder' = [adder EXCEPT ![p] = [pc |-> "notPending", ev |-> ev]]
  /\ UNCHANGED <<pending, committed, list, size, height, pruningHeight, buffer, crashes>>

Goto(p, pc) == adder' = [adder EXCEPT ![p] = IF pc = "idle" THEN NoCall ELSE [@ EXCEPT !.pc = pc]]

CheckCommitted(p) ==
  /\ adder[p].pc = "notPending"
  /\ Goto(p, IF adder[p].ev \notin committed /\ Verified(adder[p].ev) THEN "verified" ELSE "idle")
  /\ UNCHANGED <<pending, committed, list, size, height, pruningHeight, buffer, crashes>>

AddPending(p) ==
  /\ adder[p].pc = "verified"
  /\ pending' = pending \cup {adder[p].ev}
  /\ Goto(p, "saved")
  /\ UNCHANGED <<committed, list, size, height, pruningHeight, buffer, crashes>>

Count(p) ==
  /\ adder[p].pc = "saved"
  /\ size' = size + 1
  /\ Goto(p, "counted")
  /\ UNCHANGED <<pending, committed, list, height, pruningHeight, buffer, crashes>>

PushBack(p) ==
  /\ adder[p].pc = "counted"
  /\ list' = list \cup {adder[p].ev}
  /\ Goto(p, "idle")
  /\ UNCHANGED <<pending, committed, size, height, pruningHeight, buffer, crashes>>

----------------------------------------------------------------------------
(* The consensus goroutine *)

ReportConflictingVotes(ev) ==
  /\ ev \notin LightEvidence /\ HeightOf(ev) \in {height, height + 1}
  /\ buffer' = buffer \cup {ev}
  /\ UNCHANGED <<pending, committed, list, size, height, pruningHeight, adder, crashes>>

\* what is verified, and so counted and saved, again
Unseen(evs) == {ev \in evs : ev \in LightEvidence \/ ev \notin pending}

\* CheckEvidence of a proposed block: evs is its evidence, up to the first that fails
CheckEvidence(evs) ==
  /\ size < MaxSize
  /\ \A ev \in Unseen(evs) : ev \notin committed /\ Verified(ev)
  /\ pending' = pending \cup evs
  /\ size' = size + Cardinality(Unseen(evs))
  /\ UNCHANGED <<committed, list, height, pruningHeight, buffer, adder, crashes>>

(***************************************************************************)
(* Mutant: evidence of a block is removed, and uncounted, whether it was   *)
(* pending or not.                                                         *)
(***************************************************************************)
UncountedAny(evs, inPool) == evs

\* processConsensusBuffer: the evidence made of the buffered votes of a height that is known
Reported(h) == {ev \in buffer : HeightOf(ev) <= h} \ (pending \cup committed)

\* markEvidenceAsCommitted removes the evidence that is pending
Uncounted(evs, inPool) == evs \cap inPool

(***************************************************************************)
(* Update with the state after the block at height + 1, which has evs: the *)
(* buffered votes become evidence, then evs is moved to the committed      *)
(* evidence, and then expired evidence is pruned if it is time to.         *)
(***************************************************************************)
Update(evs) ==
  /\ height < MaxHeight
  /\ LET h == height + 1
         reported == Reported(h)
         removed == Uncounted(evs, pending \cup reported)
         after == (pending \cup reported) \ removed
         count == size + Cardinality(reported) - Cardinality(removed)
         prune == count # 0 /\ h > pruningHeight
         expired == IF prune THEN RemovedAsExpired(after, h) ELSE {}
     IN  /\ height' = h
         /\ committed' = committed \cup evs
         /\ pending' = after \ expired
         /\ size' = count - Cardinality(expired)
         /\ list' = (list \cup reported) \ (removed \cup expired)
         /\ pruningHeight' = IF prune THEN NextPruning(after, h) ELSE pruningHeight
  /\ buffer' = {}
  /\ UNCHANGED <<adder, crashes>>

\* a block is decided with evidence that the others have verified
Decided(evs) ==
  /\ \A ev \in evs : ev \notin committed /\ HeightOf(ev) <= height
  /\ Update(evs)

----------------------------------------------------------------------------
(***************************************************************************)
(* A restart: the handshake may first replay a block whose Update was lost *)
(* with the crash, without the pool.                                       *)
(***************************************************************************)
Crash ==
  /\ crashes < MaxCrashes
  /\ crashes' = crashes + 1
  /\ \E h \in {height, height + 1} :
       /\ h <= MaxHeight /\ height' = h
       /\ NewPool(pending, h)
  /\ UNCHANGED committed

EvidenceNext ==
  \/ \E p \in Reporters : \/ \E ev \in Evidence : Receive(p, ev)
                          \/ CheckCommitted(p) \/ AddPending(p) \/ Count(p) \/ PushBack(p)
  \/ \E ev \in Evidence : ReportConflictingVotes(ev)
  \/ \E evs \in SUBSET Evidence : CheckEvidence(evs)
  \/ \E evs \in SUBSET Evidence : Decided(evs)
  \/ Crash

EvidenceSpec == EvidenceInit /\ [][EvidenceNext]_evidenceVars

----------------------------------------------------------------------------
(***************************************************************************)
(* Pending evidence is offered to the next proposal: PendingEvidence goes  *)
(* by the counter, and the counter is not zero while evidence is pending,  *)
(* unless an AddEvidence is between saving and counting; with evidence     *)
(* added twice at once, checked again, committed in between, expired, and  *)
(* reloaded after a crash.                                                 *)
(***************************************************************************)
PendingIsOffered == (\A p \in Reporters : adder[p].pc # "saved") /\ pending # {} => size > 0
=============================================================================

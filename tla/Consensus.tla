------------------------------ MODULE Consensus ------------------------------
(***************************************************************************)
(* consensus/state.go: the state machine of one validator in one height,    *)
(* with its timer (ticker.go), the votes of the height                      *)
(* (types/height_vote_set.go), the write-ahead log (wal.go) and the replay  *)
(* after a crash (catchupReplay in replay.go).                              *)
(*                                                                          *)
(* receiveRoutine handles one message or timeout at a time, so handling one *)
(* is one step.  The handlers call each other (addVote enters a round,      *)
(* which enters propose, which enters prevote); each is therefore an        *)
(* operator from a State to a State, and an action applies one to cs.       *)
(*                                                                          *)
(* The other validators are the environment: proposals, block parts and     *)
(* votes of any content, in any order, correct or not.  A vote set keeps    *)
(* the first vote of a validator (VoteSet has the rest of it), a block has  *)
(* one part, and sending to the peers is left out.                          *)
(***************************************************************************)
EXTENDS Integers, FiniteSetsExt, SequencesExt

CONSTANTS
  Validators, Power,   \* the validators and their voting power
  Self,                \* this validator
  Peers,               \* peers that hand on votes
  MaxRound,            \* bound on the rounds
  Blocks, Nil, None,   \* blocks; the vote for no block; nothing
  OwnRounds,           \* rounds in which Self is the proposer
  NewBlock,            \* what createProposalBlock returns
  QueueSize,           \* capacity of internalMsgQueue
  MaxCatchupRounds,    \* rounds a peer may open ahead of ours: 2 in the code
  Scenarios            \* what the environment may do

(***************************************************************************)
(* A scenario: the messages the peers send, the blocks ValidateBlock        *)
(* accepts, whether round 0 waits for transactions ("no", "txs" or          *)
(* "interval", config.WaitForTxs() without a proof block), whether the WAL  *)
(* holds #ENDHEIGHT of the height before, and a bound on the crashes.       *)
(***************************************************************************)
Scenario(sent, valid, wait, marked, maxCrashes) ==
  [sent |-> sent, valid |-> valid, wait |-> wait, marked |-> marked, maxCrashes |-> maxCrashes]

Rounds == 0..MaxRound
Values == Blocks \cup {Nil}
Types == {"prevote", "precommit"}

ASSUME SelfAssumption == Self \in Validators
ASSUME PowerAssumption == Power \in [Validators -> Nat \ {0}]
ASSUME NoneAssumption == None \notin Values /\ Nil \notin Blocks
ASSUME NewBlockAssumption == NewBlock \in Blocks /\ \A s \in Scenarios : NewBlock \in s.valid

VARIABLES
  env,      \* the scenario
  cs,       \* the State
  tocks,    \* timeouts that fired and wait in tockChan
  queue,    \* internalMsgQueue
  spill,    \* own messages in goroutines, for which the queue had no room
  written,  \* the State that a replay of every message written to the WAL gives
  disk,     \* the same for the messages that are synced to disk
  lss,      \* last sign state of the private validator
  said,     \* history: votes and proposals it has signed
  heard,    \* history: votes it has handled
  crashes

vars == <<env, cs, tocks, queue, spill, written, disk, lss, said, heard, crashes>>

(***************************************************************************)
(* Steps of a round, in order (RoundStepType).  PrecommitWait is only the   *)
(* name of a timeout.                                                       *)
(***************************************************************************)
NewHeight == 1
NewRound == 2
Propose == 3
PrevoteStep == 4
PrevoteWait == 5
PrecommitStep == 6
PrecommitWait == 7
CommitStep == 8

Vote(type, r, v, b) == [type |-> type, round |-> r, val |-> v, block |-> b]

(***************************************************************************)
(* RoundState at the start of a height (updateToState, HeightVoteSet.Reset) *)
(* with the timer for round 0 scheduled.  ti is the timer's last timeout;   *)
(* asked are the messages it asked the private validator to sign.           *)
(***************************************************************************)
UpdateToState ==
  [round |-> 0, step |-> NewHeight,
   proposal |-> None, block |-> None, parts |-> None,
   lockedRound |-> -1, locked |-> None,
   validRound |-> -1, validBlock |-> None,
   votes |-> [t \in Types |-> [r \in Rounds |-> [v \in Validators |-> None]]],
   tracked |-> {0}, hround |-> 0, catchup |-> [p \in Peers \cup {Self} |-> {}],
   commitRound |-> -1, triggered |-> FALSE,
   ti |-> [round |-> 0, step |-> NewHeight], armed |-> TRUE,
   asked |-> {}, decided |-> None, panicked |-> FALSE]

-----------------------------------------------------------------------------
(***************************************************************************)
(* The vote sets.  A set that is not tracked is empty.                      *)
(***************************************************************************)
PowerOf(S) == MapThenSumSet(LAMBDA v : Power[v], S)
Quorums == {S \in SUBSET Validators : 3 * PowerOf(S) > 2 * PowerOf(Validators)}

(***************************************************************************)
(* TwoThirdsMajority, HasTwoThirdsAny.                                      *)
(***************************************************************************)
AnyOf(S) == IF S = {} THEN None ELSE CHOOSE b \in S : TRUE
Majority(c, t, r) == AnyOf({b \in Values : {v \in Validators : c.votes[t][r][v] = b} \in Quorums})
HasTwoThirdsAny(c, t, r) == {v \in Validators : c.votes[t][r][v] # None} \in Quorums

(***************************************************************************)
(* POLInfo: the last round up to hround with a majority of prevotes.        *)
(***************************************************************************)
POLRound(c) == Max({-1} \cup {r \in Rounds : r <= c.hround /\ Majority(c, "prevote", r) # None})

SetRound(c, r) == [c EXCEPT !.tracked = @ \cup {x \in Rounds : c.hround - 1 <= x /\ x <= r},
                            !.hround = r]

-----------------------------------------------------------------------------
(***************************************************************************)
(* Mutant: the timer takes a timeout of an earlier step, too.               *)
(***************************************************************************)
ScheduleAny(c, r, step) == [c EXCEPT !.ti = [round |-> r, step |-> step], !.armed = TRUE]

(***************************************************************************)
(* scheduleTimeout and timeoutRoutine: a timeout of the same or an earlier  *)
(* step is ignored, a later one replaces the timer.                         *)
(***************************************************************************)
Schedule(c, r, step) ==
  IF r < c.ti.round \/ (r = c.ti.round /\ step <= c.ti.step) THEN c
  ELSE [c EXCEPT !.ti = [round |-> r, step |-> step], !.armed = TRUE]

(***************************************************************************)
(* signAddVote and SignProposal: what is asked of the private validator.    *)
(* The answer comes back as an own message.                                 *)
(***************************************************************************)
SignAddVote(c, t, b) == [c EXCEPT !.asked = @ \cup {[type |-> t, round |-> c.round, block |-> b, pol |-> -1]}]

DecideProposal(c) ==
  [c EXCEPT !.asked = @ \cup
    {[type |-> "proposal", round |-> c.round, pol |-> c.validRound,
      block |-> IF c.validBlock # None THEN c.validBlock ELSE NewBlock]}]

IsProposalComplete(c) ==
  /\ c.proposal # None
  /\ c.block # None
  /\ c.proposal.pol < 0 \/ Majority(c, "prevote", c.proposal.pol) # None

(***************************************************************************)
(* The guard of the enter functions: the step lies behind, or the handler   *)
(* has panicked on its way.                                                 *)
(***************************************************************************)
Behind(c, r, step) == c.panicked \/ r < c.round \/ (r = c.round /\ step <= c.step)

DoPrevote(c) ==
  IF c.locked # None THEN SignAddVote(c, "prevote", c.locked)
  ELSE IF c.block \in env.valid THEN SignAddVote(c, "prevote", c.block)
  ELSE SignAddVote(c, "prevote", Nil)

EnterPrevote(c, r) ==
  IF Behind(c, r, PrevoteStep) THEN c
  ELSE [DoPrevote(c) EXCEPT !.round = r, !.step = PrevoteStep]

PrevoteIfComplete(c) == IF IsProposalComplete(c) THEN EnterPrevote(c, c.round) ELSE c
ProposeIfOwn(c, r) == IF r \in OwnRounds THEN DecideProposal(c) ELSE c

EnterPropose(c, r) ==
  IF Behind(c, r, Propose) THEN c
  ELSE PrevoteIfComplete([ProposeIfOwn(Schedule(c, r, Propose), r) EXCEPT !.round = r, !.step = Propose])

ResetProposal(c) == [c EXCEPT !.proposal = None, !.block = None, !.parts = None]

ProposeOrWait(c, r) ==
  CASE env.wait = "no" \/ r # 0 -> EnterPropose(c, r)
    [] env.wait = "interval" /\ r = 0 -> Schedule(c, r, NewRound)
    [] env.wait = "txs" /\ r = 0 -> c

EnterNewRound(c, r) ==
  IF c.panicked \/ r < c.round \/ (r = c.round /\ c.step # NewHeight) THEN c
  ELSE ProposeOrWait([SetRound(IF r = 0 THEN c ELSE ResetProposal(c), r + 1)
                        EXCEPT !.round = r, !.step = NewRound, !.triggered = FALSE], r)

EnterPrevoteWait(c, r) ==
  IF Behind(c, r, PrevoteWait) THEN c
  ELSE [Schedule(c, r, PrevoteWait) EXCEPT !.round = r, !.step = PrevoteWait]

(***************************************************************************)
(* enterPrecommit: nil without a polka; with one for nil unlock; with one   *)
(* for the locked block lock again; with one for the proposal lock it;      *)
(* otherwise unlock and fetch the block.                                    *)
(***************************************************************************)
Unlock(c) == [c EXCEPT !.lockedRound = -1, !.locked = None]
Lock(c, r, b) == [c EXCEPT !.lockedRound = r, !.locked = b]
Expect(c, b) == IF c.parts = b THEN c ELSE [c EXCEPT !.block = None, !.parts = b]

DoPrecommit(c, r, polka) ==
  CASE polka = None -> SignAddVote(c, "precommit", Nil)
    [] polka = Nil -> SignAddVote(Unlock(c), "precommit", Nil)
    [] polka \in Blocks /\ polka \in {c.locked, c.block} -> SignAddVote(Lock(c, r, polka), "precommit", polka)
    [] polka \in Blocks /\ polka \notin {c.locked, c.block} ->
         SignAddVote(Expect(Unlock(c), polka), "precommit", Nil)

(***************************************************************************)
(* The panics of enterPrecommit: POLInfo lags behind, or the block with the *)
(* polka is invalid.                                                        *)
(***************************************************************************)
PrecommitPanics(c, r, polka) ==
  \/ polka # None /\ POLRound(c) < r
  \/ polka \in Blocks \ env.valid /\ polka # c.locked /\ polka = c.block

PrecommitOn(c, r, polka) ==
  IF PrecommitPanics(c, r, polka) THEN [c EXCEPT !.panicked = TRUE]
  ELSE [DoPrecommit(c, r, polka) EXCEPT !.round = r, !.step = PrecommitStep]

EnterPrecommit(c, r) ==
  IF Behind(c, r, PrecommitStep) THEN c ELSE PrecommitOn(c, r, Majority(c, "prevote", r))

EnterPrecommitWait(c, r) ==
  IF c.panicked \/ r < c.round \/ (r = c.round /\ c.triggered) THEN c
  ELSE [Schedule(c, r, PrecommitWait) EXCEPT !.triggered = TRUE]

(***************************************************************************)
(* tryFinalizeCommit and finalizeCommit: the end of the height.             *)
(***************************************************************************)
TryFinalizeCommit(c) ==
  IF c.block # Majority(c, "precommit", c.commitRound) THEN c
  ELSE IF c.block \in env.valid THEN [c EXCEPT !.decided = c.block] ELSE [c EXCEPT !.panicked = TRUE]

(***************************************************************************)
(* The block to commit is the locked one, the proposal, or still to come.   *)
(***************************************************************************)
CommitBlock(c, maj) ==
  CASE c.locked = maj -> [c EXCEPT !.block = maj, !.parts = maj]
    [] c.locked # maj /\ c.block = maj -> c
    [] c.locked # maj /\ c.block # maj -> Expect(c, maj)

EnterCommit(c, r) ==
  IF c.panicked \/ CommitStep <= c.step THEN c
  ELSE TryFinalizeCommit([CommitBlock(c, Majority(c, "precommit", r))
                            EXCEPT !.step = CommitStep, !.commitRound = r])

-----------------------------------------------------------------------------
(***************************************************************************)
(* setProposal.  The signature of the proposer is part of the message.      *)
(***************************************************************************)
SetProposal(c, m) ==
  IF c.proposal # None \/ m.round # c.round \/ ~(m.pol = -1 \/ m.pol \in 0..m.round - 1) THEN c
  ELSE [c EXCEPT !.proposal = [block |-> m.block, pol |-> m.pol],
                 !.parts = IF @ = None THEN m.block ELSE @]

(***************************************************************************)
(* handleCompleteProposal.                                                  *)
(***************************************************************************)
ProposalValid(c, polka) ==
  IF polka \in Blocks /\ c.validRound < c.round /\ c.block = polka
  THEN [c EXCEPT !.validRound = c.round, !.validBlock = c.block] ELSE c

PrecommitIf(polka, c) == IF polka # None THEN EnterPrecommit(c, c.round) ELSE c

VoteOnProposal(c, polka) ==
  IF c.step <= Propose /\ IsProposalComplete(c) THEN PrecommitIf(polka, EnterPrevote(c, c.round))
  ELSE IF c.step = CommitStep THEN TryFinalizeCommit(c) ELSE c

CompleteProposal(c, polka) == VoteOnProposal(ProposalValid(c, polka), polka)
HandleCompleteProposal(c) == CompleteProposal(c, Majority(c, "prevote", c.round))

(***************************************************************************)
(* addProposalBlockPart: a part that fits the header completes the block.   *)
(***************************************************************************)
AddProposalBlockPart(c, m) ==
  IF c.parts # m.block \/ c.block # None THEN c
  ELSE HandleCompleteProposal([c EXCEPT !.block = m.block])

-----------------------------------------------------------------------------
(***************************************************************************)
(* A majority of prevotes: unlock if it is newer than the lock and not      *)
(* ahead of the round, and update the valid block.                          *)
(***************************************************************************)
UnlockOnPolka(c, r, polka) ==
  IF /\ polka # None
     /\ c.locked \notin {None, polka}
     /\ c.lockedRound < r
     /\ r <= c.round
  THEN Unlock(c) ELSE c

(***************************************************************************)
(* Mutant: the valid block is the proposal, whatever has the majority.      *)
(***************************************************************************)
UpdateValidProposal(c, r, polka) ==
  IF polka \in Blocks /\ c.validRound < r /\ r = c.round /\ c.block # None
  THEN [c EXCEPT !.validRound = r, !.validBlock = c.block] ELSE c

UpdateValid(c, r, polka) ==
  IF ~(polka \in Blocks /\ c.validRound < r /\ r = c.round) THEN c
  ELSE IF c.block = polka THEN [c EXCEPT !.validRound = r, !.validBlock = polka]
  ELSE [c EXCEPT !.block = None, !.parts = polka]

MoveOnPrevotes(c, r, polka, any) ==
  IF c.round < r /\ any THEN EnterNewRound(c, r)
  ELSE IF c.round = r /\ PrevoteStep <= c.step
       THEN IF polka = Nil \/ (polka # None /\ IsProposalComplete(c)) THEN EnterPrecommit(c, r)
            ELSE IF any THEN EnterPrevoteWait(c, r) ELSE c
  ELSE IF c.proposal # None /\ c.proposal.pol = r THEN PrevoteIfComplete(c)
  ELSE c

AfterPolka(c, r, polka) ==
  MoveOnPrevotes(UpdateValid(UnlockOnPolka(c, r, polka), r, polka), r, polka, HasTwoThirdsAny(c, "prevote", r))

AfterPrevote(c, r) == AfterPolka(c, r, Majority(c, "prevote", r))

(***************************************************************************)
(* A majority of precommits ends the round or the height; two thirds of any *)
(* precommits start the timer.                                              *)
(***************************************************************************)
MoveOnPrecommits(c, r, maj) ==
  IF maj = None THEN EnterPrecommitWait(c, r)
  ELSE IF maj = Nil THEN EnterPrecommitWait(EnterPrecommit(c, r), r)
  ELSE EnterCommit(EnterPrecommit(c, r), r)

AfterMajority(c, r, maj) ==
  IF maj # None \/ (c.round <= r /\ HasTwoThirdsAny(c, "precommit", r))
  THEN MoveOnPrecommits(EnterNewRound(c, r), r, maj) ELSE c

AfterPrecommit(c, r) == AfterMajority(c, r, Majority(c, "precommit", r))

(***************************************************************************)
(* Mutant: a peer may open any number of rounds.                            *)
(***************************************************************************)
OpensAny(c, r, p) == TRUE

(***************************************************************************)
(* HeightVoteSet.AddVote: a round that is not tracked is opened for the     *)
(* peer, unless it has used up its catch-up rounds.  An own vote comes from *)
(* the peer "".                                                             *)
(***************************************************************************)
Opens(c, r, p) == r \in c.tracked \/ Cardinality(c.catchup[p]) < MaxCatchupRounds

OpenRound(c, r, p) ==
  IF r \in c.tracked THEN c
  ELSE [c EXCEPT !.tracked = @ \cup {r}, !.catchup[p] = @ \cup {r}]

(***************************************************************************)
(* tryAddVote and addVote.                                                  *)
(***************************************************************************)
AfterVote(c, w) == IF w.type = "prevote" THEN AfterPrevote(c, w.round) ELSE AfterPrecommit(c, w.round)

AddFirst(c, w) ==
  IF c.votes[w.type][w.round][w.val] # None THEN c
  ELSE AfterVote([c EXCEPT !.votes[w.type][w.round][w.val] = w.block], w)

AddVote(c, w, p) == IF Opens(c, w.round, p) THEN AddFirst(OpenRound(c, w.round, p), w) ELSE c

-----------------------------------------------------------------------------
HandleTimeout(c, ti) ==
  CASE ti.round < c.round \/ (ti.round = c.round /\ ti.step < c.step) -> c
    [] ti.round >= c.round /\ (ti.round = c.round => ti.step >= c.step) ->
         CASE ti.step = NewHeight -> EnterNewRound(c, 0)
           [] ti.step = NewRound -> EnterPropose(c, 0)
           [] ti.step = Propose -> EnterPrevote(c, ti.round)
           [] ti.step = PrevoteWait -> EnterPrecommit(c, ti.round)
           [] ti.step = PrecommitWait -> EnterNewRound(EnterPrecommit(c, ti.round), ti.round + 1)

(***************************************************************************)
(* handleMsg and handleTimeout: what a message of the WAL does to a State,  *)
(* when it comes in and when it is replayed.                                *)
(***************************************************************************)
Handle(c, m) ==
  CASE m.kind = "proposal" -> SetProposal(c, m)
    [] m.kind = "part" -> AddProposalBlockPart(c, m)
    [] m.kind = "vote" -> AddVote(c, m.vote, m.peer)
    [] m.kind = "timeout" -> HandleTimeout(c, m.ti)

ProposalMsg(r, b, pol) == [kind |-> "proposal", round |-> r, block |-> b, pol |-> pol]
PartMsg(b) == [kind |-> "part", block |-> b]
VoteMsg(w, p) == [kind |-> "vote", vote |-> w, peer |-> p]
TimeoutMsg(ti) == [kind |-> "timeout", ti |-> ti]

-----------------------------------------------------------------------------
(***************************************************************************)
(* The private validator (FilePV has its detail): it signs what comes after *)
(* its last signature, and the same message again.                          *)
(***************************************************************************)
Rank(q) == CASE q.type = "proposal" -> 1 [] q.type = "prevote" -> 2 [] q.type = "precommit" -> 3
After(q, last) == q.round > last.round \/ (q.round = last.round /\ Rank(q) > Rank(last))

(***************************************************************************)
(* The requests that a handler, or a replay, makes, in their order; and     *)
(* those of the sequence that are signed.  A new block is not the same      *)
(* block when it is made again after a restart.                             *)
(***************************************************************************)
InRequestOrder(S) == SetToSortSeq(S, LAMBDA p, q : After(q, p))

Sign(last, requests, remade) ==
  FoldLeft(LAMBDA s, q :
             IF After(q, s.last) \/ (q = s.last /\ ~(remade /\ q.type = "proposal" /\ q.pol < 0))
             THEN [last |-> q, out |-> Append(s.out, q)] ELSE s,
           [last |-> last, out |-> <<>>], requests)

(***************************************************************************)
(* sendInternalMessage: the signed messages go to the queue, and to         *)
(* goroutines when it is full.                                              *)
(***************************************************************************)
OwnMsgs(q) ==
  IF q.type = "proposal" THEN <<ProposalMsg(q.round, q.block, q.pol), PartMsg(q.block)>>
  ELSE <<VoteMsg(Vote(q.type, q.round, Self, q.block), Self)>>

SendInternal(q, s, signed) ==
  LET msgs == FlattenSeq([i \in DOMAIN signed |-> OwnMsgs(signed[i])])
      room == Min({QueueSize - Len(q), Len(msgs)})
  IN  /\ queue' = q \o SubSeq(msgs, 1, room)
      /\ spill' = s \cup {msgs[i] : i \in room + 1 .. Len(msgs)}

(***************************************************************************)
(* The vote that a message has added.                                       *)
(***************************************************************************)
Added(c, m) ==
  IF m.kind = "vote" THEN {w \in {m.vote} : c.votes[w.type][w.round][w.val] = w.block} ELSE {}

-----------------------------------------------------------------------------
NoRequest == [type |-> "proposal", round |-> -1, block |-> None, pol |-> -1]

Init ==
  /\ env \in Scenarios
  /\ cs = UpdateToState
  /\ tocks = {}
  /\ queue = <<>>
  /\ spill = {}
  /\ written = UpdateToState
  /\ disk = UpdateToState
  /\ lss = NoRequest
  /\ said = {}
  /\ heard = {}
  /\ crashes = 0

Running == cs.decided = None /\ ~cs.panicked

(***************************************************************************)
(* receiveRoutine handles a message.  It is written to the WAL first.  The  *)
(* WAL is synced before an own message is handled and before anything is    *)
(* signed.  When no crash can follow, the WAL is not kept.                  *)
(***************************************************************************)
Requests(c, d) == InRequestOrder(d.asked \ c.asked)

(***************************************************************************)
(* What was signed is sent to the own queue.                                *)
(***************************************************************************)
SendSigned(signed, q, s) ==
  /\ lss' = signed.last
  /\ said' = said \cup ToSet(signed.out)
  /\ SendInternal(q, s, signed.out)

Log(m, synced) ==
  IF crashes = env.maxCrashes THEN UNCHANGED <<written, disk>>
  ELSE /\ written' = Handle(written, m)
       /\ disk' = IF synced THEN written' ELSE disk

(***************************************************************************)
(* Mutant: a vote is signed before the WAL is synced.                       *)
(***************************************************************************)
ReceiveUnsynced(m, own, q, s) ==
  /\ cs' = Handle(cs, m)
  /\ Log(m, own)
  /\ SendSigned(Sign(lss, Requests(cs, cs'), FALSE), q, s)
  /\ heard' = heard \cup Added(cs', m)
  /\ UNCHANGED <<env, crashes>>

Receive(m, own, q, s) ==
  /\ cs' = Handle(cs, m)
  /\ Log(m, own \/ Requests(cs, cs') # <<>>)
  /\ SendSigned(Sign(lss, Requests(cs, cs'), FALSE), q, s)
  /\ heard' = heard \cup Added(cs', m)
  /\ UNCHANGED <<env, crashes>>

(***************************************************************************)
(* Restart: catchupReplay handles the messages of the WAL again, and the    *)
(* private validator answers again.  The timer runs.  Without the           *)
(* #ENDHEIGHT mark the replay fails and OnStart goes on with the state at   *)
(* the start of the height.  before are the signatures made since the sync, *)
(* new the vote handled since.                                              *)
(***************************************************************************)
Restart(d, new, before) ==
  \E remade \in BOOLEAN :
    LET c == IF env.marked THEN [d EXCEPT !.armed = TRUE] ELSE UpdateToState
        signed == Sign(before.last, InRequestOrder(c.asked), remade)
    IN  /\ crashes < env.maxCrashes
        /\ crashes' = crashes + 1
        /\ cs' = c
        /\ written' = IF crashes' = env.maxCrashes THEN UpdateToState ELSE c
        /\ disk' = IF crashes' = env.maxCrashes THEN UpdateToState ELSE c
        /\ tocks' = {}
        /\ lss' = signed.last
        /\ said' = said \cup ToSet(before.out) \cup ToSet(signed.out)
        /\ heard' = heard \cup new
        /\ SendInternal(<<>>, {}, signed.out)
        /\ UNCHANGED env

(***************************************************************************)
(* A crash between two messages, and a crash in the middle of a handler:    *)
(* the WAL is synced and some of the requests are signed.                   *)
(***************************************************************************)
Crash == Running /\ Restart(disk, {}, Sign(lss, <<>>, FALSE))

CrashAmong(requests, d, new) ==
  \E k \in 0 .. Len(requests) - 1 : Restart(d, new, Sign(lss, SubSeq(requests, 1, k), FALSE))

CrashIn(m) ==
  \E c \in {Handle(cs, m)} : CrashAmong(Requests(cs, c), Handle(written, m), Added(c, m))

-----------------------------------------------------------------------------
(***************************************************************************)
(* A message comes in from a peer.  They come in any order, any number of   *)
(* times or not at all.  The peers also have the own votes that were added, *)
(* which are gossiped from there.                                           *)
(***************************************************************************)
PeerMsgs == env.sent \cup {VoteMsg(w, p) : w \in {x \in heard : x.val = Self}, p \in Peers}

ReceivePeerMsg ==
  /\ Running
  /\ \E m \in PeerMsgs :
       \/ Receive(m, FALSE, queue, spill) /\ UNCHANGED tocks
       \/ CrashIn(m)

(***************************************************************************)
(* An own message, synced to the WAL and then handled.                      *)
(***************************************************************************)
ReceiveOwnMsg ==
  /\ Running
  /\ queue # <<>>
  /\ \/ Receive(Head(queue), TRUE, Tail(queue), spill) /\ UNCHANGED tocks
     \/ CrashIn(Head(queue))

(***************************************************************************)
(* A goroutine of sendInternalMessage finds room in the queue.              *)
(***************************************************************************)
Enqueue ==
  /\ Len(queue) < QueueSize
  /\ \E m \in spill :
       /\ queue' = Append(queue, m)
       /\ spill' = spill \ {m}
  /\ UNCHANGED <<env, cs, tocks, written, disk, lss, said, heard, crashes>>

(***************************************************************************)
(* The timer fires.  The timeout waits in a goroutine for receiveRoutine.   *)
(***************************************************************************)
Fire ==
  /\ Running
  /\ cs.armed
  /\ tocks' = tocks \cup {cs.ti}
  /\ cs' = [cs EXCEPT !.armed = FALSE]
  /\ UNCHANGED <<env, queue, spill, written, disk, lss, said, heard, crashes>>

(***************************************************************************)
(* handleTimeout, in the rounds considered.                                 *)
(***************************************************************************)
Timeout ==
  /\ Running
  /\ \E ti \in tocks :
       /\ ti.round = MaxRound => ti.step # PrecommitWait
       /\ \/ Receive(TimeoutMsg(ti), FALSE, queue, spill) /\ tocks' = tocks \ {ti}
          \/ CrashIn(TimeoutMsg(ti))

(***************************************************************************)
(* handleTxsAvailable.  It is not written to the WAL.                       *)
(***************************************************************************)
HandleTxsAvailable(c) ==
  CASE c.round = 0 /\ c.step = NewHeight -> Schedule(c, 0, NewRound)
    [] c.round = 0 /\ c.step = NewRound -> EnterPropose(c, 0)
    [] c.round # 0 \/ c.step \notin {NewHeight, NewRound} -> c

TxsAvailable ==
  /\ Running
  /\ env.wait # "no"
  /\ cs' = HandleTxsAvailable(cs)
  /\ disk' = IF Requests(cs, cs') = <<>> THEN disk ELSE written
  /\ SendSigned(Sign(lss, Requests(cs, cs'), FALSE), queue, spill)
  /\ UNCHANGED <<env, tocks, written, heard, crashes>>

Next ==
  \/ ReceivePeerMsg
  \/ ReceiveOwnMsg
  \/ Enqueue
  \/ Fire
  \/ Timeout
  \/ TxsAvailable
  \/ Crash

(***************************************************************************)
(* Fairness: receiveRoutine runs and its select is fair to the own queue    *)
(* and to the timeouts, the goroutines run and the timer fires.  Nothing is *)
(* assumed of the peers.  Each of these steps can happen only finitely      *)
(* often in a height, so that weak fairness of it says what is written      *)
(* here: it is not enabled for ever.                                        *)
(***************************************************************************)
Handled == {ti \in tocks : ti.round < MaxRound \/ ti.step # PrecommitWait} = {}

Fairness ==
  /\ []<>(~Running \/ ~cs.armed)
  /\ []<>(~Running \/ Handled)
  /\ []<>(~Running \/ (queue = <<>> /\ spill = {}))

Spec == Init /\ [][Next]_vars /\ Fairness

-----------------------------------------------------------------------------
(***************************************************************************)
(* What this validator says, through crashes, full queues and late          *)
(* timeouts, is what CorrectValidator allows: one vote of a type in a       *)
(* round, in order, true to every lock, and a decision only on a commit.    *)
(***************************************************************************)
VotesSaid == {Vote(q.type, q.round, Self, q.block) : q \in {x \in said : x.type \in Types}}

CV == INSTANCE CorrectValidator WITH said <- VotesSaid, decision <- cs.decided

ImplementsValidator == CV!Spec

(***************************************************************************)
(* A proposal signed with a proof-of-lock round names a block that had a    *)
(* polka in that round, and an earlier round than its own.  A validator     *)
(* that locks on a later block would otherwise never accept it.             *)
(***************************************************************************)
ProposalJustified ==
  \A q \in said :
    q.type = "proposal" /\ q.pol >= 0 => q.pol < q.round /\ CV!Polka(heard, q.pol, q.block)

(***************************************************************************)
(* A peer makes the validator track a bounded number of rounds ahead.       *)
(***************************************************************************)
CatchupBounded ==
  Cardinality({r \in cs.tracked : r > cs.hround}) <= MaxCatchupRounds * Cardinality(Peers)

HeldUp(c) == HasTwoThirdsAny(c, "precommit", c.round) /\ c.step # CommitStep /\ Running
HeldUpIn(r) == cs.round = r /\ HeldUp(cs)

(***************************************************************************)
(* Two thirds of precommits in the current round get the validator out of   *)
(* the round: into a later one, to the commit, or to a panic.               *)
(***************************************************************************)
RoundProgress ==
  \A r \in Rounds \ {MaxRound} : HeldUpIn(r) ~> ~HeldUpIn(r)
=============================================================================

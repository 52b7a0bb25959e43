----------------------------- MODULE MCConsensus -----------------------------
(***************************************************************************)
(* Three validators, of which the two with the power 1 and 2 are a quorum   *)
(* together: Self has 1, x has 1, y has 2 of 4.                             *)
(***************************************************************************)
EXTENDS Consensus

CONSTANTS self, x, y, a, b, p

MCPower == (self :> 1) @@ (x :> 1) @@ (y :> 2)
(***************************************************************************)
(* What the peers send, in any order.                                       *)
(*   Relock: a lock on a in round 0, precommits for nil.                    *)
(*   Unlock: a lock on a, in round 1 a polka for b that may come late.      *)
(*   Late: a polka for a in round 0 that may come after a lock in round 1.  *)
(*   Wrong: a polka for another block than the proposal.                    *)
(*   Skip: two thirds of any votes in later rounds, and a commit.           *)
(*   Split: precommits that come before the prevotes.                       *)
(***************************************************************************)
PV(r, v, blk) == VoteMsg(Vote("prevote", r, v, blk), p)
PC(r, v, blk) == VoteMsg(Vote("precommit", r, v, blk), p)

Relock == {ProposalMsg(0, a, -1), PartMsg(a), PV(0, y, a), PC(0, x, Nil), PC(0, y, Nil)}
UnlockLater == {PartMsg(a), PV(0, y, a), PC(0, y, Nil), PV(1, x, b), PV(1, y, b), PC(1, y, Nil), PartMsg(b)}
Late == {PV(0, x, a), PV(0, y, a), PC(0, y, Nil), PV(1, y, b), PC(1, y, Nil), ProposalMsg(2, a, 0), PartMsg(a)}
Wrong == {ProposalMsg(0, a, -1), PartMsg(a), PV(0, x, b), PV(0, y, b), PC(0, y, Nil)}
Skip == {PV(1, x, b), PV(1, y, a), PC(2, x, a), PC(2, y, a), PartMsg(a)}
Split == {ProposalMsg(0, a, -1), PartMsg(a), PC(0, x, Nil), PC(0, y, a), PV(0, y, a), PC(1, y, a)}

MCScenarios ==
  {Scenario(sent, {a, b}, "no", TRUE, 0) : sent \in {UnlockLater, Late, Wrong, Skip, Split}}
  \cup {Scenario(Split, {b}, "no", TRUE, 0),
        Scenario(Relock, {a, b}, "no", TRUE, 1),
        Scenario(Relock \ {PC(0, x, Nil)}, {a, b}, "txs", TRUE, 1),
        Scenario(Relock, {a, b}, "interval", TRUE, 0)}
UnmarkedScenarios == {Scenario(Relock, {a, b}, "no", FALSE, 1)}
=============================================================================

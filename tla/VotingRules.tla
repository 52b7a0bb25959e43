----------------------------- MODULE VotingRules -----------------------------
(***************************************************************************)
(* What consensus/state.go lets a correct validator sign in one height,     *)
(* stated without the state machine that decides it.  CorrectValidator uses *)
(* these rules for one validator, Locking for all of them.                  *)
(*                                                                          *)
(* A vote is a record of its type, round, validator and block, where the    *)
(* block may be Nil.                                                        *)
(***************************************************************************)
EXTENDS Integers

CONSTANTS Validators, \* the validators of the height
          Quorums,    \* the sets of validators with more than two thirds
          Rounds,     \* the rounds considered
          Blocks,     \* blocks that can be proposed
          Nil         \* the vote for no block

ASSUME RoundsAssumption == Rounds \subseteq Nat
ASSUME NilAssumption == Nil \notin Blocks
ASSUME QuorumsAssumption == Quorums \subseteq SUBSET Validators

Values == Blocks \cup {Nil}
Votes == [type: {"prevote", "precommit"}, round: Rounds, val: Validators, block: Values]
Prevote(v, r, b) == [type |-> "prevote", round |-> r, val |-> v, block |-> b]
Precommit(v, r, b) == [type |-> "precommit", round |-> r, val |-> v, block |-> b]

(***************************************************************************)
(* A polka: a quorum of prevotes for one value.  A commit: a quorum of      *)
(* precommits for one block.                                                *)
(***************************************************************************)
Polka(votes, r, b) == \E Q \in Quorums : \A v \in Q : Prevote(v, r, b) \in votes
Commit(votes, r, b) == \E Q \in Quorums : \A v \in Q : Precommit(v, r, b) \in votes

(***************************************************************************)
(* Votes of one validator are in order: one prevote and then one precommit  *)
(* in a round, none after a vote of a later round.                          *)
(***************************************************************************)
Before(x, w) ==
  \/ x.round < w.round
  \/ x.round = w.round /\ x.type = "prevote" /\ w.type = "precommit"

InOrder(said, w) == \A x \in said : x.val = w.val => Before(x, w)

(***************************************************************************)
(* A prevote respects every lock: against a block the validator has         *)
(* precommitted it needs a later polka for something else.                  *)
(***************************************************************************)
MayPrevote(said, heard, v, r, b) ==
  /\ InOrder(said, Prevote(v, r, b))
  /\ \A w \in said :
       (w.val = v /\ w.type = "precommit" /\ w.block \notin {Nil, b})
         => \E p \in Rounds, x \in Values :
              w.round < p /\ p <= r /\ x # w.block /\ Polka(heard, p, x)

(***************************************************************************)
(* A precommit for a block needs a polka for it in the same round.          *)
(***************************************************************************)
MayPrecommit(said, heard, v, r, b) ==
  /\ InOrder(said, Precommit(v, r, b))
  /\ b # Nil => Polka(heard, r, b)

(***************************************************************************)
(* The vote w is allowed to a validator that said and heard these votes.    *)
(***************************************************************************)
May(said, heard, w) ==
  IF w.type = "prevote" THEN MayPrevote(said, heard, w.val, w.round, w.block)
                        ELSE MayPrecommit(said, heard, w.val, w.round, w.block)
=============================================================================

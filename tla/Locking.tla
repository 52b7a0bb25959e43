------------------------------- MODULE Locking -------------------------------
(***************************************************************************)
(* One height decided by all validators.  The correct ones sign by          *)
(* VotingRules, which Consensus is shown to implement; the faulty ones sign *)
(* what they like.  A correct validator has heard some of the votes that    *)
(* were cast, in any order; since the rules only ask for polkas to exist,   *)
(* taking what it heard to be all votes cast allows at least as much.       *)
(***************************************************************************)
EXTENDS VotingRules

CONSTANT Faulty  \* validators that do not follow the rules

(***************************************************************************)
(* Faulty validators have less than a third of the power, so two quorums    *)
(* have a correct validator in common.                                      *)
(***************************************************************************)
ASSUME FaultyAssumption ==
  /\ Faulty \subseteq Validators
  /\ \A Q1, Q2 \in Quorums : \E v \in Q1 \cap Q2 : v \notin Faulty

VARIABLE cast  \* the votes signed so far

Correct == Validators \ Faulty

(***************************************************************************)
(* Every vote of a faulty validator may be heard at any time, so they are   *)
(* there from the start.                                                    *)
(***************************************************************************)
Init == cast = {w \in Votes : w.val \in Faulty}

(***************************************************************************)
(* Mutant: prevoting against a lock needs no polka.                         *)
(***************************************************************************)
CastPrevoteUnlocked(v, r, b) ==
  /\ InOrder(cast, Prevote(v, r, b))
  /\ cast' = cast \cup {Prevote(v, r, b)}

CastPrevote(v, r, b) ==
  /\ MayPrevote(cast, cast, v, r, b)
  /\ cast' = cast \cup {Prevote(v, r, b)}

CastPrecommit(v, r, b) ==
  /\ MayPrecommit(cast, cast, v, r, b)
  /\ cast' = cast \cup {Precommit(v, r, b)}

Next == \E v \in Correct, r \in Rounds, b \in Values :
          CastPrevote(v, r, b) \/ CastPrecommit(v, r, b)

Spec == Init /\ [][Next]_cast

(***************************************************************************)
(* Agreement: two commits of one height, in whatever rounds, are for the    *)
(* same block.  This is what finalizeCommit relies on when it saves and     *)
(* applies a block on the strength of one round's precommits.               *)
(***************************************************************************)
Agreement ==
  \A r1, r2 \in Rounds, b1, b2 \in Blocks :
    Commit(cast, r1, b1) /\ Commit(cast, r2, b2) => b1 = b2
=============================================================================

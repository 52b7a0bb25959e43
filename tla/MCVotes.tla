------------------------------- MODULE MCVotes ------------------------------
(***************************************************************************)
(* What voting rests on, for TLC: the rules of locking (four validators,   *)
(* one of them faulty, two rounds), the counting of the votes of a round   *)
(* (a total power of 5, of which a quorum is 4, with the faulty validators *)
(* below a third and above) and the pool of evidence of double votes.  The *)
(* parts share no state: one runs and the others stay in an initial state. *)
(***************************************************************************)
EXTENDS Locking, VoteSet, EvidencePool, TLC

CONSTANTS v1, v2, v3, v4, a, b, w1, w2, w3, w4

VARIABLE part   \* the part that runs

MCValidators == {v1, v2, v3, v4}
MCQuorums == {Q \in SUBSET MCValidators : 3 * Cardinality(Q) > 2 * Cardinality(MCValidators)}
MCBlocks == {a, b}
MCFaulty == {v4}
MCRounds == 0 .. 1

MCVoters == {w1, w2, w3, w4}
MCPower == [v \in MCVoters |-> IF v = w4 THEN 2 ELSE 1]
MCFaultySets == {{}, {w1}, {w1, w4}}

MCHeightOf(ev) == IF ev = "d1" THEN 1 ELSE 2

Symmetry == Permutations({v1, v2, v3}) \cup Permutations(MCBlocks)

MCInit ==
  /\ part \in {"locking", "vote_set", "evidence"}
  /\ Init /\ VoteSetInit /\ EvidenceInit
  /\ part # "vote_set" => faulty = {}

MCNext ==
  /\ UNCHANGED part
  /\ \/ part = "locking" /\ Next /\ UNCHANGED <<voteSetVars, evidenceVars>>
     \/ part = "vote_set" /\ VoteSetNext /\ UNCHANGED <<cast, evidenceVars>>
     \/ part = "evidence" /\ EvidenceNext /\ UNCHANGED <<cast, voteSetVars>>

MCSpec == MCInit /\ [][MCNext]_<<part, cast, voteSetVars, evidenceVars>>
=============================================================================

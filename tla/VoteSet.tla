------------------------------- MODULE VoteSet -------------------------------
(***************************************************************************)
(* types/vote_set.go: the votes of one height, round and type, as one node  *)
(* collects them.                                                           *)
(*                                                                          *)
(* Validators sign; correct ones sign once, faulty ones what they like.     *)
(* Votes arrive in any order and any number of times, and peers claim to    *)
(* have seen a majority.  Every method holds the set's mutex, so a call is  *)
(* one step.  A vote with a bad index, address, step or signature is        *)
(* returned as an error before it changes anything and is left out.         *)
(*                                                                          *)
(* A block is its ID; the nil vote is a vote for one more ID.               *)
(***************************************************************************)
EXTENDS Integers, FiniteSets

CONSTANTS Voters,  \* indices of the validator set
          Power,       \* validator -> voting power
          FaultySets,  \* the sets of faulty validators that are considered
          BlockIDs,    \* block IDs votes are for, nil included
          Peers,       \* peers that claim majorities
          None         \* no vote, no majority, no claim

VARIABLES
  faulty,   \* validators that may sign twice
  signed,     \* validator -> what it has signed
  first,    \* history: validator -> its vote that arrived first
  voteSet   \* the VoteSet

voteSetVars == <<faulty, signed, first, voteSet>>

(***************************************************************************)
(* The power of a set of validators is the sum of their powers, counted as  *)
(* the units of power they hold.                                            *)
(***************************************************************************)
PowerUnits(S) == UNION {{v} \X (1 .. Power[v]) : v \in S}
PowerOf(S) == Cardinality(PowerUnits(S))
TotalVotingPower == PowerOf(Voters)

(***************************************************************************)
(* NewVoteSet.  votes: the canonical list.  votesByBlock: an entry per      *)
(* block ID, which exists if it is tracked.                                 *)
(***************************************************************************)
NewVoteSet ==
  [votes |-> [v \in Voters |-> None],
   sum |-> 0,
   maj23 |-> None,
   votesByBlock |-> [b \in BlockIDs |->
                       [tracked |-> FALSE, peerMaj23 |-> FALSE, votes |-> {}, sum |-> 0]],
   peerMaj23s |-> [p \in Peers |-> None]]

VoteSetInit ==
  /\ faulty \in FaultySets
  /\ signed = [v \in Voters |-> {}]
  /\ first = [v \in Voters |-> None]
  /\ voteSet = NewVoteSet

-----------------------------------------------------------------------------
(***************************************************************************)
(* A validator signs.                                                       *)
(***************************************************************************)
Sign(v, b) ==
  /\ b \notin signed[v]
  /\ signed[v] = {} \/ v \in faulty
  /\ signed' = [signed EXCEPT ![v] = @ \cup {b}]
  /\ UNCHANGED <<faulty, first, voteSet>>

Quorum == (TotalVotingPower * 2) \div 3 + 1

(***************************************************************************)
(* getVote finds the vote in one of the two places.                         *)
(***************************************************************************)
GetVote(s, v, b) == s.votes[v] = b \/ v \in s.votesByBlock[b].votes

(***************************************************************************)
(* addVerifiedVote, first part: the canonical list.  A conflicting vote     *)
(* replaces the one there only if it is for the majority's block.           *)
(***************************************************************************)
AddToVotes(s, v, b) ==
  IF s.votes[v] = None
  THEN [s EXCEPT !.votes[v] = b, !.sum = @ + Power[v]]
  ELSE IF s.maj23 = b THEN [s EXCEPT !.votes[v] = b] ELSE s

(***************************************************************************)
(* Second part: the entry of the block, and the majority if the vote takes  *)
(* the entry over the quorum and is the first to.  The votes of the entry   *)
(* then become the canonical ones.                                          *)
(***************************************************************************)
Entry(s, v, b) ==
  LET e == s.votesByBlock[b]
  IN  [e EXCEPT !.tracked = TRUE,
                !.votes = @ \cup {v},
                !.sum = IF v \in e.votes THEN @ ELSE @ + Power[v]]

Crosses(s, v, b) ==
  /\ s.votesByBlock[b].sum < Quorum
  /\ Quorum <= Entry(s, v, b).sum
  /\ s.maj23 = None

(***************************************************************************)
(* Mutant: the entry's votes are not copied.                                *)
(***************************************************************************)
CopyNothing(s, v, b) == s.votes

CopyOver(s, v, b) ==
  [w \in Voters |-> IF w \in Entry(s, v, b).votes THEN b ELSE s.votes[w]]

AddToBlock(s, v, b) ==
  [s EXCEPT !.votesByBlock[b] = Entry(s, v, b),
            !.maj23 = IF Crosses(s, v, b) THEN b ELSE @,
            !.votes = IF Crosses(s, v, b) THEN CopyOver(s, v, b) ELSE @]

(***************************************************************************)
(* Mutant: every conflicting vote is tracked.                               *)
(***************************************************************************)
NeverForgotten(s, v, b) == FALSE

(***************************************************************************)
(* A conflicting vote goes no further unless a peer claims that its block   *)
(* has a majority.                                                          *)
(***************************************************************************)
Forgotten(s, v, b) == s.votes[v] # None /\ ~ s.votesByBlock[b].peerMaj23

AddVerifiedVote(s, v, b) ==
  IF Forgotten(s, v, b)
  THEN AddToVotes(s, v, b)
  ELSE AddToBlock(AddToVotes(s, v, b), v, b)

(***************************************************************************)
(* AddVote of a vote that was signed.                                       *)
(***************************************************************************)
AddVote(v, b) ==
  /\ b \in signed[v]
  /\ ~ GetVote(voteSet, v, b)
  /\ voteSet' = AddVerifiedVote(voteSet, v, b)
  /\ first' = [first EXCEPT ![v] = IF @ = None THEN b ELSE @]
  /\ UNCHANGED <<faulty, signed>>

(***************************************************************************)
(* SetPeerMaj23.  A peer's second claim is refused.                         *)
(***************************************************************************)
SetPeerMaj23(p, b) ==
  /\ voteSet.peerMaj23s[p] = None
  /\ voteSet' = [voteSet EXCEPT !.peerMaj23s[p] = b,
                                !.votesByBlock[b].tracked = TRUE,
                                !.votesByBlock[b].peerMaj23 = TRUE]
  /\ UNCHANGED <<faulty, signed, first>>

VoteSetNext ==
  \/ \E v \in Voters, b \in BlockIDs : Sign(v, b)
  \/ \E v \in Voters, b \in BlockIDs : AddVote(v, b)
  \/ \E p \in Peers, b \in BlockIDs : SetPeerMaj23(p, b)

VoteSetSpec == VoteSetInit /\ [][VoteSetNext]_voteSetVars

Signers(b) == {v \in Voters : b \in signed[v]}

(***************************************************************************)
(* A majority is reported when there is one, and only then: a commit made   *)
(* from the canonical votes (MakeCommit) has +2/3 of the power for the      *)
(* majority's block, with votes that were really signed, also if validators *)
(* voted for something else first; and no majority among the votes of an    *)
(* entry is overlooked.                                                     *)
(***************************************************************************)
CommitHasQuorum ==
  /\ voteSet.maj23 # None =>
       LET for == {v \in Voters : voteSet.votes[v] = voteSet.maj23}
       IN  for \subseteq Signers(voteSet.maj23) /\ 3 * PowerOf(for) > 2 * TotalVotingPower
  /\ (\E b \in BlockIDs : 3 * PowerOf(voteSet.votesByBlock[b].votes) > 2 * TotalVotingPower)
       => voteSet.maj23 # None

(***************************************************************************)
(* "All this is memory bounded": an entry exists for a validator's first    *)
(* vote or for a peer's one claim, and for nothing else, however many       *)
(* conflicting votes arrive.                                                *)
(***************************************************************************)
MemoryBounded ==
  \A b \in BlockIDs :
    voteSet.votesByBlock[b].tracked =>
      \/ \E v \in Voters : first[v] = b
      \/ \E p \in Peers : voteSet.peerMaj23s[p] = b

=============================================================================

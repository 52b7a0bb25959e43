----------------------------- MODULE VotesProofs ----------------------------
(***************************************************************************)
(* A VoteSet reports a majority exactly when it has one, and its memory is *)
(* bounded, for every validator set with any voting powers, any number of  *)
(* faulty validators, any blocks and any peers. The counter of the         *)
(* evidence pool never hides pending evidence, for any evidence, peers and *)
(* age, with any number of crashes.                                        *)
(***************************************************************************)
EXTENDS VoteSet, EvidencePool, FiniteSetTheorems, TLAPS

-----------------------------------------------------------------------------
(* The vote set *)

(***************************************************************************)
(* What the theorems take for granted: there are finitely many validators,  *)
(* each with a power, and no block ID is the mark for "no vote".            *)
(***************************************************************************)
Constants ==
  /\ IsFiniteSet(Voters) /\ Power \in [Voters -> Nat]
  /\ None \notin BlockIDs

BlockVotes ==
  [tracked: BOOLEAN, peerMaj23: BOOLEAN, votes: SUBSET Voters, sum: Int]

SetType ==
  [votes: [Voters -> BlockIDs \cup {None}], sum: Int, maj23: BlockIDs \cup {None},
   votesByBlock: [BlockIDs -> BlockVotes], peerMaj23s: [Peers -> BlockIDs \cup {None}]]

VotesType ==
  /\ signed \in [Voters -> SUBSET BlockIDs]
  /\ first \in [Voters -> BlockIDs \cup {None}]
  /\ voteSet \in SetType

(***************************************************************************)
(* The vote sums of the entries are the powers of their votes; a majority   *)
(* is set exactly when some entry has reached the quorum, and the votes of  *)
(* the entry it comes from are canonical.                                   *)
(***************************************************************************)
Summed(s) == \A b \in BlockIDs : s.votesByBlock[b].sum = PowerOf(s.votesByBlock[b].votes)

MajorityKept(s) ==
  s.maj23 # None =>
    /\ s.votesByBlock[s.maj23].sum >= Quorum
    /\ \A v \in s.votesByBlock[s.maj23].votes : s.votes[v] = s.maj23

MajoritySeen(s) == s.maj23 = None => \A b \in BlockIDs : s.votesByBlock[b].sum < Quorum

(***************************************************************************)
(* Every vote that is kept was signed.                                      *)
(***************************************************************************)
Signed(s) ==
  /\ \A v \in Voters : s.votes[v] # None => s.votes[v] \in signed[v]
  /\ \A b \in BlockIDs : s.votesByBlock[b].votes \subseteq Signers(b)

QuorumInv ==
  VotesType /\ Summed(voteSet) /\ MajorityKept(voteSet) /\ MajoritySeen(voteSet)
    /\ Signed(voteSet)

-----------------------------------------------------------------------------
(***************************************************************************)
(* Voting power adds up: that of a set is a number, does not shrink when    *)
(* the set grows, and grows by the power of a validator that joins.         *)
(***************************************************************************)
LEMMA UnitsFinite ==
  ASSUME Constants, NEW S \in SUBSET Voters
  PROVE  IsFiniteSet(PowerUnits(S)) /\ PowerOf(S) \in Nat
<1> DEFINE T == {{v} \X (1 .. Power[v]) : v \in S}
           f == [v \in S |-> {v} \X (1 .. Power[v])]
<1>1. IsFiniteSet(S)
  BY FS_Subset DEF Constants
<1>2. f \in Surjection(S, T)
  BY DEF Surjection
<1>3. IsFiniteSet(T)
  BY <1>1, <1>2, FS_Surjection
<1>4. \A U \in T : IsFiniteSet(U)
  <2> SUFFICES ASSUME NEW v \in S
               PROVE  IsFiniteSet({v} \X (1 .. Power[v]))
    OBVIOUS
  <2>1. Power[v] \in Int
    BY DEF Constants
  <2>2. IsFiniteSet({v})
    BY FS_Singleton
  <2>3. IsFiniteSet(1 .. Power[v])
    BY <2>1, FS_Interval
  <2> QED
    BY <2>2, <2>3, FS_Product
<1>5. IsFiniteSet(PowerUnits(S))
  BY <1>3, <1>4, FS_UNION DEF PowerUnits
<1> QED
  BY <1>5, FS_CardinalityType DEF PowerOf

LEMMA PowerMonotone ==
  ASSUME Constants, NEW T \in SUBSET Voters, NEW S \in SUBSET T
  PROVE  PowerOf(S) <= PowerOf(T)
<1>1. PowerUnits(S) \in SUBSET PowerUnits(T)
  BY DEF PowerUnits
<1> QED
  BY <1>1, UnitsFinite, FS_Subset DEF PowerOf

LEMMA PowerAdds ==
  ASSUME Constants, NEW S \in SUBSET Voters, NEW v \in Voters, v \notin S
  PROVE  PowerOf(S \cup {v}) = PowerOf(S) + Power[v]
<1> DEFINE U == {v} \X (1 .. Power[v])
<1>1. Power[v] \in Nat
  BY DEF Constants
<1>2. IsFiniteSet(U) /\ Cardinality(U) = Power[v]
  <2>1. IsFiniteSet({v}) /\ Cardinality({v}) = 1
    BY FS_Singleton
  <2>2. IsFiniteSet(1 .. Power[v])
          /\ Cardinality(1 .. Power[v]) = IF 1 > Power[v] THEN 0 ELSE Power[v] - 1 + 1
    <3>1. 1 \in Int /\ Power[v] \in Int
      BY <1>1
    <3> QED
      BY <3>1, FS_Interval, Zenon
  <2>3. Cardinality(1 .. Power[v]) = Power[v]
    BY <1>1, <2>2
  <2>4. IsFiniteSet(U) /\ Cardinality(U) = Cardinality({v}) * Cardinality(1 .. Power[v])
    BY <2>1, <2>2, FS_Product, Zenon
  <2> HIDE DEF U
  <2> QED
    BY <1>1, <2>1, <2>3, <2>4
<1>3. PowerUnits(S \cup {v}) = PowerUnits(S) \cup U
  BY DEF PowerUnits
<1>4. PowerUnits(S) \cap U = {}
  BY DEF PowerUnits
<1>5. Cardinality(PowerUnits(S) \cup U)
        = Cardinality(PowerUnits(S)) + Cardinality(U) - Cardinality(PowerUnits(S) \cap U)
  BY <1>2, UnitsFinite, FS_Union
<1>6. Cardinality(PowerUnits(S) \cap U) = 0
  BY <1>4, FS_EmptySet
<1>7. PowerOf(S \cup {v}) = Cardinality(PowerUnits(S) \cup U) /\ PowerOf(S) = Cardinality(PowerUnits(S))
  BY <1>3 DEF PowerOf
<1>8. PowerOf(S) \in Nat
  BY UnitsFinite
<1> HIDE DEF U
<1> QED
  BY <1>1, <1>2, <1>5, <1>6, <1>7, <1>8

-----------------------------------------------------------------------------
(***************************************************************************)
(* What the two parts of addVerifiedVote change: the canonical vote of the  *)
(* signer, and the entry of the block with, when the vote crosses the       *)
(* quorum, the majority and the canonical votes of its entry.               *)
(***************************************************************************)
LEMMA VotesAdded ==
  ASSUME Constants, NEW s \in SetType, NEW v \in Voters, NEW b \in BlockIDs
  PROVE  LET t == AddToVotes(s, v, b)
         IN  /\ t \in SetType
             /\ t.votesByBlock = s.votesByBlock
             /\ t.maj23 = s.maj23
             /\ t.peerMaj23s = s.peerMaj23s
             /\ \A w \in Voters :
                  t.votes[w] = IF w = v /\ (s.votes[v] = None \/ s.maj23 = b)
                               THEN b ELSE s.votes[w]
<1>1. Power[v] \in Nat
  BY DEF Constants
<1>2. CASE s.votes[v] = None
  <2> DEFINE f == [s.votes EXCEPT ![v] = b]
             n == s.sum + Power[v]
  <2>1. f \in [Voters -> BlockIDs \cup {None}] /\ n \in Int
    BY <1>1 DEF SetType
  <2>2. AddToVotes(s, v, b) = [s EXCEPT !.votes = f, !.sum = n]
    BY <1>2 DEF AddToVotes
  <2>3. \A w \in Voters : f[w] = IF w = v THEN b ELSE s.votes[w]
    BY DEF SetType
  <2> HIDE DEF f, n
  <2> QED
    BY <1>2, <2>1, <2>2, <2>3 DEF SetType
<1>3. CASE s.votes[v] # None /\ s.maj23 = b
  <2>1. AddToVotes(s, v, b) = [s EXCEPT !.votes[v] = b]
    BY <1>3 DEF AddToVotes
  <2> QED
    BY <1>3, <2>1 DEF SetType
<1>4. CASE s.votes[v] # None /\ s.maj23 # b
  BY <1>4 DEF AddToVotes
<1> QED
  BY <1>2, <1>3, <1>4

LEMMA EntryAdded ==
  ASSUME Constants, NEW s \in SetType, NEW v \in Voters, NEW b \in BlockIDs
  PROVE  /\ Entry(s, v, b) \in BlockVotes
         /\ Entry(s, v, b).votes = s.votesByBlock[b].votes \cup {v}
         /\ Entry(s, v, b).peerMaj23 = s.votesByBlock[b].peerMaj23
         /\ Summed(s) => Entry(s, v, b).sum = PowerOf(Entry(s, v, b).votes)
<1>1. Power[v] \in Nat
  BY DEF Constants
<1>2. s.votesByBlock[b] \in BlockVotes
  BY DEF SetType
<1>3. /\ Entry(s, v, b) \in BlockVotes
      /\ Entry(s, v, b).votes = s.votesByBlock[b].votes \cup {v}
      /\ Entry(s, v, b).peerMaj23 = s.votesByBlock[b].peerMaj23
      /\ Entry(s, v, b).sum = IF v \in s.votesByBlock[b].votes THEN s.votesByBlock[b].sum
                              ELSE s.votesByBlock[b].sum + Power[v]
  <2> DEFINE e == s.votesByBlock[b]
             n == IF v \in e.votes THEN e.sum ELSE e.sum + Power[v]
  <2>1. n \in Int
    BY <1>1, <1>2 DEF BlockVotes
  <2>2. Entry(s, v, b) = [e EXCEPT !.tracked = TRUE, !.votes = e.votes \cup {v}, !.sum = n]
    BY DEF Entry
  <2> HIDE DEF n, e
  <2>3. e \in BlockVotes
    BY <1>2 DEF e
  <2>4. Entry(s, v, b) = [tracked |-> TRUE, peerMaj23 |-> e.peerMaj23,
                          votes |-> e.votes \cup {v}, sum |-> n]
    BY <2>2, <2>3 DEF BlockVotes
  <2>5. e.peerMaj23 \in BOOLEAN /\ e.votes \cup {v} \in SUBSET Voters
    BY <2>3 DEF BlockVotes
  <2> QED
    BY <2>1, <2>4, <2>5 DEF n, e, BlockVotes
<1>4. s.votesByBlock[b].votes \in SUBSET Voters
  BY <1>2 DEF BlockVotes
<1>5. v \in s.votesByBlock[b].votes => s.votesByBlock[b].votes \cup {v} = s.votesByBlock[b].votes
  OBVIOUS
<1>6. v \notin s.votesByBlock[b].votes
        => PowerOf(s.votesByBlock[b].votes \cup {v}) = PowerOf(s.votesByBlock[b].votes) + Power[v]
  BY <1>4, PowerAdds
<1> QED
  BY <1>3, <1>5, <1>6 DEF Summed

LEMMA BlockAdded ==
  ASSUME Constants, NEW s \in SetType, NEW v \in Voters, NEW b \in BlockIDs
  PROVE  LET t == AddToBlock(s, v, b)
         IN  /\ t \in SetType
             /\ t.peerMaj23s = s.peerMaj23s
             /\ \A c \in BlockIDs :
                  t.votesByBlock[c] = IF c = b THEN Entry(s, v, b) ELSE s.votesByBlock[c]
             /\ t.maj23 = IF Crosses(s, v, b) THEN b ELSE s.maj23
             /\ \A w \in Voters :
                  t.votes[w] = IF Crosses(s, v, b) /\ w \in Entry(s, v, b).votes
                               THEN b ELSE s.votes[w]
<1>1. Entry(s, v, b) \in BlockVotes
  BY EntryAdded
<1>2. CopyOver(s, v, b) \in [Voters -> BlockIDs \cup {None}]
  BY DEF CopyOver, SetType
<1>3. \A w \in Voters :
        CopyOver(s, v, b)[w] = IF w \in Entry(s, v, b).votes THEN b ELSE s.votes[w]
  BY DEF CopyOver
<1> QED
  BY <1>1, <1>2, <1>3 DEF AddToBlock, SetType

LEMMA AddVoteKeepsQuorum ==
  ASSUME Constants, QuorumInv, NEW v \in Voters, NEW b \in BlockIDs, AddVote(v, b)
  PROVE  QuorumInv'
<1> DEFINE s == voteSet
           a == AddToVotes(s, v, b)
           t == AddToBlock(a, v, b)
<1>1. s \in SetType /\ Summed(s) /\ MajorityKept(s) /\ MajoritySeen(s) /\ Signed(s)
  BY DEF QuorumInv, VotesType
<1>2. /\ a \in SetType
      /\ a.votesByBlock = s.votesByBlock
      /\ a.maj23 = s.maj23
      /\ \A w \in Voters :
           a.votes[w] = IF w = v /\ (s.votes[v] = None \/ s.maj23 = b) THEN b ELSE s.votes[w]
  BY <1>1, VotesAdded
<1>3. b \in signed[v] /\ signed' = signed
  BY DEF AddVote
<1>4. (first \in [Voters -> BlockIDs \cup {None}])'
  BY DEF AddVote, QuorumInv, VotesType
<1>5. \A c \in BlockIDs : s.votesByBlock[c] \in BlockVotes /\ s.votesByBlock[c].votes \in SUBSET Voters
  BY <1>1 DEF SetType, BlockVotes
<1> HIDE DEF s, a, t
<1>6. Summed(a) /\ MajorityKept(a) /\ MajoritySeen(a) /\ Signed(a)
  <2>1. Summed(a) /\ MajoritySeen(a)
    BY <1>1, <1>2 DEF Summed, MajoritySeen
  <2>2. MajorityKept(a)
    <3> SUFFICES ASSUME s.maj23 # None
                 PROVE  \A w \in s.votesByBlock[s.maj23].votes : a.votes[w] = s.maj23
      BY <1>1, <1>2 DEF MajorityKept
    <3>1. s.maj23 \in BlockIDs
      BY <1>1 DEF SetType
    <3> QED
      BY <1>1, <1>2, <1>5, <3>1 DEF MajorityKept
  <2>3. Signed(a)
    BY <1>1, <1>2, <1>3 DEF Signed
  <2> QED
    BY <2>1, <2>2, <2>3
<1>7. ASSUME ~ Forgotten(s, v, b)
      PROVE  t \in SetType /\ Summed(t) /\ MajorityKept(t) /\ MajoritySeen(t) /\ Signed(t)
  <2> DEFINE e == Entry(a, v, b)
  <2>1. /\ e \in BlockVotes
        /\ e.votes = a.votesByBlock[b].votes \cup {v}
        /\ e.sum = PowerOf(e.votes)
    BY <1>2, <1>6, EntryAdded
  <2>2. /\ t \in SetType
        /\ \A c \in BlockIDs : t.votesByBlock[c] = IF c = b THEN e ELSE a.votesByBlock[c]
        /\ t.maj23 = IF Crosses(a, v, b) THEN b ELSE a.maj23
        /\ \A w \in Voters :
             t.votes[w] = IF Crosses(a, v, b) /\ w \in e.votes THEN b ELSE a.votes[w]
    BY <1>2, BlockAdded DEF t
  <2>3. Crosses(a, v, b) <=> a.votesByBlock[b].sum < Quorum /\ Quorum <= e.sum /\ a.maj23 = None
    BY DEF Crosses
  <2>4. e.sum \in Nat /\ Quorum \in Nat
    <3>1. PowerOf(e.votes) \in Nat /\ PowerOf(Voters) \in Nat
      BY <2>1, UnitsFinite DEF BlockVotes
    <3> QED
      BY <2>1, <3>1 DEF Quorum, TotalVotingPower
  <2>5. a.votesByBlock[b].sum <= e.sum
    <3>1. /\ a.votesByBlock[b].votes \in SUBSET e.votes
          /\ e.votes \in SUBSET Voters
      BY <2>1 DEF BlockVotes
    <3> QED
      BY <2>1, <1>6, <3>1, PowerMonotone DEF Summed
  <2>6. e.votes \in SUBSET Voters /\ e.votes \subseteq Signers(b)
    BY <1>2, <1>3, <1>6, <2>1 DEF Signed, Signers, BlockVotes
  <2>7. \A c \in BlockIDs : a.votesByBlock[c].votes \in SUBSET Voters /\ a.votesByBlock[c].sum \in Int
    BY <1>2, <1>5 DEF BlockVotes
  <2> HIDE DEF e
  <2>8. Summed(t)
    BY <1>6, <2>1, <2>2 DEF Summed
  <2>9. MajoritySeen(t)
    <3> SUFFICES ASSUME ~ Crosses(a, v, b), a.maj23 = None, NEW c \in BlockIDs
                 PROVE  t.votesByBlock[c].sum < Quorum
      BY <2>2 DEF MajoritySeen, Constants
    <3>1. a.votesByBlock[b].sum < Quorum /\ a.votesByBlock[c].sum < Quorum
      BY <1>6 DEF MajoritySeen
    <3>2. e.sum < Quorum
      BY <2>3, <2>4, <3>1
    <3> QED
      BY <2>2, <3>1, <3>2
  <2>10. Signed(t)
    <3>1. \A w \in Voters : t.votes[w] # None => t.votes[w] \in signed[w]
      BY <1>6, <2>2, <2>6 DEF Signed, Signers
    <3>2. \A c \in BlockIDs : t.votesByBlock[c].votes \subseteq Signers(c)
      BY <1>6, <2>2, <2>6 DEF Signed
    <3> QED
      BY <3>1, <3>2 DEF Signed
  <2>11. MajorityKept(t)
    <3>1. CASE Crosses(a, v, b)
      BY <2>2, <2>3, <2>6, <3>1 DEF MajorityKept
    <3>2. CASE ~ Crosses(a, v, b) /\ a.maj23 = b
      <4>1. a.votes[v] = b
        BY <1>2, <3>2
      <4>2. \A w \in e.votes : a.votes[w] = b
        BY <1>6, <2>1, <3>2, <4>1 DEF MajorityKept, Constants
      <4>3. a.votesByBlock[b].sum >= Quorum
        BY <1>6, <3>2 DEF MajorityKept, Constants
      <4> QED
        BY <2>2, <2>4, <2>5, <2>6, <2>7, <3>2, <4>2, <4>3 DEF MajorityKept
    <3>3. CASE ~ Crosses(a, v, b) /\ a.maj23 # b
      <4>1. a.maj23 \in BlockIDs \cup {None}
        BY <1>2 DEF SetType
      <4> QED
        BY <1>6, <2>2, <2>7, <3>3, <4>1 DEF MajorityKept
    <3> QED
      BY <3>1, <3>2, <3>3
  <2> QED
    BY <2>2, <2>8, <2>9, <2>10, <2>11
<1>8. voteSet' = IF Forgotten(s, v, b) THEN a ELSE t
  BY DEF AddVote, AddVerifiedVote, s, a, t
<1>9. voteSet' \in SetType /\ Summed(voteSet') /\ MajorityKept(voteSet')
        /\ MajoritySeen(voteSet') /\ Signed(voteSet')
  BY <1>2, <1>6, <1>7, <1>8
<1> QED
  BY <1>3, <1>4, <1>9 DEF QuorumInv, VotesType, Summed, MajorityKept, MajoritySeen, Signed, Signers

(***************************************************************************)
(* A claim of a majority touches two flags of one entry.                    *)
(***************************************************************************)
LEMMA ClaimMade ==
  ASSUME voteSet \in SetType, NEW p \in Peers, NEW b \in BlockIDs, SetPeerMaj23(p, b)
  PROVE  /\ voteSet' \in SetType
         /\ voteSet'.votes = voteSet.votes /\ voteSet'.maj23 = voteSet.maj23
         /\ \A q \in Peers : voteSet'.peerMaj23s[q] = IF q = p THEN b ELSE voteSet.peerMaj23s[q]
         /\ \A c \in BlockIDs :
              /\ voteSet'.votesByBlock[c].votes = voteSet.votesByBlock[c].votes
              /\ voteSet'.votesByBlock[c].sum = voteSet.votesByBlock[c].sum
              /\ c # b => voteSet'.votesByBlock[c] = voteSet.votesByBlock[c]
<1> DEFINE e == [voteSet.votesByBlock[b] EXCEPT !.tracked = TRUE, !.peerMaj23 = TRUE]
           f == [voteSet.votesByBlock EXCEPT ![b] = e]
           g == [voteSet.peerMaj23s EXCEPT ![p] = b]
<1>1. voteSet.votesByBlock[b] \in BlockVotes
  BY DEF SetType
<1>2. /\ e \in BlockVotes
      /\ e.votes = voteSet.votesByBlock[b].votes /\ e.sum = voteSet.votesByBlock[b].sum
  BY <1>1 DEF BlockVotes
<1>3. voteSet' = [voteSet EXCEPT !.peerMaj23s = g, !.votesByBlock = f]
  BY DEF SetPeerMaj23, SetType
<1> HIDE DEF e
<1>4. /\ f \in [BlockIDs -> BlockVotes]
      /\ \A c \in BlockIDs : f[c] = IF c = b THEN e ELSE voteSet.votesByBlock[c]
  BY <1>2 DEF SetType
<1>5. /\ g \in [Peers -> BlockIDs \cup {None}]
      /\ \A q \in Peers : g[q] = IF q = p THEN b ELSE voteSet.peerMaj23s[q]
  BY DEF SetType
<1> HIDE DEF f, g
<1>6. /\ voteSet' \in SetType
      /\ voteSet'.votes = voteSet.votes /\ voteSet'.maj23 = voteSet.maj23
      /\ voteSet'.peerMaj23s = g /\ voteSet'.votesByBlock = f
  BY <1>3, <1>4, <1>5 DEF SetType
<1> QED
  BY <1>2, <1>4, <1>5, <1>6

LEMMA InitQuorum == Constants /\ VoteSetInit => QuorumInv
<1> SUFFICES ASSUME Constants, VoteSetInit PROVE QuorumInv
  OBVIOUS
<1>1. voteSet \in SetType
  BY DEF VoteSetInit, NewVoteSet, SetType, BlockVotes
<1>2. \A b \in BlockIDs : voteSet.votesByBlock[b].sum = 0 /\ voteSet.votesByBlock[b].votes = {}
  BY DEF VoteSetInit, NewVoteSet
<1>3. voteSet.maj23 = None /\ \A v \in Voters : voteSet.votes[v] = None
  BY DEF VoteSetInit, NewVoteSet
<1>4. PowerOf({}) = 0
  <2>1. PowerUnits({}) = {}
    BY DEF PowerUnits
  <2> QED
    BY <2>1, FS_EmptySet DEF PowerOf
<1>5. Quorum > 0
  <2>1. PowerOf(Voters) \in Nat
    BY UnitsFinite
  <2> QED
    BY <2>1 DEF Quorum, TotalVotingPower
<1>6. Summed(voteSet)
  BY <1>2, <1>4 DEF Summed
<1>7. MajoritySeen(voteSet)
  <2>1. Quorum \in Int
    <3>1. PowerOf(Voters) \in Nat
      BY UnitsFinite
    <3> QED
      BY <3>1 DEF Quorum, TotalVotingPower
  <2> QED
    BY <1>2, <1>5, <2>1 DEF MajoritySeen
<1>8. MajorityKept(voteSet) /\ Signed(voteSet)
  BY <1>2, <1>3 DEF MajorityKept, Signed
<1> QED
  BY <1>1, <1>6, <1>7, <1>8 DEF QuorumInv, VotesType, VoteSetInit

(***************************************************************************)
(* The invariant of the majority holds always.                              *)
(***************************************************************************)
THEOREM MajorityInvariant ==
  ASSUME Constants
  PROVE  VoteSetSpec => []QuorumInv
<1>1. VoteSetInit => QuorumInv
  BY InitQuorum
<1>2. QuorumInv /\ [VoteSetNext]_voteSetVars => QuorumInv'
  <2> SUFFICES ASSUME QuorumInv, [VoteSetNext]_voteSetVars PROVE QuorumInv'
    OBVIOUS
  <2>1. ASSUME NEW v \in Voters, NEW b \in BlockIDs, Sign(v, b)
        PROVE  QuorumInv'
    <3>1. /\ signed' \in [Voters -> SUBSET BlockIDs]
          /\ \A w \in Voters : signed[w] \subseteq signed'[w]
      BY <2>1 DEF Sign, QuorumInv, VotesType
    <3>2. voteSet' = voteSet /\ first' = first
      BY <2>1 DEF Sign
    <3>3. Signed(voteSet)'
      <4>1. \A w \in Voters : voteSet.votes[w] # None => voteSet.votes[w] \in signed'[w]
        BY <3>1 DEF QuorumInv, Signed
      <4>2. \A c \in BlockIDs : voteSet.votesByBlock[c].votes \subseteq Signers(c)'
        BY <3>1 DEF QuorumInv, Signed, Signers
      <4> QED
        BY <3>2, <4>1, <4>2 DEF Signed
    <3> QED
      BY <3>1, <3>2, <3>3 DEF QuorumInv, VotesType, Summed, MajorityKept, MajoritySeen
  <2>2. ASSUME NEW v \in Voters, NEW b \in BlockIDs, AddVote(v, b)
        PROVE  QuorumInv'
    BY <2>2, AddVoteKeepsQuorum
  <2>3. ASSUME NEW p \in Peers, NEW b \in BlockIDs, SetPeerMaj23(p, b)
        PROVE  QuorumInv'
    <3>1. voteSet \in SetType
      BY DEF QuorumInv, VotesType
    <3>2. /\ voteSet' \in SetType
          /\ voteSet'.votes = voteSet.votes /\ voteSet'.maj23 = voteSet.maj23
          /\ \A c \in BlockIDs :
               /\ voteSet'.votesByBlock[c].votes = voteSet.votesByBlock[c].votes
               /\ voteSet'.votesByBlock[c].sum = voteSet.votesByBlock[c].sum
      BY <2>3, <3>1, ClaimMade
    <3>3. signed' = signed /\ first' = first
      BY <2>3 DEF SetPeerMaj23
    <3>4. voteSet.maj23 \in BlockIDs \cup {None}
      BY <3>1 DEF SetType
    <3>5. Summed(voteSet') /\ MajoritySeen(voteSet')
      BY <3>2 DEF QuorumInv, Summed, MajoritySeen
    <3>6. MajorityKept(voteSet')
      BY <3>2, <3>4 DEF QuorumInv, MajorityKept
    <3>7. Signed(voteSet')
      BY <3>2 DEF QuorumInv, Signed
    <3> QED
      BY <3>2, <3>3, <3>5, <3>6, <3>7
         DEF QuorumInv, VotesType, Summed, MajoritySeen, MajorityKept, Signed, Signers
  <2>4. CASE UNCHANGED voteSetVars
    BY <2>4 DEF voteSetVars, QuorumInv, VotesType, Summed, MajoritySeen, MajorityKept, Signed, Signers
  <2> QED
    BY <2>1, <2>2, <2>3, <2>4 DEF VoteSetNext
<1> QED
  BY <1>1, <1>2, PTL DEF VoteSetSpec

(***************************************************************************)
(* A commit made from a VoteSet has more than two thirds of the voting      *)
(* power, with votes that were signed, and no majority is overlooked: for   *)
(* every validator set and every distribution of power.                     *)
(***************************************************************************)
THEOREM CommitsHaveQuorum ==
  ASSUME Constants
  PROVE  VoteSetSpec => []CommitHasQuorum
<1>1. QuorumInv => CommitHasQuorum
  <2> SUFFICES ASSUME QuorumInv PROVE CommitHasQuorum
    OBVIOUS
  <2> DEFINE T == PowerOf(Voters)
  <2>1. T \in Nat /\ Quorum = (T * 2) \div 3 + 1
    BY UnitsFinite DEF Quorum, TotalVotingPower
  <2>2. \A n \in Nat : n >= Quorum <=> 3 * n > 2 * T
    BY <2>1
  <2>3. voteSet \in SetType
    BY DEF QuorumInv, VotesType
  <2> HIDE DEF T
  <2>4. ASSUME voteSet.maj23 # None
        PROVE  LET for == {v \in Voters : voteSet.votes[v] = voteSet.maj23}
               IN  for \subseteq Signers(voteSet.maj23) /\ 3 * PowerOf(for) > 2 * T
    <3> DEFINE m == voteSet.maj23
               for == {v \in Voters : voteSet.votes[v] = m}
               e == voteSet.votesByBlock[m]
    <3>1. m \in BlockIDs
      BY <2>3, <2>4 DEF SetType
    <3>2. e.votes \in SUBSET Voters
      BY <2>3, <3>1 DEF SetType, BlockVotes
    <3>3. e.votes \in SUBSET for
      BY <2>4, <3>2 DEF QuorumInv, MajorityKept
    <3>4. for \subseteq Signers(m)
      BY <2>4 DEF QuorumInv, Signed, Signers
    <3>5. PowerOf(e.votes) >= Quorum
      BY <2>4, <3>1 DEF QuorumInv, MajorityKept, Summed
    <3>6. PowerOf(e.votes) <= PowerOf(for) /\ PowerOf(e.votes) \in Nat /\ PowerOf(for) \in Nat
      BY <3>2, <3>3, PowerMonotone, UnitsFinite
    <3>7. PowerOf(for) >= Quorum
      BY <2>1, <3>5, <3>6
    <3> QED
      BY <2>2, <3>4, <3>6, <3>7
  <2>5. ASSUME NEW b \in BlockIDs, 3 * PowerOf(voteSet.votesByBlock[b].votes) > 2 * T
        PROVE  voteSet.maj23 # None
    <3>1. voteSet.votesByBlock[b].votes \in SUBSET Voters
      BY <2>3 DEF SetType, BlockVotes
    <3>2. PowerOf(voteSet.votesByBlock[b].votes) >= Quorum
      BY <2>2, <2>5, <3>1, UnitsFinite
    <3>3. ~ (PowerOf(voteSet.votesByBlock[b].votes) < Quorum)
      BY <2>1, <3>1, <3>2, UnitsFinite
    <3> QED
      BY <3>3 DEF QuorumInv, MajoritySeen, Summed
  <2> QED
    BY <2>4, <2>5 DEF CommitHasQuorum, TotalVotingPower, T
<1> QED
  BY <1>1, MajorityInvariant, PTL

-----------------------------------------------------------------------------
(***************************************************************************)
(* Memory.  A vote is let through to its entry because it is its signer's   *)
(* first or because a peer claims a majority for its block.                 *)
(***************************************************************************)
MemoryInv ==
  /\ VotesType
  /\ \A v \in Voters : voteSet.votes[v] = None => first[v] = None
  /\ \A b \in BlockIDs : voteSet.votesByBlock[b].peerMaj23
                           => \E p \in Peers : voteSet.peerMaj23s[p] = b
  /\ MemoryBounded

LEMMA AddVoteKeepsMemory ==
  ASSUME Constants, MemoryInv, NEW v \in Voters, NEW b \in BlockIDs, AddVote(v, b)
  PROVE  MemoryInv'
<1> DEFINE s == voteSet
           a == AddToVotes(s, v, b)
           t == AddToBlock(a, v, b)
<1>1. s \in SetType /\ first \in [Voters -> BlockIDs \cup {None}]
  BY DEF MemoryInv, VotesType
<1>2. /\ a \in SetType
      /\ a.votesByBlock = s.votesByBlock /\ a.peerMaj23s = s.peerMaj23s
      /\ \A w \in Voters :
           a.votes[w] = IF w = v /\ (s.votes[v] = None \/ s.maj23 = b) THEN b ELSE s.votes[w]
  BY <1>1, VotesAdded
<1> HIDE DEF s, a, t
<1>3. /\ t \in SetType /\ t.peerMaj23s = s.peerMaj23s
      /\ \A c \in BlockIDs : c # b => t.votesByBlock[c] = s.votesByBlock[c]
      /\ t.votesByBlock[b].peerMaj23 = s.votesByBlock[b].peerMaj23
      /\ \A w \in Voters : t.votes[w] = b \/ t.votes[w] = a.votes[w]
  BY <1>2, BlockAdded, EntryAdded DEF t
<1>4. voteSet' = IF Forgotten(s, v, b) THEN a ELSE t
  BY DEF AddVote, AddVerifiedVote, s, a, t
<1>5. /\ first' \in [Voters -> BlockIDs \cup {None}]
      /\ \A w \in Voters : w # v => first'[w] = first[w]
      /\ first'[v] = IF first[v] = None THEN b ELSE first[v]
      /\ signed' = signed
  BY <1>1 DEF AddVote
<1>6. \A w \in Voters : first[w] # None => first'[w] = first[w]
  BY <1>5
<1>7. voteSet' \in SetType /\ voteSet'.peerMaj23s = s.peerMaj23s
  BY <1>2, <1>3, <1>4
<1>8. VotesType'
  BY <1>5, <1>7 DEF MemoryInv, VotesType
<1>9. \A w \in Voters : voteSet'.votes[w] = None => first'[w] = None
  <2> SUFFICES ASSUME NEW w \in Voters, voteSet'.votes[w] = None
               PROVE  first'[w] = None
    OBVIOUS
  <2>1. a.votes[w] = None
    BY <1>3, <1>4 DEF Constants
  <2>2. s.votes[w] = None /\ w # v
    BY <1>2, <2>1 DEF Constants
  <2> QED
    BY <1>5, <2>2 DEF MemoryInv, s
<1>10. \A c \in BlockIDs : voteSet'.votesByBlock[c].peerMaj23 = s.votesByBlock[c].peerMaj23
  BY <1>2, <1>3, <1>4
<1>11. \A c \in BlockIDs : voteSet'.votesByBlock[c].peerMaj23
                             => \E p \in Peers : voteSet'.peerMaj23s[p] = c
  BY <1>7, <1>10 DEF MemoryInv, s
<1>12. ASSUME NEW c \in BlockIDs, voteSet'.votesByBlock[c].tracked
       PROVE  \/ \E w \in Voters : first'[w] = c
              \/ \E p \in Peers : voteSet'.peerMaj23s[p] = c
  <2>1. CASE s.votesByBlock[c].tracked
    <3>1. \/ \E w \in Voters : first[w] = c
          \/ \E p \in Peers : s.peerMaj23s[p] = c
      BY <2>1 DEF MemoryInv, MemoryBounded, s
    <3> QED
      BY <1>6, <1>7, <3>1 DEF Constants
  <2>2. CASE ~ s.votesByBlock[c].tracked
    <3>1. c = b /\ ~ Forgotten(s, v, b)
      BY <1>2, <1>3, <1>4, <1>12, <2>2
    <3>2. CASE s.votes[v] = None
      <4>1. first'[v] = b
        BY <1>5, <3>2 DEF MemoryInv, s
      <4> QED
        BY <3>1, <4>1
    <3>3. CASE s.votesByBlock[b].peerMaj23
      BY <1>7, <3>1, <3>3 DEF MemoryInv, s
    <3> QED
      BY <3>1, <3>2, <3>3 DEF Forgotten
  <2> QED
    BY <2>1, <2>2
<1> QED
  BY <1>8, <1>9, <1>11, <1>12 DEF MemoryInv, MemoryBounded

(***************************************************************************)
(* Conflicting votes take memory only for the first vote of a validator or  *)
(* for the one claim of a peer, however many arrive.                        *)
(***************************************************************************)
THEOREM VoteMemoryBounded ==
  ASSUME Constants
  PROVE  VoteSetSpec => []MemoryBounded
<1>1. VoteSetInit => MemoryInv
  BY InitQuorum DEF VoteSetInit, NewVoteSet, MemoryInv, MemoryBounded, QuorumInv
<1>2. MemoryInv /\ [VoteSetNext]_voteSetVars => MemoryInv'
  <2> SUFFICES ASSUME MemoryInv, [VoteSetNext]_voteSetVars PROVE MemoryInv'
    OBVIOUS
  <2>1. ASSUME NEW v \in Voters, NEW b \in BlockIDs, Sign(v, b)
        PROVE  MemoryInv'
    BY <2>1 DEF Sign, MemoryInv, VotesType, MemoryBounded
  <2>2. ASSUME NEW v \in Voters, NEW b \in BlockIDs, AddVote(v, b)
        PROVE  MemoryInv'
    BY <2>2, AddVoteKeepsMemory
  <2>3. ASSUME NEW p \in Peers, NEW b \in BlockIDs, SetPeerMaj23(p, b)
        PROVE  MemoryInv'
    <3>1. voteSet \in SetType /\ voteSet.peerMaj23s[p] = None
      BY <2>3 DEF MemoryInv, VotesType, SetPeerMaj23
    <3>2. /\ voteSet' \in SetType /\ voteSet'.votes = voteSet.votes
          /\ \A q \in Peers : voteSet'.peerMaj23s[q] = IF q = p THEN b ELSE voteSet.peerMaj23s[q]
          /\ \A c \in BlockIDs : c # b => voteSet'.votesByBlock[c] = voteSet.votesByBlock[c]
      BY <2>3, <3>1, ClaimMade
    <3>3. signed' = signed /\ first' = first
      BY <2>3 DEF SetPeerMaj23
    <3>4. \A c \in BlockIDs : (\E q \in Peers : voteSet.peerMaj23s[q] = c)
                                => \E q \in Peers : voteSet'.peerMaj23s[q] = c
      BY <3>1, <3>2 DEF Constants
    <3>5. \E q \in Peers : voteSet'.peerMaj23s[q] = b
      BY <3>2
    <3> QED
      BY <3>2, <3>3, <3>4, <3>5 DEF MemoryInv, VotesType, MemoryBounded
  <2>4. CASE UNCHANGED voteSetVars
    BY <2>4 DEF voteSetVars, MemoryInv, VotesType, MemoryBounded
  <2> QED
    BY <2>1, <2>2, <2>3, <2>4 DEF VoteSetNext
<1>3. MemoryInv => MemoryBounded
  BY DEF MemoryInv
<1> QED
  BY <1>1, <1>2, <1>3, PTL DEF VoteSetSpec

-----------------------------------------------------------------------------
(* The evidence pool *)

\* the AddEvidence calls between saving the evidence and counting it
Saving == {p \in Reporters : adder[p].pc = "saved"}

PoolType ==
  /\ pending \in SUBSET Evidence /\ buffer \in SUBSET Evidence
  /\ size \in Int
  /\ adder \in [Reporters -> [pc: {"idle", "notPending", "verified", "saved", "counted"},
                          ev: Evidence \cup {NoEvidence}]]
  /\ \A p \in Reporters : adder[p].pc # "idle" => adder[p].ev \in Evidence

(***************************************************************************)
(* Every piece of pending evidence is counted, or a call that saved one has *)
(* yet to count it.  The counter may exceed the evidence that is pending:   *)
(* two calls may save the same evidence and both count it.                  *)
(***************************************************************************)
Counted == Cardinality(pending) <= size + Cardinality(Saving)

PoolInv == PoolType /\ Counted

-----------------------------------------------------------------------------
(***************************************************************************)
(* What is saved, removed and pruned changes the number of elements as the  *)
(* pool's arithmetic says.                                                  *)
(***************************************************************************)
LEMMA CardinalityAdded ==
  ASSUME NEW S, NEW T, IsFiniteSet(S), IsFiniteSet(T)
  PROVE  /\ IsFiniteSet(S \cup T)
         /\ Cardinality(S) \in Nat /\ Cardinality(T) \in Nat
         /\ Cardinality(S \cup T) \in Nat
         /\ Cardinality(S \cup T) <= Cardinality(S) + Cardinality(T)
         /\ S \cap T = {} => Cardinality(S \cup T) = Cardinality(S) + Cardinality(T)
<1>1. S \cap T \in SUBSET S
  OBVIOUS
<1>2. IsFiniteSet(S \cap T) /\ Cardinality(S \cap T) \in Nat
  BY <1>1, FS_Subset, FS_CardinalityType
<1>3. /\ IsFiniteSet(S \cup T)
      /\ Cardinality(S \cup T) = Cardinality(S) + Cardinality(T) - Cardinality(S \cap T)
  BY FS_Union
<1>4. Cardinality(S) \in Nat /\ Cardinality(T) \in Nat /\ Cardinality(S \cup T) \in Nat
  BY <1>3, FS_CardinalityType
<1>5. S \cap T = {} => Cardinality(S \cap T) = 0
  BY <1>2, FS_EmptySet
<1> QED
  BY <1>2, <1>3, <1>4, <1>5

LEMMA CardinalityRemoved ==
  ASSUME NEW S, NEW T \in SUBSET S, IsFiniteSet(S)
  PROVE  /\ IsFiniteSet(S \ T) /\ IsFiniteSet(T)
         /\ Cardinality(S) \in Nat /\ Cardinality(T) \in Nat
         /\ Cardinality(S \ T) = Cardinality(S) - Cardinality(T)
<1>1. IsFiniteSet(T)
  BY FS_Subset
<1>2. S \cap T = T
  OBVIOUS
<1>3. IsFiniteSet(S \ T) /\ Cardinality(S \ T) = Cardinality(S) - Cardinality(S \cap T)
  BY FS_Difference
<1> QED
  BY <1>1, <1>2, <1>3, FS_CardinalityType
-----------------------------------------------------------------------------
(***************************************************************************)
(* The sets that are counted are finite.                                    *)
(***************************************************************************)
LEMMA PoolFinite ==
  ASSUME IsFiniteSet(Evidence), IsFiniteSet(Reporters), PoolInv
  PROVE  /\ IsFiniteSet(pending) /\ Cardinality(pending) \in Nat
         /\ IsFiniteSet(Saving) /\ Cardinality(Saving) \in Nat
<1>1. Saving \in SUBSET Reporters /\ pending \in SUBSET Evidence
  BY DEF Saving, PoolInv, PoolType
<1> QED
  BY <1>1, FS_Subset, FS_CardinalityType

(***************************************************************************)
(* Each step of AddEvidence: saving raises the number of calls that owe a   *)
(* count by one and that of pending evidence by at most one.                *)
(***************************************************************************)
LEMMA AddEvidenceKeeps ==
  ASSUME IsFiniteSet(Evidence), IsFiniteSet(Reporters), PoolInv,
         NEW p \in Reporters,
         \/ \E ev \in Evidence : Receive(p, ev)
         \/ CheckCommitted(p) \/ AddPending(p) \/ Count(p) \/ PushBack(p)
  PROVE  PoolInv'
<1>1. /\ buffer' = buffer
      /\ p \in Saving <=> adder[p].pc = "saved"
  BY DEF Receive, CheckCommitted, AddPending, Count, PushBack, Saving
<1>2. ASSUME NEW ev \in Evidence, Receive(p, ev) PROVE PoolInv'
  <2>1. PoolType'
    BY <1>2 DEF Receive, PoolInv, PoolType
  <2>2. Saving' = Saving
    BY <1>2 DEF Receive, Saving, PoolInv, PoolType, NoCall
  <2> QED
    BY <1>2, <2>1, <2>2 DEF Receive, PoolInv, Counted
<1>3. CASE CheckCommitted(p)
  <2>1. PoolType'
    BY <1>3 DEF CheckCommitted, Goto, NoCall, PoolInv, PoolType
  <2>2. Saving' = Saving
    BY <1>3 DEF CheckCommitted, Goto, NoCall, Saving, PoolInv, PoolType
  <2> QED
    BY <1>3, <2>1, <2>2 DEF CheckCommitted, PoolInv, Counted
<1>4. CASE AddPending(p)
  <2>1. PoolType'
    BY <1>4 DEF AddPending, Goto, PoolInv, PoolType
  <2>2. Saving' = Saving \cup {p} /\ p \notin Saving
    BY <1>4 DEF AddPending, Goto, Saving, PoolInv, PoolType
  <2>3. Cardinality(Saving') = Cardinality(Saving) + 1
    BY <2>2, PoolFinite, FS_AddElement
  <2>4. Cardinality(pending') \in {Cardinality(pending), Cardinality(pending) + 1}
    BY <1>4, PoolFinite, FS_AddElement DEF AddPending
  <2>5. size' = size /\ size \in Int /\ Counted
    BY <1>4 DEF AddPending, PoolInv, PoolType
  <2> QED
    BY <2>1, <2>3, <2>4, <2>5, PoolFinite DEF PoolInv, Counted
<1>5. CASE Count(p)
  <2>1. PoolType'
    BY <1>5 DEF Count, Goto, PoolInv, PoolType
  <2>2. Saving' = Saving \ {p} /\ p \in Saving
    BY <1>5 DEF Count, Goto, Saving, PoolInv, PoolType
  <2>3. Cardinality(Saving') = Cardinality(Saving) - 1
    BY <2>2, PoolFinite, FS_RemoveElement
  <2>4. size' = size + 1 /\ size \in Int /\ Counted /\ pending' = pending
    BY <1>5 DEF Count, PoolInv, PoolType
  <2> QED
    BY <2>1, <2>3, <2>4, PoolFinite DEF PoolInv, Counted
<1>6. CASE PushBack(p)
  <2>1. PoolType'
    BY <1>6 DEF PushBack, Goto, NoCall, PoolInv, PoolType
  <2>2. Saving' = Saving
    BY <1>6 DEF PushBack, Goto, NoCall, Saving, PoolInv, PoolType
  <2> QED
    BY <1>6, <2>1, <2>2 DEF PushBack, PoolInv, Counted
<1> QED
  BY <1>2, <1>3, <1>4, <1>5, <1>6

(***************************************************************************)
(* CheckEvidence counts what it had not seen, and that includes everything  *)
(* that was not pending.                                                    *)
(***************************************************************************)
LEMMA CheckEvidenceKeeps ==
  ASSUME IsFiniteSet(Evidence), IsFiniteSet(Reporters), PoolInv,
         NEW evs \in SUBSET Evidence, CheckEvidence(evs)
  PROVE  PoolInv'
<1>1. /\ Unseen(evs) \in SUBSET Evidence
      /\ pending' = pending \cup Unseen(evs)
      /\ size' = size + Cardinality(Unseen(evs))
      /\ adder' = adder /\ buffer' = buffer
  BY DEF CheckEvidence, Unseen
<1>2. IsFiniteSet(Unseen(evs))
  BY <1>1, FS_Subset
<1>3. /\ Cardinality(pending') <= Cardinality(pending) + Cardinality(Unseen(evs))
      /\ Cardinality(pending') \in Nat /\ Cardinality(Unseen(evs)) \in Nat
  BY <1>1, <1>2, PoolFinite, CardinalityAdded
<1>4. Saving' = Saving
  BY <1>1 DEF Saving
<1>5. PoolType'
  BY <1>1, <1>3 DEF PoolInv, PoolType
<1>6. size \in Int /\ Counted
  BY DEF PoolInv, PoolType
<1> QED
  BY <1>1, <1>3, <1>4, <1>5, <1>6, PoolFinite DEF PoolInv, Counted

(***************************************************************************)
(* Update: what the buffered votes became is new, and what is committed or  *)
(* has expired was pending, so that the counter follows exactly.            *)
(***************************************************************************)
LEMMA UpdateKeeps ==
  ASSUME IsFiniteSet(Evidence), IsFiniteSet(Reporters), PoolInv,
         NEW evs \in SUBSET Evidence, Update(evs)
  PROVE  PoolInv'
<1> DEFINE h == height + 1
           reported == Reported(h)
           all == pending \cup reported
           removed == Uncounted(evs, all)
           after == all \ removed
           count == size + Cardinality(reported) - Cardinality(removed)
           prune == count # 0 /\ h > pruningHeight
           expired == IF prune THEN RemovedAsExpired(after, h) ELSE {}
<1>1. /\ pending' = after \ expired
      /\ size' = count - Cardinality(expired)
      /\ buffer' = {} /\ adder' = adder
  BY DEF Update
<1>2. /\ reported \in SUBSET Evidence /\ pending \cap reported = {}
      /\ removed \in SUBSET all /\ expired \in SUBSET after
      /\ pending \in SUBSET Evidence
  BY DEF Reported, Uncounted, RemovedAsExpired, PoolInv, PoolType
<1> HIDE DEF reported, removed, expired
<1>3. IsFiniteSet(reported)
  BY <1>2, FS_Subset
<1>4. /\ IsFiniteSet(all) /\ Cardinality(reported) \in Nat
      /\ Cardinality(all) = Cardinality(pending) + Cardinality(reported)
  BY <1>2, <1>3, PoolFinite, CardinalityAdded
<1>5. /\ IsFiniteSet(after) /\ Cardinality(removed) \in Nat
      /\ Cardinality(after) = Cardinality(all) - Cardinality(removed)
  BY <1>2, <1>4, CardinalityRemoved
<1>6. /\ Cardinality(expired) \in Nat
      /\ Cardinality(after \ expired) = Cardinality(after) - Cardinality(expired)
  BY <1>2, <1>5, CardinalityRemoved
<1>7. Saving' = Saving
  BY <1>1 DEF Saving
<1>8. size \in Int /\ Counted
  BY DEF PoolInv, PoolType
<1>9. PoolType'
  <2>1. pending' \in SUBSET Evidence
    BY <1>1, <1>2
  <2>2. size' \in Int
    BY <1>1, <1>4, <1>5, <1>6, <1>8
  <2> QED
    BY <1>1, <2>1, <2>2 DEF PoolInv, PoolType
<1>10. Cardinality(pending') = Cardinality(pending) + (size' - size)
  BY <1>1, <1>4, <1>5, <1>6, <1>8, PoolFinite
<1>11. size' \in Int
  BY <1>9 DEF PoolType
<1> QED
  BY <1>7, <1>8, <1>9, <1>10, <1>11, PoolFinite DEF PoolInv, Counted

(***************************************************************************)
(* A restart counts the evidence of the database anew.                      *)
(***************************************************************************)
LEMMA CrashKeeps ==
  ASSUME IsFiniteSet(Evidence), IsFiniteSet(Reporters), PoolInv, Crash
  PROVE  PoolInv'
<1>1. PICK h : NewPool(pending, h)
  BY DEF Crash
<1>2. /\ pending' \in SUBSET Evidence /\ size' = Cardinality(pending')
      /\ buffer' = {} /\ adder' = [p \in Reporters |-> NoCall]
  BY <1>1 DEF NewPool, PoolInv, PoolType
<1>3. Cardinality(pending') \in Nat
  BY <1>2, FS_Subset, FS_CardinalityType
<1>4. Saving' = {}
  BY <1>2 DEF Saving, NoCall
<1>5. Cardinality(Saving') = 0
  BY <1>4, FS_EmptySet
<1>6. PoolType'
  BY <1>2, <1>3 DEF PoolType, NoCall
<1> QED
  BY <1>2, <1>3, <1>5, <1>6 DEF PoolInv, Counted

-----------------------------------------------------------------------------
(***************************************************************************)
(* Every step of the pool keeps the invariant.                              *)
(***************************************************************************)
THEOREM PoolCounts ==
  ASSUME IsFiniteSet(Evidence), IsFiniteSet(Reporters)
  PROVE  EvidenceSpec => []PoolInv
<1>1. EvidenceInit => PoolInv
  <2> SUFFICES ASSUME EvidenceInit PROVE PoolInv
    OBVIOUS
  <2>1. PoolType
    BY DEF EvidenceInit, PoolType, NoCall
  <2>2. Saving = {} /\ pending = {} /\ size = 0
    BY DEF EvidenceInit, Saving, NoCall
  <2> QED
    BY <2>1, <2>2, FS_EmptySet DEF PoolInv, Counted
<1>2. ASSUME PoolInv, [EvidenceNext]_evidenceVars PROVE PoolInv'
  <2> USE <1>2
  <2>1. ASSUME NEW p \in Reporters,
               \/ \E ev \in Evidence : Receive(p, ev)
               \/ CheckCommitted(p) \/ AddPending(p) \/ Count(p) \/ PushBack(p)
        PROVE  PoolInv'
    BY <2>1, AddEvidenceKeeps
  <2>2. ASSUME NEW ev \in Evidence, ReportConflictingVotes(ev) PROVE PoolInv'
    BY <2>2 DEF ReportConflictingVotes, PoolInv, PoolType, Counted, Saving
  <2>3. ASSUME NEW evs \in SUBSET Evidence, CheckEvidence(evs) PROVE PoolInv'
    BY <2>3, CheckEvidenceKeeps
  <2>4. ASSUME NEW evs \in SUBSET Evidence, Decided(evs) PROVE PoolInv'
    BY <2>4, UpdateKeeps DEF Decided
  <2>5. CASE Crash
    BY <2>5, CrashKeeps
  <2>6. CASE UNCHANGED evidenceVars
    BY <2>6 DEF evidenceVars, PoolInv, PoolType, Counted, Saving
  <2> QED
    BY <2>1, <2>2, <2>3, <2>4, <2>5, <2>6 DEF EvidenceNext
<1> QED
  BY <1>1, <1>2, PTL DEF EvidenceSpec

(***************************************************************************)
(* PendingEvidence, which looks at the counter first, offers evidence       *)
(* whenever some is pending and no AddEvidence is between saving and        *)
(* counting.                                                                *)
(***************************************************************************)
THEOREM PendingEvidenceOffered ==
  ASSUME IsFiniteSet(Evidence), IsFiniteSet(Reporters)
  PROVE  EvidenceSpec => []PendingIsOffered
<1>1. ASSUME PoolInv PROVE PendingIsOffered
  <2> SUFFICES ASSUME \A p \in Reporters : adder[p].pc # "saved", pending # {}
               PROVE  size > 0
    BY DEF PendingIsOffered
  <2>1. Saving = {}
    BY DEF Saving
  <2>2. Cardinality(Saving) = 0
    BY <2>1, FS_EmptySet
  <2>3. Cardinality(pending) # 0 /\ Cardinality(pending) \in Nat
    BY <1>1, PoolFinite, FS_EmptySet
  <2> QED
    BY <1>1, <2>2, <2>3 DEF PoolInv, PoolType, Counted
<1> QED
  BY PoolCounts, <1>1, PTL
=============================================================================

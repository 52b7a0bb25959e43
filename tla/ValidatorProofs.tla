-------------------------- MODULE ValidatorProofs ---------------------------
(***************************************************************************)
(* What a validator signs never conflicts with what it has signed, whatever *)
(* crashes, for any heights, rounds, bodies and timestamps; and agreement   *)
(* follows from the voting rules, for any validators, rounds and blocks.    *)
(***************************************************************************)
EXTENDS FilePV, Locking, TLAPS

-----------------------------------------------------------------------------
(* FilePV *)

(***************************************************************************)
(* NoFile is not a last sign state: it has other fields.                    *)
(***************************************************************************)
LEMMA NoFileIsNoState == NoFile \notin LastSignState
  BY DEF NoFile, LastSignState

LEMMA EmptyIsState == Empty \in LastSignState
  BY DEF Empty, LastSignState, stepNone

(***************************************************************************)
(* The fields that are compared are integers.                               *)
(***************************************************************************)
LEMMA StateHRS ==
  ASSUME NEW l \in LastSignState
  PROVE  l.height \in Int /\ l.round \in Int /\ l.step \in Int
  <1>1. /\ l.height \in Heights \cup {0}
        /\ l.round \in SignRounds \cup {0}
        /\ l.step \in 0..3
    BY DEF LastSignState
  <1>2. \A n \in Heights \cup SignRounds \cup {0} : n \in Int
    BY HeightsAssumption, SignRoundsAssumption
  <1>3. QED
    BY <1>1, <1>2

LEMMA BytesHRS ==
  ASSUME NEW b \in SignBytes
  PROVE  b.height \in Int /\ b.round \in Int /\ b.step \in Int
  <1>1. b.height \in Heights /\ b.round \in SignRounds /\ b.step \in {stepPropose} \cup VoteSteps
    BY DEF SignBytes
  <1>2. \A n \in Heights \cup SignRounds : n \in Int
    BY HeightsAssumption, SignRoundsAssumption
  <1>3. QED
    BY <1>1, <1>2 DEF VoteSteps, stepPropose, stepPrevote, stepPrecommit

(***************************************************************************)
(* What a granted check says: "same" means equal HRS and recorded sign      *)
(* bytes, "new" means a strictly greater HRS.                               *)
(***************************************************************************)
LEMMA CheckHRSMeans ==
  ASSUME NEW l \in LastSignState, NEW b \in SignBytes
  PROVE  /\ CheckHRS(l, b.height, b.round, b.step) = "same" =>
              SameHRS(l, b) /\ l.signBytes # NoBytes
         /\ CheckHRS(l, b.height, b.round, b.step) = "new" =>
              HRSLess(l.height, l.round, l.step, b.height, b.round, b.step)
  <1>1. /\ l.height \in Int /\ l.round \in Int /\ l.step \in Int
        /\ b.height \in Int /\ b.round \in Int /\ b.step \in Int
    BY StateHRS, BytesHRS
  <1>2. QED
    BY <1>1 DEF CheckHRS, HRSLess, SameHRS

(***************************************************************************)
(* A record that covers what was released still covers it when it moves to  *)
(* a greater HRS.                                                           *)
(***************************************************************************)
LEMMA HRSLessTransitive ==
  ASSUME NEW a \in SignBytes, NEW l \in LastSignState, NEW b \in SignBytes,
         HRSLess(l.height, l.round, l.step, b.height, b.round, b.step),
         \/ HRSLess(a.height, a.round, a.step, l.height, l.round, l.step)
         \/ SameHRS(l, a)
  PROVE  HRSLess(a.height, a.round, a.step, b.height, b.round, b.step)
  <1>1. /\ l.height \in Int /\ l.round \in Int /\ l.step \in Int
        /\ a.height \in Int /\ a.round \in Int /\ a.step \in Int
        /\ b.height \in Int /\ b.round \in Int /\ b.step \in Int
    BY StateHRS, BytesHRS
  <1>2. QED
    BY <1>1 DEF HRSLess, SameHRS

LEMMA HRSLessIrreflexive ==
  ASSUME NEW a \in SignBytes, NEW l \in LastSignState,
         HRSLess(a.height, a.round, a.step, l.height, l.round, l.step)
  PROVE  /\ ~ SameHRS(l, a)
         /\ ~ HRSLess(l.height, l.round, l.step, a.height, a.round, a.step)
  <1>1. /\ l.height \in Int /\ l.round \in Int /\ l.step \in Int
        /\ a.height \in Int /\ a.round \in Int /\ a.step \in Int
    BY StateHRS, BytesHRS
  <1>2. QED
    BY <1>1 DEF HRSLess, SameHRS

(***************************************************************************)
(* Handing out the recorded signature of a covering record keeps it         *)
(* covering and adds no second message for an HRS.                          *)
(***************************************************************************)
LEMMA ReleaseRecorded ==
  ASSUME TypeOK, NEW l \in LastSignState, Consistent(l), Covers(l),
         l.signBytes # NoBytes, NoDoubleSign,
         Release(l.signBytes)
  PROVE  /\ released' \subseteq SignBytes
         /\ \A a \in released' :
              \/ HRSLess(a.height, a.round, a.step, l.height, l.round, l.step)
              \/ a = l.signBytes
         /\ NoDoubleSign'
  <1>1. l.signBytes \in SignBytes
    BY DEF LastSignState
  <1>2. released' \subseteq SignBytes
    BY <1>1 DEF Release, TypeOK
  <1>3. \A a \in released' :
          \/ HRSLess(a.height, a.round, a.step, l.height, l.round, l.step)
          \/ a = l.signBytes
    BY DEF Release, Covers
  <1>4. SameHRS(l, l.signBytes)
    BY DEF Consistent
  <1>5. ASSUME NEW a \in released', NEW b \in released', SameHRS(a, b)
        PROVE  a = b
    <2>1. CASE a \in released /\ b \in released
      BY <2>1, <1>5 DEF NoDoubleSign
    <2>2. CASE a = l.signBytes
      <3>1. SameHRS(l, b)
        BY <2>2, <1>4, <1>5 DEF SameHRS
      <3>2. QED
        BY <3>1, <2>2, <1>2, <1>3, HRSLessIrreflexive
    <2>3. CASE b = l.signBytes
      <3>1. SameHRS(l, a)
        BY <2>3, <1>4, <1>5 DEF SameHRS
      <3>2. QED
        BY <3>1, <2>3, <1>2, <1>3, HRSLessIrreflexive
    <2>4. QED
      BY <2>1, <2>2, <2>3 DEF Release
  <1>6. QED
    BY <1>2, <1>3, <1>5 DEF NoDoubleSign

THEOREM Initially == FilePVInit => IInv
  BY EmptyIsState, NoFileIsNoState
     DEF FilePVInit, IInv, TypeOK, RecordsConsistent, SaveInProgress, Consistent,
         Covers, NoDoubleSign, Empty

(***************************************************************************)
(* A request with sign bytes b preserves the invariant.                     *)
(***************************************************************************)
LEMMA SignPreserves ==
  ASSUME IInv, NEW b \in SignBytes, Sign(b)
  PROVE  IInv'
  <1> DEFINE check == CheckHRS(lss, b.height, b.round, b.step)
  <1>1. /\ pc = "idle" /\ lss \in LastSignState /\ file \in LastSignState
        /\ Consistent(lss) /\ Covers(lss) /\ Covers(file) /\ owed = NoBytes
        /\ lss = file \/ lss = Empty
    BY DEF IInv, Sign, TypeOK, RecordsConsistent, SaveInProgress
  <1>2. CASE UNCHANGED filePVVars
    BY <1>2 DEF filePVVars, IInv, TypeOK, RecordsConsistent, Consistent,
                SaveInProgress, Covers, NoDoubleSign
  <1>3. CASE /\ check = "same"
             /\ Release(lss.signature)
             /\ UNCHANGED <<lss, file, tmp, pc, owed>>
    <2>1. lss.signBytes # NoBytes /\ lss.signature = lss.signBytes
      BY <1>1, <1>3, CheckHRSMeans DEF Consistent
    <2>2. lss = file
      BY <1>1, <2>1 DEF Empty
    <2>3. /\ released' \subseteq SignBytes
          /\ \A a \in released' :
               \/ HRSLess(a.height, a.round, a.step, lss.height, lss.round, lss.step)
               \/ a = lss.signBytes
          /\ NoDoubleSign'
      BY <1>1, <1>3, <2>1, ReleaseRecorded DEF IInv
    <2>4. Covers(lss)' /\ Covers(file)'
      BY <1>3, <2>2, <2>3 DEF Covers
    <2>5. TypeOK' /\ RecordsConsistent' /\ SaveInProgress'
      BY <1>3, <2>3 DEF IInv, TypeOK, RecordsConsistent, Consistent, SaveInProgress
    <2>6. QED
      BY <2>3, <2>4, <2>5 DEF IInv
  <1>4. CASE /\ check = "new"
             /\ lss' = [height |-> b.height, round |-> b.round, step |-> b.step,
                        signBytes |-> b, signature |-> b]
             /\ owed' = b
             /\ pc' = "create"
             /\ UNCHANGED <<file, tmp, released>>
    <2>1. lss' \in LastSignState
      BY <1>4 DEF LastSignState, SignBytes, VoteSteps, stepPropose,
                  stepPrevote, stepPrecommit
    <2>2. ASSUME NEW a \in released
          PROVE  HRSLess(a.height, a.round, a.step, b.height, b.round, b.step)
      <3>1. a \in SignBytes
        BY DEF IInv, TypeOK
      <3>2. \/ HRSLess(a.height, a.round, a.step, lss.height, lss.round, lss.step)
            \/ SameHRS(lss, a)
        <4>1. a = lss.signBytes => a # NoBytes
          BY <3>1, NoBytesAssumption
        <4>2. QED
          BY <1>1, <4>1 DEF Covers, Consistent
      <3>3. HRSLess(lss.height, lss.round, lss.step, b.height, b.round, b.step)
        BY <1>1, <1>4, CheckHRSMeans
      <3>4. QED
        BY <1>1, <3>1, <3>2, <3>3, HRSLessTransitive
    <2>3. Covers(lss)' /\ Covers(file)'
      BY <1>1, <1>4, <2>2 DEF Covers
    <2>4. TypeOK'
      BY <1>4, <2>1 DEF IInv, TypeOK
    <2>5. RecordsConsistent' /\ SaveInProgress' /\ NoDoubleSign'
      BY <1>4 DEF IInv, RecordsConsistent, Consistent, SameHRS, SaveInProgress,
                  NoDoubleSign
    <2>6. QED
      BY <2>3, <2>4, <2>5 DEF IInv
  <1>5. QED
    BY <1>2, <1>3, <1>4 DEF Sign

LEMMA RequestBytes ==
  /\ SignVote => \E b \in SignBytes : Sign(b)
  /\ SignProposal => \E b \in SignBytes : Sign(b)
  <1>1. ASSUME NEW h \in Heights, NEW r \in SignRounds,
               NEW s \in {stepPropose} \cup VoteSteps,
               NEW x \in Bodies, NEW t \in Times
        PROVE  [height |-> h, round |-> r, step |-> s, body |-> x, time |-> t]
                 \in SignBytes
    BY DEF SignBytes
  <1>2. QED
    BY <1>1 DEF SignVote, SignProposal

LEMMA StepPreserves == IInv /\ [FilePVNext]_filePVVars => IInv'
  <1> SUFFICES ASSUME IInv, [FilePVNext]_filePVVars PROVE IInv'
    OBVIOUS
  <1> USE DEF IInv
  <1>1. CASE SignVote \/ SignProposal
    BY <1>1, RequestBytes, SignPreserves
  <1>2. CASE SaveCreate
    <2>1. TypeOK' /\ RecordsConsistent' /\ SaveInProgress'
      BY <1>2 DEF SaveCreate, TypeOK, RecordsConsistent, Consistent, SaveInProgress
    <2>2. QED
      BY <1>2, <2>1 DEF SaveCreate, Covers, NoDoubleSign
  <1>3. CASE SaveRename
    <2>1. tmp = lss /\ lss \in LastSignState
      BY <1>3 DEF SaveRename, SaveInProgress, TypeOK
    <2>2. TypeOK' /\ RecordsConsistent' /\ SaveInProgress'
      BY <1>3, <2>1 DEF SaveRename, TypeOK, RecordsConsistent, Consistent, SaveInProgress
    <2>3. QED
      BY <1>3, <2>1, <2>2 DEF SaveRename, Covers, NoDoubleSign
  <1>4. CASE Reply
    <2>1. /\ file = lss /\ lss \in LastSignState /\ Consistent(lss) /\ Covers(lss)
          /\ owed # NoBytes => owed = lss.signBytes
      BY <1>4 DEF Reply, SaveInProgress, TypeOK, RecordsConsistent
    <2>2. CASE owed = NoBytes
      BY <1>4, <2>1, <2>2
         DEF Reply, TypeOK, RecordsConsistent, Consistent, SaveInProgress, Covers,
             NoDoubleSign
    <2>3. CASE owed # NoBytes
      <3>1. Release(lss.signBytes) /\ lss.signBytes # NoBytes
        BY <1>4, <2>1, <2>3 DEF Reply
      <3>2. /\ released' \subseteq SignBytes
            /\ \A a \in released' :
                 \/ HRSLess(a.height, a.round, a.step, lss.height, lss.round, lss.step)
                 \/ a = lss.signBytes
            /\ NoDoubleSign'
        BY <2>1, <3>1, ReleaseRecorded
      <3>3. Covers(lss)' /\ Covers(file)'
        BY <1>4, <2>1, <3>2 DEF Reply, Covers
      <3>4. TypeOK' /\ RecordsConsistent' /\ SaveInProgress'
        BY <1>4, <2>1, <3>2
           DEF Reply, TypeOK, RecordsConsistent, Consistent, SaveInProgress
      <3>5. QED
        BY <3>2, <3>3, <3>4
    <2>4. QED
      BY <2>2, <2>3
  <1>5. CASE Crash
    <2>1. TypeOK' /\ RecordsConsistent' /\ SaveInProgress'
      BY <1>5, EmptyIsState
         DEF Crash, TypeOK, RecordsConsistent, Consistent, SaveInProgress, Empty
    <2>2. QED
      BY <1>5, <2>1 DEF Crash, Covers, NoDoubleSign
  <1>6. CASE LoadFilePV
    <2>1. TypeOK' /\ RecordsConsistent' /\ SaveInProgress'
      BY <1>6 DEF LoadFilePV, TypeOK, RecordsConsistent, Consistent, SaveInProgress
    <2>2. QED
      BY <1>6, <2>1 DEF LoadFilePV, Covers, NoDoubleSign
  <1>7. CASE LoadFilePVEmptyState \/ Reset
    <2>1. TypeOK' /\ RecordsConsistent' /\ SaveInProgress'
      BY <1>7, EmptyIsState
         DEF LoadFilePVEmptyState, Reset, TypeOK, RecordsConsistent, Consistent,
             SaveInProgress, Empty
    <2>2. QED
      BY <1>7, <2>1 DEF LoadFilePVEmptyState, Reset, Covers, NoDoubleSign
  <1>8. CASE UNCHANGED filePVVars
    BY <1>8 DEF filePVVars, TypeOK, RecordsConsistent, Consistent, SaveInProgress,
                Covers, NoDoubleSign
  <1>9. QED
    BY <1>1, <1>2, <1>3, <1>4, <1>5, <1>6, <1>7, <1>8 DEF FilePVNext

(***************************************************************************)
(* The inductive invariant holds in every reachable state of the signer.    *)
(***************************************************************************)
THEOREM Invariance == FilePVSpec => []IInv
  BY Initially, StepPreserves, PTL DEF FilePVSpec

(***************************************************************************)
(* Type correctness of the signer's memory, file and history.               *)
(***************************************************************************)
THEOREM TypeCorrect == FilePVSpec => []TypeOK
  BY Invariance, PTL DEF IInv

(***************************************************************************)
(* The validator never releases two messages for one height, round, step:   *)
(* signVote and signProposal with any pattern of crashes and reloads.       *)
(***************************************************************************)
THEOREM NeverDoubleSigns == FilePVSpec => []NoDoubleSign
  BY Invariance, PTL DEF IInv

(***************************************************************************)
(* The state file is never behind a released signature.                     *)
(***************************************************************************)
THEOREM WriteAhead == FilePVSpec => []PersistedBeforeReleased
  <1>1. IInv => PersistedBeforeReleased
    <2> SUFFICES ASSUME IInv, NEW a \in released
                 PROVE  ~ HRSLess(file.height, file.round, file.step,
                                  a.height, a.round, a.step)
      BY DEF PersistedBeforeReleased
    <2>1. a \in SignBytes /\ file \in LastSignState
      BY DEF IInv, TypeOK
    <2>2. CASE HRSLess(a.height, a.round, a.step, file.height, file.round, file.step)
      BY <2>1, <2>2, HRSLessIrreflexive
    <2>3. CASE a = file.signBytes
      <3>1. SameHRS(file, a)
        BY <2>1, <2>3, NoBytesAssumption DEF IInv, RecordsConsistent, Consistent
      <3>2. QED
        BY <2>1, <3>1, StateHRS, BytesHRS DEF SameHRS, HRSLess
    <2>4. QED
      BY <2>2, <2>3 DEF IInv, Covers
  <1>2. QED
    BY Invariance, <1>1, PTL

(***************************************************************************)
(* Signatures leave the signer in the order of heights, rounds and steps.   *)
(***************************************************************************)
THEOREM ReleasesInOrder == FilePVSpec => ReleasedInOrder
  <1> DEFINE Ordered ==
        \A a \in released' \ released : \A b \in released :
          ~ HRSLess(a.height, a.round, a.step, b.height, b.round, b.step)
  <1>1. IInv /\ [FilePVNext]_filePVVars => [Ordered]_filePVVars
    <2> SUFFICES ASSUME IInv, [FilePVNext]_filePVVars,
                        NEW a \in released' \ released, NEW b \in released
                 PROVE  ~ HRSLess(a.height, a.round, a.step, b.height, b.round, b.step)
      OBVIOUS
    <2>1. a = lss.signBytes /\ pc # "down"
      <3>1. CASE SignVote \/ SignProposal
        BY <3>1, RequestBytes
           DEF Sign, Release, filePVVars, IInv, RecordsConsistent, Consistent
      <3>2. CASE Reply
        BY <3>2 DEF Reply, Release, IInv, SaveInProgress
      <3>3. QED
        BY <3>1, <3>2 DEF FilePVNext, filePVVars, SaveCreate, SaveRename, Crash, LoadFilePV,
                          LoadFilePVEmptyState, Reset
    <2>2. /\ lss \in LastSignState /\ b \in SignBytes
          /\ a \in SignBytes \cup {NoBytes}
      BY <2>1 DEF IInv, TypeOK, LastSignState
    <2>3. a # NoBytes /\ a \in SignBytes
      BY <2>2, StepPreserves, NoBytesAssumption DEF IInv, TypeOK
    <2>4. SameHRS(lss, a)
      BY <2>1, <2>3 DEF IInv, RecordsConsistent, Consistent
    <2>5. HRSLess(b.height, b.round, b.step, lss.height, lss.round, lss.step)
          \/ b = a
      BY <2>1 DEF IInv, Covers
    <2>6. QED
      BY <2>2, <2>3, <2>4, <2>5, StateHRS, BytesHRS DEF SameHRS, HRSLess
  <1>2. QED
    BY Invariance, <1>1, PTL DEF FilePVSpec, ReleasedInOrder

-----------------------------------------------------------------------------
(* Agreement *)

(***************************************************************************)
(* Agreement alone is not inductive: before the second commit exists,       *)
(* nothing in it forbids the votes that lead there.  What makes it true is  *)
(* that a block which may still get a commit in a round keeps every other   *)
(* value from a polka in all later rounds.                                  *)
(***************************************************************************)

(***************************************************************************)
(* The correct members of Q have precommitted b in round r or still may.    *)
(***************************************************************************)
Choosable(votes, r, b, Q) ==
  \A v \in Q \ Faulty : Precommit(v, r, b) \in votes \/ InOrder(votes, Precommit(v, r, b))

(***************************************************************************)
(* The votes of a correct validator are ordered, so that it has one of a    *)
(* type in a round.                                                         *)
(***************************************************************************)
Ordered(votes) ==
  \A x, w \in votes : x.val = w.val /\ x.val \notin Faulty /\ x # w => Before(x, w) \/ Before(w, x)

(***************************************************************************)
(* A precommit of a correct validator has its polka.                        *)
(***************************************************************************)
Backed(votes) ==
  \A v \in Correct, r \in Rounds, b \in Blocks : Precommit(v, r, b) \in votes => Polka(votes, r, b)

(***************************************************************************)
(* A correct validator left a lock only for a later polka.                  *)
(***************************************************************************)
Released(votes, r, b, s) == \E p \in Rounds, x \in Values : r < p /\ p <= s /\ x # b /\ Polka(votes, p, x)

LocksKept(votes) ==
  \A v \in Correct, r, s \in Rounds, b \in Blocks, c \in Values :
    (r < s /\ c # b /\ Precommit(v, r, b) \in votes /\ Prevote(v, s, c) \in votes)
      => Released(votes, r, b, s)

(***************************************************************************)
(* A block that can still be chosen excludes later polkas for others.       *)
(***************************************************************************)
NoOther(votes, r, b) == \A s \in Rounds, c \in Values : r < s /\ c # b => ~Polka(votes, s, c)

Protected(votes) ==
  \A r \in Rounds, b \in Blocks, Q \in Quorums : Choosable(votes, r, b, Q) => NoOther(votes, r, b)

LockingInv ==
  /\ cast \subseteq Votes
  /\ Ordered(cast)
  /\ Backed(cast)
  /\ LocksKept(cast)
  /\ Protected(cast)

-----------------------------------------------------------------------------
(***************************************************************************)
(* More votes leave polkas as they are, and never make a block choosable    *)
(* again.                                                                   *)
(***************************************************************************)
LEMMA PolkaGrows ==
  ASSUME NEW V, NEW W, V \subseteq W, NEW r, NEW b, Polka(V, r, b)
  PROVE  Polka(W, r, b)
BY DEF Polka

LEMMA ReleasedGrows ==
  ASSUME NEW V, NEW W, V \subseteq W, NEW r, NEW b, NEW s, Released(V, r, b, s)
  PROVE  Released(W, r, b, s)
BY PolkaGrows DEF Released

LEMMA ChoosableShrinks ==
  ASSUME NEW V, NEW w, InOrder(V, w), NEW r, NEW b, NEW Q, Choosable(V \cup {w}, r, b, Q)
  PROVE  Choosable(V, r, b, Q)
<1> SUFFICES ASSUME NEW v \in Q \ Faulty, Precommit(v, r, b) \notin V
             PROVE  InOrder(V, Precommit(v, r, b))
    BY DEF Choosable
<1>1. CASE w = Precommit(v, r, b)
      BY <1>1
<1>2. CASE w # Precommit(v, r, b)
      <2>1. InOrder(V \cup {w}, Precommit(v, r, b))
            BY <1>2 DEF Choosable
      <2> QED BY <2>1 DEF InOrder
<1> QED BY <1>1, <1>2

(***************************************************************************)
(* A correct validator that has voted in a later round has precommitted b,  *)
(* if b can be chosen with it.                                              *)
(***************************************************************************)
LEMMA VotedLater ==
  ASSUME NEW V, NEW r \in Rounds, NEW b, NEW Q, Choosable(V, r, b, Q),
         NEW v \in Q \ Faulty, NEW s \in Rounds, r < s, NEW c, Prevote(v, s, c) \in V
  PROVE  Precommit(v, r, b) \in V
<1> SUFFICES ASSUME InOrder(V, Precommit(v, r, b)) PROVE FALSE
    BY DEF Choosable
<1>1. Before(Prevote(v, s, c), Precommit(v, r, b))
      BY DEF InOrder, Prevote, Precommit
<1>2. r \in Nat /\ s \in Nat
      BY RoundsAssumption
<1> QED BY <1>1, <1>2 DEF Before, Prevote, Precommit

(***************************************************************************)
(* The votes of faulty validators alone make no polka.                      *)
(***************************************************************************)
LEMMA CorrectInPolka ==
  ASSUME NEW V, NEW r, NEW b, Polka(V, r, b), NEW Q \in Quorums
  PROVE  \E v \in Q \ Faulty : v \in Correct /\ Prevote(v, r, b) \in V
<1>1. PICK P \in Quorums : \A v \in P : Prevote(v, r, b) \in V
      BY DEF Polka
<1>2. PICK v \in P \cap Q : v \notin Faulty
      BY FaultyAssumption
<1>3. v \in Validators
      BY <1>2, QuorumsAssumption
<1> QED BY <1>1, <1>2, <1>3 DEF Correct

-----------------------------------------------------------------------------
LEMMA InitInv == Init => LockingInv
<1> SUFFICES ASSUME Init PROVE LockingInv
    OBVIOUS
<1>1. cast \subseteq Votes /\ \A w \in cast : w.val \in Faulty
      BY DEF Init
<1>2. Ordered(cast)
      BY <1>1 DEF Ordered
<1>3. \A v \in Correct : \A r, b : Precommit(v, r, b) \notin cast /\ Prevote(v, r, b) \notin cast
      BY <1>1 DEF Correct, Precommit, Prevote
<1>4. Backed(cast) /\ LocksKept(cast)
      BY <1>3 DEF Backed, LocksKept
<1>5. Protected(cast)
      BY <1>3, CorrectInPolka DEF Protected, NoOther
<1> QED BY <1>1, <1>2, <1>4, <1>5 DEF LockingInv

(***************************************************************************)
(* The two kinds of step, each of which adds one vote in order.             *)
(***************************************************************************)
LEMMA OrderedKept ==
  ASSUME NEW V, Ordered(V), NEW w, InOrder(V, w)
  PROVE  Ordered(V \cup {w})
BY DEF Ordered, InOrder

LEMMA PrevoteKeeps ==
  ASSUME LockingInv, NEW v \in Correct, NEW r \in Rounds, NEW b \in Values, CastPrevote(v, r, b)
  PROVE  LockingInv'
<1> DEFINE w == Prevote(v, r, b)
<1>1. /\ cast' = cast \cup {w}
      /\ InOrder(cast, w)
      /\ w \in Votes
      BY DEF CastPrevote, MayPrevote, Votes, Prevote, Correct
<1>2. cast' \subseteq Votes /\ Ordered(cast')
      BY <1>1, OrderedKept DEF LockingInv
<1>3. \A u, s, c : Precommit(u, s, c) \in cast' => Precommit(u, s, c) \in cast
      BY <1>1 DEF Precommit, Prevote
<1>4. Backed(cast')
      BY <1>1, <1>3, PolkaGrows DEF LockingInv, Backed
<1>5. \A s \in Rounds, c \in Blocks : s < r /\ c # b /\ Precommit(v, s, c) \in cast => Released(cast, s, c, r)
      <2> SUFFICES ASSUME NEW s \in Rounds, NEW c \in Blocks, c # b, Precommit(v, s, c) \in cast
                   PROVE  Released(cast, s, c, r)
          OBVIOUS
      <2> DEFINE x == Precommit(v, s, c)
      <2>1. x.val = v /\ x.type = "precommit" /\ x.block = c /\ x.round = s
            BY DEF Precommit
      <2>2. c # Nil
            BY NilAssumption
      <2> HIDE DEF x
      <2>3. \E p \in Rounds, y \in Values : x.round < p /\ p <= r /\ y # x.block /\ Polka(cast, p, y)
            BY <2>1, <2>2 DEF CastPrevote, MayPrevote, x
      <2> QED BY <2>1, <2>3 DEF Released
<1>6. LocksKept(cast')
      <2> SUFFICES ASSUME NEW u \in Correct, NEW s \in Rounds, NEW t \in Rounds, NEW c \in Blocks, NEW d \in Values,
                          s < t, d # c, Precommit(u, s, c) \in cast', Prevote(u, t, d) \in cast'
                   PROVE  Released(cast', s, c, t)
          BY DEF LocksKept
      <2>1. Precommit(u, s, c) \in cast
            BY <1>3
      <2>2. CASE Prevote(u, t, d) \in cast
            <3>1. Released(cast, s, c, t)
                  BY <2>1, <2>2 DEF LockingInv, LocksKept
            <3> QED BY <3>1, <1>1, ReleasedGrows
      <2>3. CASE Prevote(u, t, d) = w
            <3>1. u = v /\ t = r /\ d = b
                  BY <2>3 DEF Prevote
            <3>2. Released(cast, s, c, r)
                  BY <3>1, <2>1, <1>5
            <3> QED BY <3>1, <3>2, <1>1, ReleasedGrows
      <2> QED BY <2>2, <2>3, <1>1
<1>7. Protected(cast')
      <2> SUFFICES ASSUME NEW s \in Rounds, NEW c \in Blocks, NEW Q \in Quorums, Choosable(cast', s, c, Q),
                          NEW t \in Rounds, NEW d \in Values, s < t, d # c, Polka(cast', t, d)
                   PROVE  FALSE
          BY DEF Protected, NoOther
      <2>1. Choosable(cast, s, c, Q)
            BY <1>1, ChoosableShrinks
      <2>2. NoOther(cast, s, c)
            BY <2>1 DEF LockingInv, Protected
      <2>3. PICK u \in Q \ Faulty : u \in Correct /\ Prevote(u, t, d) \in cast'
            BY CorrectInPolka
      <2>4. Precommit(u, s, c) \in cast
            BY <2>3, <1>3, VotedLater
      <2>5. Released(cast, s, c, t)
            <3>1. CASE Prevote(u, t, d) \in cast
                  BY <3>1, <2>3, <2>4 DEF LockingInv, LocksKept
            <3>2. CASE Prevote(u, t, d) = w
                  <4>1. u = v /\ t = r /\ d = b
                        BY <3>2 DEF Prevote
                  <4> QED BY <4>1, <2>4, <1>5
            <3> QED BY <3>1, <3>2, <2>3, <1>1
      <2> QED BY <2>2, <2>5 DEF Released, NoOther
<1> QED BY <1>2, <1>4, <1>6, <1>7 DEF LockingInv

LEMMA PrecommitKeeps ==
  ASSUME LockingInv, NEW v \in Correct, NEW r \in Rounds, NEW b \in Values, CastPrecommit(v, r, b)
  PROVE  LockingInv'
<1> DEFINE w == Precommit(v, r, b)
<1>1. /\ cast' = cast \cup {w}
      /\ InOrder(cast, w)
      /\ w \in Votes
      /\ b # Nil => Polka(cast, r, b)
      BY DEF CastPrecommit, MayPrecommit, Votes, Precommit, Correct
<1>2. cast' \subseteq Votes /\ Ordered(cast')
      BY <1>1, OrderedKept DEF LockingInv
<1>3. \A u, s, c : Prevote(u, s, c) \in cast' => Prevote(u, s, c) \in cast
      BY <1>1 DEF Precommit, Prevote
<1>4. \A s, c : Polka(cast', s, c) => Polka(cast, s, c)
      BY <1>3 DEF Polka
<1>5. Backed(cast')
      <2> SUFFICES ASSUME NEW u \in Correct, NEW s \in Rounds, NEW c \in Blocks, Precommit(u, s, c) \in cast'
                   PROVE  Polka(cast, s, c)
          BY <1>1, PolkaGrows DEF Backed
      <2>1. CASE Precommit(u, s, c) \in cast
            BY <2>1 DEF LockingInv, Backed
      <2>2. CASE Precommit(u, s, c) = w
            <3>1. s = r /\ c = b
                  BY <2>2 DEF Precommit
            <3> QED BY <3>1, <1>1, NilAssumption
      <2> QED BY <2>1, <2>2, <1>1
<1>6. LocksKept(cast')
      <2> SUFFICES ASSUME NEW u \in Correct, NEW s \in Rounds, NEW t \in Rounds, NEW c \in Blocks, NEW d \in Values,
                          s < t, d # c, Precommit(u, s, c) \in cast', Prevote(u, t, d) \in cast'
                   PROVE  Released(cast', s, c, t)
          BY DEF LocksKept
      <2>1. Prevote(u, t, d) \in cast
            BY <1>3
      <2>2. CASE Precommit(u, s, c) \in cast
            <3>1. Released(cast, s, c, t)
                  BY <2>1, <2>2 DEF LockingInv, LocksKept
            <3> QED BY <3>1, <1>1, ReleasedGrows
      <2>3. CASE Precommit(u, s, c) = w
            <3>1. Before(Prevote(u, t, d), Precommit(u, s, c))
                  BY <2>1, <2>3, <1>1 DEF InOrder, Prevote, Precommit
            <3>2. s \in Nat /\ t \in Nat
                  BY RoundsAssumption
            <3> QED BY <3>1, <3>2 DEF Before, Prevote, Precommit
      <2> QED BY <2>2, <2>3, <1>1
<1>7. Protected(cast')
      <2> SUFFICES ASSUME NEW s \in Rounds, NEW c \in Blocks, NEW Q \in Quorums, Choosable(cast', s, c, Q)
                   PROVE  NoOther(cast', s, c)
          BY DEF Protected
      <2>1. Choosable(cast, s, c, Q)
            BY <1>1, ChoosableShrinks
      <2>2. NoOther(cast, s, c)
            BY <2>1 DEF LockingInv, Protected
      <2> QED BY <2>2, <1>4 DEF NoOther
<1> QED BY <1>2, <1>5, <1>6, <1>7 DEF LockingInv

(***************************************************************************)
(* The invariant holds in every state: votes of correct validators are in   *)
(* order and backed, and a block that can be chosen excludes the others.    *)
(***************************************************************************)
THEOREM LocksHold == Spec => []LockingInv
<1>1. LockingInv /\ [Next]_cast => LockingInv'
      <2> SUFFICES ASSUME LockingInv, [Next]_cast PROVE LockingInv'
          OBVIOUS
      <2>1. CASE Next
            BY <2>1, PrevoteKeeps, PrecommitKeeps DEF Next
      <2>2. CASE UNCHANGED cast
            BY <2>2 DEF LockingInv
      <2> QED BY <2>1, <2>2
<1> QED BY <1>1, InitInv, PTL DEF Spec

-----------------------------------------------------------------------------
LEMMA InvAgreement == LockingInv => Agreement
<1> SUFFICES ASSUME LockingInv,
                    NEW r1 \in Rounds, NEW r2 \in Rounds, NEW b1 \in Blocks, NEW b2 \in Blocks,
                    Commit(cast, r1, b1), Commit(cast, r2, b2)
             PROVE  b1 = b2
    BY DEF Agreement
<1>1. ASSUME NEW r \in Rounds, NEW s \in Rounds, NEW b \in Blocks, NEW c \in Blocks,
             Commit(cast, r, b), Commit(cast, s, c), r < s
      PROVE  b = c
      <2>1. PICK Q \in Quorums : \A v \in Q : Precommit(v, r, b) \in cast
            BY <1>1 DEF Commit
      <2>2. NoOther(cast, r, b)
            BY <2>1 DEF LockingInv, Protected, Choosable
      <2>3. PICK P \in Quorums : \A v \in P : Precommit(v, s, c) \in cast
            BY <1>1 DEF Commit
      <2>4. PICK v \in P : v \notin Faulty
            BY FaultyAssumption
      <2>5. Polka(cast, s, c)
            BY <2>3, <2>4, QuorumsAssumption DEF LockingInv, Backed, Correct
      <2> QED BY <2>2, <2>5, <1>1 DEF NoOther, Values
<1>2. CASE r1 = r2
      <2>1. PICK Q \in Quorums : \A v \in Q : Precommit(v, r1, b1) \in cast
            BY DEF Commit
      <2>2. PICK P \in Quorums : \A v \in P : Precommit(v, r1, b2) \in cast
            BY <1>2 DEF Commit
      <2>3. PICK v \in Q \cap P : v \notin Faulty
            BY FaultyAssumption
      <2> DEFINE x == Precommit(v, r1, b1)
                 w == Precommit(v, r1, b2)
      <2>4. x \in cast /\ w \in cast
            BY <2>1, <2>2, <2>3
      <2>5. x = w
            <3> SUFFICES ASSUME x # w PROVE FALSE
                OBVIOUS
            <3>1. x.val = v /\ w.val = v /\ x.round = r1 /\ w.round = r1 /\ x.type = "precommit" /\ w.type = "precommit"
                  BY DEF Precommit
            <3> HIDE DEF x, w
            <3>2. Before(x, w) \/ Before(w, x)
                  BY <2>3, <2>4, <3>1 DEF LockingInv, Ordered
            <3>3. r1 \in Nat
                  BY RoundsAssumption
            <3> QED BY <3>1, <3>2, <3>3 DEF Before
      <2> QED BY <2>5 DEF Precommit
<1>3. CASE r1 < r2
      BY <1>1, <1>3
<1>4. CASE r2 < r1
      BY <1>1, <1>4
<1> QED BY <1>2, <1>3, <1>4, RoundsAssumption

(***************************************************************************)
(* Agreement, for every set of validators, every choice of quorums of which *)
(* two always share a correct validator, and any set of rounds: votes that  *)
(* follow the locking rules of consensus/state.go commit no two blocks.     *)
(***************************************************************************)
THEOREM ValidatorsAgree == Spec => []Agreement
BY LocksHold, InvAgreement, PTL

(***************************************************************************)
(* What a validator may sign by what it said and heard itself, it may sign  *)
(* in Locking, where it is judged by all votes cast: so a validator that    *)
(* implements CorrectValidator is one of those that agree.                  *)
(***************************************************************************)
THEOREM RulesSuffice ==
  ASSUME NEW v \in Validators, NEW heard, heard \subseteq cast,
         NEW r \in Rounds, NEW b \in Values, NEW said, said = {x \in cast : x.val = v}
  PROVE  /\ MayPrevote(said, heard, v, r, b) => MayPrevote(cast, cast, v, r, b)
         /\ MayPrecommit(said, heard, v, r, b) => MayPrecommit(cast, cast, v, r, b)
<1>1. \A s \in Rounds, c \in Values : Polka(heard, s, c) => Polka(cast, s, c)
      BY PolkaGrows
<1>2. /\ InOrder(said, Prevote(v, r, b)) => InOrder(cast, Prevote(v, r, b))
      /\ InOrder(said, Precommit(v, r, b)) => InOrder(cast, Precommit(v, r, b))
      BY DEF InOrder, Prevote, Precommit
<1>3. MayPrevote(said, heard, v, r, b) => MayPrevote(cast, cast, v, r, b)
      BY <1>1, <1>2 DEF MayPrevote
<1>4. MayPrecommit(said, heard, v, r, b) => MayPrecommit(cast, cast, v, r, b)
      BY <1>1, <1>2 DEF MayPrecommit
<1> QED BY <1>3, <1>4
=============================================================================

------------------------------- MODULE FilePV -------------------------------
(***************************************************************************)
(* privval/file.go: the file based private validator.  It signs votes and  *)
(* proposals, remembers the last thing it signed (FilePVLastSignState) and  *)
(* persists that record before it hands the signature out, so that a        *)
(* validator that crashes and restarts never signs two different messages   *)
(* for one height, round and step (HRS).                                    *)
(*                                                                          *)
(* The state file is replaced with libs/tempfile.WriteFileAtomic: a         *)
(* temporary file is written and then renamed over the state file.  The     *)
(* process may crash between any two of these steps.                        *)
(*                                                                          *)
(* Abstraction: a message's sign bytes are the record of what is signed;    *)
(* "body" stands for the fields other than height, round, step and          *)
(* timestamp (block ID, POL round, chain ID).  The signature scheme is      *)
(* deterministic, so a signature is identified with the bytes it signs.     *)
(***************************************************************************)
EXTENDS Integers

CONSTANTS Heights,     \* heights the validator is asked to sign at
          SignRounds,  \* rounds it is asked to sign at
          Bodies,      \* what the messages say, apart from HRS and timestamp
          Times,       \* timestamps
          NoBytes      \* the nil SignBytes and the nil Signature

ASSUME HeightsAssumption == Heights \subseteq Nat
ASSUME SignRoundsAssumption == SignRounds \subseteq Nat

stepNone == 0
stepPropose == 1
stepPrevote == 2
stepPrecommit == 3

(***************************************************************************)
(* voteToStep: a vote is signed at stepPrevote or at stepPrecommit.         *)
(***************************************************************************)
VoteSteps == {stepPrevote, stepPrecommit}

SignBytes == [height: Heights, round: SignRounds,
              step: {stepPropose} \cup VoteSteps, body: Bodies, time: Times]

ASSUME NoBytesAssumption == NoBytes \notin SignBytes

LastSignState == [height: Heights \cup {0}, round: SignRounds \cup {0},
                  step: 0..3, signBytes: SignBytes \cup {NoBytes},
                  signature: SignBytes \cup {NoBytes}]

Empty == [height |-> 0, round |-> 0, step |-> stepNone,
          signBytes |-> NoBytes, signature |-> NoBytes]

VARIABLES
  lss,       \* pv.LastSignState, in memory
  file,      \* the state file
  tmp,       \* the complete temporary file of WriteFileAtomic, if there is one
  pc,        \* where the process is in signVote, signProposal or Save
  owed,      \* the signature the caller gets once Save returns
  released   \* history: what was handed to callers since the last unsafe reset

filePVVars == <<lss, file, tmp, pc, owed, released>>

NoFile == [none |-> TRUE]

TypeOK ==
  /\ lss \in LastSignState
  /\ file \in LastSignState
  /\ tmp \in LastSignState \cup {NoFile}
  /\ pc \in {"down", "idle", "create", "rename", "reply"}
  /\ owed \in SignBytes \cup {NoBytes}
  /\ released \subseteq SignBytes

(***************************************************************************)
(* GenFilePV followed by Save: LoadOrGenFilePV on a fresh node.             *)
(***************************************************************************)
FilePVInit ==
  /\ lss = Empty
  /\ file = Empty
  /\ tmp = NoFile
  /\ pc = "idle"
  /\ owed = NoBytes
  /\ released = {}

HRSLess(h1, r1, s1, h2, r2, s2) ==
  \/ h1 < h2
  \/ h1 = h2 /\ r1 < r2
  \/ h1 = h2 /\ r1 = r2 /\ s1 < s2

(***************************************************************************)
(* Mutant: the comparison of steps inside one round is forgotten.           *)
(***************************************************************************)
CheckHRSIgnoringStep(l, h, r, s) ==
  IF HRSLess(h, r, 0, l.height, l.round, 0) THEN "regression"
  ELSE IF <<h, r, s>> # <<l.height, l.round, l.step>> THEN "new"
  ELSE IF l.signBytes = NoBytes THEN "noSignBytes"
  ELSE "same"

(***************************************************************************)
(* CheckHRS: "regression" and "noSignBytes" are errors, "same" allows the   *)
(* last signature to be reused, "new" allows a new one.                     *)
(***************************************************************************)
CheckHRS(l, h, r, s) ==
  IF HRSLess(h, r, s, l.height, l.round, l.step) THEN "regression"
  ELSE IF HRSLess(l.height, l.round, l.step, h, r, s) THEN "new"
  ELSE IF l.signBytes = NoBytes THEN "noSignBytes"
  ELSE "same"

(***************************************************************************)
(* checkVotesOnlyDifferByTimestamp, checkProposalsOnlyDifferByTimestamp.    *)
(* Equal bytes also satisfy it, and the code then reuses the signature too. *)
(***************************************************************************)
OnlyDifferByTimestamp(b, c) == [b EXCEPT !.time = c.time] = c

Release(b) == released' = released \cup {b}

(***************************************************************************)
(* signVote and signProposal after the sign bytes b are made.  Either the   *)
(* request is refused, or the last signature is returned again, or a new    *)
(* signature is made and saveSigned records it in memory and starts Save.   *)
(***************************************************************************)
Sign(b) ==
  LET check == CheckHRS(lss, b.height, b.round, b.step)
  IN  /\ pc = "idle"
      /\ \/ /\ check \in {"regression", "noSignBytes"}
            /\ UNCHANGED filePVVars
         \/ /\ check = "same"
            /\ ~ OnlyDifferByTimestamp(lss.signBytes, b)
            /\ UNCHANGED filePVVars
         \/ /\ check = "same"
            /\ OnlyDifferByTimestamp(lss.signBytes, b)
            /\ Release(lss.signature)
            /\ UNCHANGED <<lss, file, tmp, pc, owed>>
         \/ /\ check = "new"
            /\ lss' = [height |-> b.height, round |-> b.round, step |-> b.step,
                       signBytes |-> b, signature |-> b]
            /\ owed' = b
            /\ pc' = "create"
            /\ UNCHANGED <<file, tmp, released>>

SignVote ==
  \E h \in Heights, r \in SignRounds, s \in VoteSteps, x \in Bodies, t \in Times :
    Sign([height |-> h, round |-> r, step |-> s, body |-> x, time |-> t])

SignProposal ==
  \E h \in Heights, r \in SignRounds, x \in Bodies, t \in Times :
    Sign([height |-> h, round |-> r, step |-> stepPropose,
          body |-> x, time |-> t])

(***************************************************************************)
(* Save is WriteFileAtomic.  First the temporary file gets all the data,    *)
(* synchronously (O_SYNC) ...                                               *)
(***************************************************************************)
SaveCreate ==
  /\ pc = "create"
  /\ tmp' = lss
  /\ pc' = "rename"
  /\ UNCHANGED <<lss, file, owed, released>>

(***************************************************************************)
(* Mutant: the temporary file is never moved over the state file.           *)
(***************************************************************************)
SaveWithoutRename ==
  /\ pc = "rename"
  /\ tmp' = NoFile
  /\ pc' = "reply"
  /\ UNCHANGED <<lss, file, owed, released>>

(***************************************************************************)
(* ... then it is renamed over the state file.                              *)
(***************************************************************************)
SaveRename ==
  /\ pc = "rename"
  /\ file' = tmp
  /\ tmp' = NoFile
  /\ pc' = "reply"
  /\ UNCHANGED <<lss, owed, released>>

(***************************************************************************)
(* signVote and signProposal set the message's signature and return; Reset  *)
(* returns nothing.                                                         *)
(***************************************************************************)
Reply ==
  /\ pc = "reply"
  /\ IF owed = NoBytes THEN UNCHANGED released ELSE Release(owed)
  /\ owed' = NoBytes
  /\ pc' = "idle"
  /\ UNCHANGED <<lss, file, tmp>>

(***************************************************************************)
(* The process dies: a crash, or the panic of a failed Save.  Memory and    *)
(* the owed signature are gone; an unfinished temporary file has a random   *)
(* name and is never read again.                                            *)
(***************************************************************************)
Crash ==
  /\ pc # "down"
  /\ lss' = Empty
  /\ tmp' = NoFile
  /\ owed' = NoBytes
  /\ pc' = "down"
  /\ UNCHANGED <<file, released>>

(***************************************************************************)
(* Mutant: the key is loaded and the last sign state is not.                *)
(***************************************************************************)
LoadKeyOnly ==
  /\ pc = "down"
  /\ lss' = Empty
  /\ pc' = "idle"
  /\ UNCHANGED <<file, tmp, owed, released>>

(***************************************************************************)
(* loadFilePV with loadState: a restart reads the state file back.          *)
(***************************************************************************)
LoadFilePV ==
  /\ pc = "down"
  /\ lss' = file
  /\ pc' = "idle"
  /\ UNCHANGED <<file, tmp, owed, released>>

(***************************************************************************)
(* LoadFilePVEmptyState and Reset forget what was signed: the operator      *)
(* asked for it, and nothing is promised about signatures from before, so   *)
(* the history starts again.  The file keeps the old record until the next  *)
(* Save.                                                                    *)
(***************************************************************************)
LoadFilePVEmptyState ==
  /\ pc = "down"
  /\ lss' = Empty
  /\ released' = {}
  /\ pc' = "idle"
  /\ UNCHANGED <<file, tmp, owed>>

Reset ==
  /\ pc = "idle"
  /\ lss' = Empty
  /\ released' = {}
  /\ pc' = "create"
  /\ UNCHANGED <<file, tmp, owed>>

FilePVNext ==
  \/ SignVote
  \/ SignProposal
  \/ SaveCreate
  \/ SaveRename
  \/ Reply
  \/ Crash
  \/ LoadFilePV
  \/ LoadFilePVEmptyState
  \/ Reset

FilePVSpec == FilePVInit /\ [][FilePVNext]_filePVVars
-----------------------------------------------------------------------------
(***************************************************************************)
(* Properties.                                                              *)
(***************************************************************************)
SameHRS(b, c) == b.height = c.height /\ b.round = c.round /\ b.step = c.step

(***************************************************************************)
(* What FilePV exists for: between two unsafe resets it never hands out     *)
(* signatures over two different messages of the same height, round and     *)
(* step, however it crashes and is reloaded.  (A message asked for again    *)
(* with another timestamp gets the first signature and the first            *)
(* timestamp, so even the timestamps agree.)                                *)
(***************************************************************************)
NoDoubleSign ==
  \A a, b \in released : SameHRS(a, b) => a = b

(***************************************************************************)
(* The reason it survives a crash: a signature is released only once the    *)
(* state file records it or something later.                                *)
(***************************************************************************)
PersistedBeforeReleased ==
  \A a \in released :
    ~ HRSLess(file.height, file.round, file.step, a.height, a.round, a.step)

(***************************************************************************)
(* Between unsafe resets signatures are handed out in HRS order: one that   *)
(* was not released before is never for an HRS below a released one.        *)
(***************************************************************************)
ReleasedInOrder ==
  [][\A a \in released' \ released : \A b \in released :
       ~ HRSLess(a.height, a.round, a.step, b.height, b.round, b.step)]_filePVVars

-----------------------------------------------------------------------------
(***************************************************************************)
(* The inductive invariant behind the three properties.                     *)
(***************************************************************************)
Consistent(l) ==
  /\ l.signature = l.signBytes
  /\ l.signBytes # NoBytes => SameHRS(l, l.signBytes)

(***************************************************************************)
(* l records everything released since the last reset: each signature is below l,  *)
(* or is the very one l holds.                                              *)
(***************************************************************************)
Covers(l) ==
  \A a \in released :
    \/ HRSLess(a.height, a.round, a.step, l.height, l.round, l.step)
    \/ a = l.signBytes

RecordsConsistent ==
  /\ Consistent(lss)
  /\ Consistent(file)
  /\ tmp # NoFile => Consistent(tmp)

SaveInProgress ==
  /\ pc = "rename" => tmp = lss
  /\ pc = "reply" => file = lss
  /\ pc = "idle" => lss = file \/ lss = Empty
  /\ owed # NoBytes => owed = lss.signBytes /\ pc \in {"create", "rename", "reply"}

IInv ==
  /\ TypeOK
  /\ RecordsConsistent
  /\ SaveInProgress
  /\ Covers(file)
  /\ pc # "down" => Covers(lss)
  /\ NoDoubleSign

=============================================================================

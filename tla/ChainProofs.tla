----------------------------- MODULE ChainProofs ----------------------------
(***************************************************************************)
(* Whatever the application, the number of blocks and the number and       *)
(* places of crashes, a Tendermint node restarts and its application has   *)
(* run every block once. The chain the VM accepts is contiguous, for any   *)
(* transactions, any configuration of the engine and any bound on the      *)
(* heights others propose, and includes no transaction twice when the node *)
(* proposes alone.                                                         *)
(***************************************************************************)
EXTENDS Recovery, LandslideVM, TLAPS

-----------------------------------------------------------------------------
(* Recovery *)

(***************************************************************************)
(* The types, with the ranges of applying that the steps of a commit and of *)
(* a replay rely on.  This part holds of the VM as well.                    *)
(***************************************************************************)
TypeInv ==
  /\ TypeOK
  /\ pc \in {"endHeight", "apply", "commit", "saveState", "saveBlock"}
       => applying \in Heights
  /\ pc = "replay" => applying >= 1

(***************************************************************************)
(* How far the three stores of a node may be apart at any time.  The blocks *)
(* are one ahead of the state at most, the application is between them if   *)
(* it persists, and may be anywhere below them if it does not; then nothing *)
(* is pruned.                                                               *)
(***************************************************************************)
Distances ==
  /\ app = UpTo(Len(app))
  /\ state.height <= store.height /\ store.height <= state.height + 1
  /\ Len(app) <= store.height
  /\ kind.persists => state.height <= Len(app)
  /\ store.base <= store.height
  /\ store.base = 0 => store.height = 0
  /\ ~ kind.persists => store.base <= 1

(***************************************************************************)
(* What the stores say of each other: the app hash in the state and in the  *)
(* headers is that of the blocks before, the responses of a block that only *)
(* the application has are saved, and the WAL marks only saved blocks.      *)
(***************************************************************************)
Contents ==
  /\ state.params
  /\ state.appHash = Hash(UpTo(state.height))
  /\ \A h \in 1..store.height : store.appHash[h] = Hash(UpTo(h - 1))
  /\ Len(app) = state.height + 1 => Len(app) \in responses
  /\ \A h \in wal : h <= store.height

(***************************************************************************)
(* Where the stores are at each step of a commit and of a handshake.        *)
(***************************************************************************)
Applying ==
  /\ applying = state.height + 1
  /\ store.height = state.height + 1

Steps ==
  /\ pc \notin {"saveBlock", "failed", "noMempool"}
  /\ pc \in {"idle", "prune", "mempool"} =>
       /\ store.height = state.height /\ Len(app) = state.height
       /\ executor = "consensus"
  /\ pc = "endHeight" => Applying /\ Len(app) = state.height /\ executor = "consensus"
  /\ pc \in {"apply", "commit"} =>
       /\ Applying
       /\ executor # "mock" => Len(app) = state.height
       /\ executor = "mock" =>
            Len(app) = store.height /\ appHash = Hash(UpTo(store.height))
  /\ pc = "commit" => store.height \in responses
  /\ pc = "saveState" =>
       Applying /\ Len(app) = store.height /\ appHash = Hash(UpTo(store.height))
  /\ pc = "replay" =>
       /\ applying = Len(app) + 1 /\ Len(app) <= state.height
       /\ executor = "replay"
       /\ \/ appHash = Hash(UpTo(Len(app)))
          \/ appHash = Empty /\ Len(app) < store.height
  /\ pc = "down" => executor = "consensus"
  /\ pc = "prune" => kind.prunes

NodeInv == IsNode => Distances /\ Contents /\ Steps

-----------------------------------------------------------------------------
(***************************************************************************)
(* The application after n blocks, as a sequence of length n.               *)
(***************************************************************************)
LEMMA UpToSeq ==
  ASSUME NEW n \in Nat
  PROVE  /\ UpTo(n) \in Seq(Nat) /\ Len(UpTo(n)) = n
         /\ \A i \in 1..n : UpTo(n)[i] = i
BY DEF UpTo

(***************************************************************************)
(* No block at all.                                                         *)
(***************************************************************************)
LEMMA UpToZero == UpTo(0) = <<>>
BY DEF UpTo

(***************************************************************************)
(* Running block n + 1 on an application that has run n blocks.             *)
(***************************************************************************)
LEMMA UpToNext ==
  ASSUME NEW n \in Nat
  PROVE  Append(UpTo(n), n + 1) = UpTo(n + 1)
<1>1. /\ UpTo(n) \in Seq(Nat) /\ Len(UpTo(n)) = n
      /\ UpTo(n + 1) \in Seq(Nat) /\ Len(UpTo(n + 1)) = n + 1
  BY UpToSeq
<1>2. /\ Append(UpTo(n), n + 1) \in Seq(Nat)
      /\ Len(Append(UpTo(n), n + 1)) = n + 1
  BY <1>1
<1>3. \A i \in 1..n + 1 : Append(UpTo(n), n + 1)[i] = UpTo(n + 1)[i]
  BY <1>1, UpToSeq
<1> QED
  BY <1>1, <1>2, <1>3

(***************************************************************************)
(* The height an application reports is the number of its blocks.           *)
(***************************************************************************)
LEMMA AppHeightIsLen ==
  ASSUME TypeOK, app = UpTo(Len(app))
  PROVE  AppHeight = Len(app)
<1>1. Len(app) \in Nat
  BY DEF TypeOK
<1>2. CASE app = <<>>
  BY <1>2 DEF AppHeight
<1>3. CASE app # <<>>
  <2>1. Len(app) \in 1..Len(app)
    BY <1>1, <1>3 DEF TypeOK
  <2> QED
    BY <1>1, <1>3, <2>1, UpToSeq DEF AppHeight
<1> QED
  BY <1>2, <1>3

(***************************************************************************)
(* The type of the height an application reports.                           *)
(***************************************************************************)
LEMMA AppHeightType ==
  ASSUME TypeOK
  PROVE  AppHeight \in 0..MaxHeight
BY BoundsAssumption, SMTT(30) DEF TypeOK, AppHeight, Heights

(***************************************************************************)
(* Every step keeps the types, for nodes and for VMs.                       *)
(***************************************************************************)
LEMMA TypeStep ==
  ASSUME TypeInv, [Next]_vars
  PROVE  TypeInv'
<1> USE BoundsAssumption DEF TypeInv, TypeOK, Heights
<1>a. MaxHeight \in Nat /\ Empty \in Seq(Heights)
  BY DEF Empty
<1>b. AppHeight \in 0..MaxHeight
  BY AppHeightType
<1>c. \A s \in Seq(Heights) : Hash(s) \in Seq(Heights)
  BY <1>a DEF Hash
<1>1. CASE FinalizeCommit
  <2>1. state.height + 1 \in Heights
    BY <1>1, SMTT(30) DEF FinalizeCommit
  <2>2. SaveBlock(state.height + 1) \in [base: 0..MaxHeight, height: 0..MaxHeight,
                                        appHash: [Heights -> Seq(Heights)]]
    BY <1>a, <2>1 DEF SaveBlock
  <2>3. store' \in [base: 0..MaxHeight, height: 0..MaxHeight,
                   appHash: [Heights -> Seq(Heights)]]
    BY <1>1, <2>2 DEF FinalizeCommit
  <2> QED
    BY <1>1, <2>1, <2>3, SMTT(60) DEF FinalizeCommit
<1>2. CASE WriteEndHeight
  BY <1>2 DEF WriteEndHeight
<1>3. CASE Accept
  <2>1. applying' \in Heights /\ pc' = "apply"
    BY <1>3 DEF Accept
  <2> QED
    BY <1>3, <2>1, SMTT(30) DEF Accept
<1>4. CASE Execute
  BY <1>4 DEF Execute
<1>5. CASE Commit
  <2>1. Append(app, applying) \in Seq(Heights)
    BY <1>5 DEF Commit
  <2>2. app' \in Seq(Heights) /\ appHash' \in Seq(Heights)
    BY <1>5, <1>a, <2>1 DEF Commit, Hash
  <2> QED
    BY <1>5, <2>2 DEF Commit
<1>6. CASE SaveState
  BY <1>6, <1>a, SMTT(30) DEF SaveState
<1>7. CASE SaveBlockLast
  <2>1. SaveBlock(applying) \in [base: 0..MaxHeight, height: 0..MaxHeight,
                                appHash: [Heights -> Seq(Heights)]]
    BY <1>7, <1>a DEF SaveBlockLast, SaveBlock
  <2>2. CASE pc' = "failed" /\ UNCHANGED store
    BY <1>7, <2>2 DEF SaveBlockLast
  <2>3. CASE pc' = "idle" /\ store' = SaveBlock(applying)
    BY <1>7, <2>1, <2>3 DEF SaveBlockLast
  <2> QED
    BY <1>7, <2>2, <2>3 DEF SaveBlockLast
<1>8. CASE Prune
  <2>1. PICK retain \in store.base..store.height :
          store' = [store EXCEPT !.base = retain]
    BY <1>8 DEF Prune
  <2>2. retain \in 0..MaxHeight
    OBVIOUS
  <2>3. store' \in [base: 0..MaxHeight, height: 0..MaxHeight,
                   appHash: [Heights -> Seq(Heights)]]
    BY <2>1, <2>2
  <2> QED
    BY <1>8, <2>3 DEF Prune
<1>9. CASE HandshakeSynced
  BY <1>9 DEF HandshakeSynced
<1>10. CASE HandshakeRefused
  BY <1>10 DEF HandshakeRefused
<1>11. CASE HandshakeReplay
  BY <1>11, <1>a, <1>b DEF HandshakeReplay
<1>12. CASE HandshakeMock
  BY <1>12, <1>c DEF HandshakeMock
<1>13. CASE ReplayBlock
  <2>1. Append(app, applying) \in Seq(Heights)
    BY <1>13 DEF ReplayBlock
  <2>2. app' \in Seq(Heights) /\ appHash' \in Seq(Heights)
    BY <1>13, <1>a, <2>1 DEF ReplayBlock, Hash
  <2>3. applying' \in 0..MaxHeight + 1 /\ applying' >= 1
    <3>1. applying \in 1..MaxHeight /\ applying' \in {applying, applying + 1}
      BY <1>13 DEF ReplayBlock
    <3> QED
      BY <3>1
  <2> QED
    BY <1>13, <2>2, <2>3 DEF ReplayBlock
<1>14. CASE ReplayEnds
  BY <1>14, SMTT(30) DEF ReplayEnds
<1>15. CASE CreateMempool
  BY <1>15 DEF CreateMempool
<1>16. CASE Crash
  <2>1. app' \in Seq(Heights) /\ appHash' \in Seq(Heights)
    BY <1>16, <1>a DEF Crash, Empty
  <2>2. crashes' \in 0..MaxCrashes
    BY <1>16 DEF Crash
  <2>3. pc' = "down" /\ applying' = 0 /\ executor' = "consensus"
    BY <1>16 DEF Crash
  <2> QED
    BY <1>16, <2>1, <2>2, <2>3, SMTT(30) DEF Crash
<1>17. CASE UNCHANGED vars
  BY <1>17 DEF vars
<1> QED
  BY <1>1, <1>2, <1>3, <1>4, <1>5, <1>6, <1>7, <1>8, <1>9, <1>10, <1>11, <1>12,
     <1>13, <1>14, <1>15, <1>16, <1>17 DEF Next

(***************************************************************************)
(* Every step of a node keeps the distances, the contents and the step      *)
(* conditions.  The interesting cases are the block that the state does not *)
(* know, which is run on the application or on the mock but never on both,  *)
(* and the replay, whose app hash must match the headers it passes.         *)
(***************************************************************************)
LEMMA NodeStep ==
  ASSUME TypeInv, NodeInv, [Next]_vars
  PROVE  NodeInv'
<1> SUFFICES ASSUME IsNode'
             PROVE  (Distances /\ Contents /\ Steps)'
  BY DEF NodeInv
<1>a. kind' = kind /\ kind.order = "node"
  BY DEF IsNode, Next, vars, FinalizeCommit, WriteEndHeight, Accept, Execute, Commit,
         SaveState, SaveBlockLast, Prune, HandshakeSynced, HandshakeRefused,
         HandshakeReplay, HandshakeMock, ReplayBlock, ReplayEnds, CreateMempool, Crash
<1>b. Distances /\ Contents /\ Steps
  BY <1>a DEF NodeInv, IsNode
<1>c. /\ MaxHeight \in Nat /\ state.height \in 0..MaxHeight /\ Len(app) \in Nat
      /\ store.height \in 0..MaxHeight /\ store.base \in 0..MaxHeight
      /\ app \in Seq(Heights) /\ store.appHash \in [Heights -> Seq(Heights)]
  BY BoundsAssumption DEF TypeInv, TypeOK
<1>d. AppHeight = Len(app)
  BY <1>b, AppHeightIsLen DEF TypeInv, Distances
<1>e. UpTo(0) = Empty /\ (Len(app) = 0 <=> app = <<>>)
  BY <1>c, UpToZero DEF Empty
<1>n. /\ Append(UpTo(Len(app)), Len(app) + 1) = UpTo(Len(app) + 1)
      /\ Len(UpTo(Len(app) + 1)) = Len(app) + 1
  <2>1. Len(app) + 1 \in Nat
    BY <1>c
  <2> QED
    BY <1>c, <2>1, UpToNext, UpToSeq
<1>f. store = [base |-> store.base, height |-> store.height, appHash |-> store.appHash]
  BY DEF TypeInv, TypeOK
<1>1. CASE FinalizeCommit
  <2>1. /\ store.height = state.height /\ Len(app) = state.height
        /\ executor = "consensus" /\ state.height + 1 \in Heights
    BY <1>1, <1>b, <1>c DEF FinalizeCommit, Steps, Heights
  <2>2. /\ store'.height = state.height + 1
        /\ store'.base = IF store.base = 0 THEN state.height + 1 ELSE store.base
        /\ store'.appHash = [store.appHash EXCEPT ![state.height + 1] = state.appHash]
    BY <1>1, <1>a, <1>c, <2>1 DEF FinalizeCommit, SaveBlock
  <2>3. Distances'
    BY <1>1, <1>a, <1>b, <1>c, <2>1, <2>2 DEF FinalizeCommit, Distances
  <2>4. Contents'
    <3>1. ASSUME NEW h \in 1..state.height + 1
          PROVE  store'.appHash[h] = Hash(UpTo(h - 1))
      <4>1. CASE h = state.height + 1
        BY <4>1, <1>b, <1>c, <2>1, <2>2 DEF Contents
      <4>2. CASE h # state.height + 1
        <5>1. h \in 1..store.height /\ h \in Heights
          BY <4>2, <1>c, <2>1 DEF Heights
        <5>2. store'.appHash[h] = store.appHash[h]
          BY <4>2, <5>1, <1>c, <2>2
        <5> QED
          BY <5>1, <5>2, <1>b DEF Contents
      <4> QED
        BY <4>1, <4>2
    <3> QED
      <4>1. \A h \in 1..store'.height : store'.appHash[h] = Hash(UpTo(h - 1))'
        BY <1>a, <2>2, <3>1 DEF Hash
      <4>2. state'.params /\ state'.appHash = Hash(UpTo(state.height))'
        BY <1>1, <1>a, <1>b DEF FinalizeCommit, Contents, Hash
      <4>3. Len(app') # state'.height + 1
        BY <1>1, <1>c, <2>1 DEF FinalizeCommit
      <4>4. \A h \in wal' : h <= store'.height
        <5>1. ASSUME NEW h \in wal
              PROVE  h <= state.height + 1
          <6>1. h \in Heights /\ h <= state.height
            BY <1>b, <2>1 DEF Contents, TypeInv, TypeOK
          <6> QED
            BY <6>1, <1>c DEF Heights
        <5> QED
          BY <1>1, <2>2, <5>1 DEF FinalizeCommit
      <4> QED
        BY <4>1, <4>2, <4>3, <4>4 DEF Contents
  <2>5. Steps'
    BY <1>1, <1>a, <1>b, <1>c, <2>1, <2>2 DEF FinalizeCommit, Steps, Applying
  <2> QED
    BY <2>3, <2>4, <2>5
<1>2. CASE WriteEndHeight
  BY <1>2, <1>a, <1>b, <1>c DEF WriteEndHeight, Distances, Contents, Steps, Applying, Hash
<1>3. CASE Accept
  BY <1>3, <1>a DEF Accept
<1>4. CASE Execute
  <2>1. Applying /\ store.appHash[applying] = state.appHash
    BY <1>4, <1>b, <1>c DEF Execute, Steps, Contents, Applying
  <2>2. pc' = "commit" /\ responses' = responses \cup {applying}
    BY <1>4, <2>1 DEF Execute
  <2> QED
    BY <1>4, <1>a, <1>b, <1>c, <2>1, <2>2 DEF Execute, Distances, Contents, Steps, Applying, Hash
<1>5. CASE Commit
  <2>1. CASE executor = "mock"
    BY <1>5, <1>a, <1>b, <1>c, <2>1 DEF Commit, Distances, Contents, Steps, Applying, Hash
  <2>2. CASE executor # "mock"
    <3>1. Applying /\ Len(app) = state.height /\ applying \in responses
      BY <1>5, <1>b, <1>c, <2>2 DEF Commit, Steps, Applying
    <3>2. app' = UpTo(state.height + 1) /\ Len(app') = state.height + 1
      BY <1>5, <1>b, <1>n, <2>2, <3>1 DEF Commit, Distances, Applying
    <3>3. appHash' = Hash(app')
      BY <1>5, <1>a, <2>2 DEF Commit, Hash
    <3> QED
      BY <1>5, <1>a, <1>b, <1>c, <3>1, <3>2, <3>3
      DEF Commit, Distances, Contents, Steps, Applying, Hash
  <2> QED
    BY <2>1, <2>2
<1>6. CASE SaveState
  <2>1. /\ Applying /\ Len(app) = store.height
        /\ appHash = Hash(UpTo(store.height))
    BY <1>6, <1>b DEF SaveState, Steps
  <2>2. /\ state'.height = store.height /\ state'.appHash = appHash
        /\ state'.params /\ pc' \in {"mempool", "prune", "idle"}
        /\ pc' = "prune" => kind.prunes
        /\ executor' = "consensus"
    BY <1>6, <1>a, <1>b, <2>1 DEF SaveState, Applying, Contents
  <2>3. Distances'
    BY <1>6, <1>a, <1>b, <1>c, <2>1, <2>2 DEF SaveState, Distances
  <2>4. Contents'
    BY <1>6, <1>a, <1>b, <1>c, <2>1, <2>2 DEF SaveState, Contents, Hash
  <2>5. Steps'
    BY <1>6, <1>a, <2>1, <2>2 DEF SaveState, Steps
  <2> QED
    BY <2>3, <2>4, <2>5
<1>7. CASE SaveBlockLast
  BY <1>7, <1>b DEF SaveBlockLast, Steps
<1>8. CASE Prune
  <2>1. /\ store.height = state.height /\ Len(app) = state.height
        /\ executor = "consensus" /\ kind.persists
    BY <1>8, <1>b, KindsAssumption DEF Prune, Steps, TypeInv, TypeOK
  <2>2. PICK retain \in store.base..store.height :
          store' = [store EXCEPT !.base = retain]
    BY <1>8 DEF Prune
  <2>3. /\ store'.height = store.height /\ store'.appHash = store.appHash
        /\ store'.base = retain
    BY <1>f, <2>2
  <2> QED
    BY <1>8, <1>a, <1>b, <1>c, <2>1, <2>3
    DEF Prune, Distances, Contents, Steps, Applying, Hash
<1>9. CASE HandshakeSynced
  <2>1. /\ store.height = state.height /\ Len(app) = state.height
        /\ executor = "consensus"
    BY <1>9, <1>b, <1>c, <1>d DEF HandshakeSynced, Distances, Steps
  <2>2. InfoHash = state.appHash
    BY <1>b, <1>d, <1>e, <2>1 DEF InfoHash, Contents, Distances, Hash
  <2> QED
    BY <1>9, <1>a, <1>b, <1>c, <2>1, <2>2
    DEF HandshakeSynced, Distances, Contents, Steps, Applying, Hash
<1>g. ~ Refused
  BY <1>b, <1>c, <1>d DEF Refused, Distances
<1>10. CASE HandshakeRefused
  BY <1>10, <1>g DEF HandshakeRefused
<1>11. CASE HandshakeReplay
  <2>1. Len(app) < store.height /\ Len(app) <= state.height
    BY <1>11, <1>b, <1>c, <1>d DEF HandshakeReplay, Distances
  <2> QED
    BY <1>11, <1>a, <1>b, <1>c, <1>d, <2>1
    DEF HandshakeReplay, Distances, Contents, Steps, Applying, Hash
<1>12. CASE HandshakeMock
  <2>1. /\ Len(app) = store.height /\ store.height = state.height + 1
        /\ store.height \in responses
    BY <1>12, <1>b, <1>c, <1>d DEF HandshakeMock, Contents
  <2>2. appHash' = Hash(UpTo(store.height))
    BY <1>12, <1>b, <2>1 DEF HandshakeMock, Distances
  <2> QED
    BY <1>12, <1>a, <1>b, <1>c, <2>1, <2>2
    DEF HandshakeMock, Distances, Contents, Steps, Applying, Hash
<1>13. CASE ReplayBlock
  <2>1. /\ applying = Len(app) + 1 /\ Len(app) < state.height
        /\ executor = "replay"
        /\ appHash = Hash(UpTo(Len(app))) \/ appHash = Empty
    BY <1>13, <1>b, <1>c DEF ReplayBlock, Steps
  <2>2. appHash # Empty => appHash = store.appHash[applying]
    <3>1. applying \in 1..store.height /\ applying - 1 = Len(app)
      BY <1>b, <1>c, <2>1 DEF Distances
    <3>2. store.appHash[applying] = Hash(UpTo(applying - 1))
      BY <1>b, <3>1 DEF Contents
    <3> QED
      BY <2>1, <3>1, <3>2
  <2>3. ~ NoValidators
    BY <1>a DEF NoValidators
  <2>4. /\ app' = Append(app, applying) /\ appHash' = Hash(app')
        /\ applying' = applying + 1 /\ pc' = "replay"
    BY <1>13, <1>a, <2>2, <2>3 DEF ReplayBlock, Hash
  <2>5. app' = UpTo(Len(app) + 1) /\ Len(app') = Len(app) + 1
    BY <1>b, <1>n, <2>1, <2>4 DEF Distances
  <2>6. Distances'
    BY <1>13, <1>a, <1>b, <1>c, <2>1, <2>5 DEF ReplayBlock, Distances
  <2>7. Contents'
    BY <1>13, <1>a, <1>b, <1>c, <2>1, <2>5 DEF ReplayBlock, Contents, Hash
  <2>8. Steps'
    BY <1>13, <1>a, <1>b, <1>c, <2>1, <2>4, <2>5 DEF ReplayBlock, Steps, Hash
  <2> QED
    BY <2>6, <2>7, <2>8
<1>14. CASE ReplayEnds
  <2>1. /\ applying = state.height + 1 /\ Len(app) = state.height
        /\ executor = "replay"
        /\ \/ appHash = Hash(UpTo(Len(app)))
           \/ appHash = Empty /\ Len(app) < store.height
    BY <1>14, <1>b, <1>c DEF ReplayEnds, Steps
  <2>2. CASE applying = store.height
    BY <1>14, <1>a, <1>b, <1>c, <2>1, <2>2
    DEF ReplayEnds, Distances, Contents, Steps, Applying, Hash
  <2>3. CASE applying # store.height
    <3>1. store.height = state.height /\ appHash = state.appHash
      BY <1>b, <1>c, <2>1, <2>3, SMTT(30) DEF Distances, Contents
    <3> QED
      BY <1>14, <1>a, <1>b, <1>c, <2>1, <2>3, <3>1
      DEF ReplayEnds, Distances, Contents, Steps, Applying, Hash
  <2> QED
    BY <2>2, <2>3
<1>15. CASE CreateMempool
  BY <1>15, <1>a, <1>b, <1>c
  DEF CreateMempool, Distances, Contents, Steps, Applying, Hash
<1>16. CASE Crash
  <2>1. app' = UpTo(Len(app')) /\ Len(app') \in Nat /\ Len(app') <= Len(app)
    BY <1>16, <1>b, <1>c, UpToZero DEF Crash, Distances
  <2>2. kind.persists => app' = app
    BY <1>16 DEF Crash
  <2>3. ~ kind.persists => Len(app') = 0
    BY <1>16 DEF Crash
  <2>4. Distances'
    BY <1>16, <1>a, <1>b, <1>c, <2>1, <2>2, <2>3 DEF Crash, Distances
  <2>5. Contents'
    BY <1>16, <1>a, <1>b, <1>c, <2>1, <2>2, <2>3 DEF Crash, Contents, Hash
  <2>6. Steps'
    BY <1>16 DEF Crash, Steps
  <2> QED
    BY <2>4, <2>5, <2>6
<1>17. CASE UNCHANGED vars
  <2>1. Distances'
    BY <1>17, <1>b DEF vars, Distances
  <2>2. Contents'
    BY <1>17, <1>b DEF vars, Contents, Hash
  <2>3. Steps'
    BY <1>17, <1>b DEF vars, Steps, Applying, Hash
  <2> QED
    BY <2>1, <2>2, <2>3
<1> QED
  BY <1>1, <1>2, <1>3, <1>4, <1>5, <1>6, <1>7, <1>8, <1>9, <1>10, <1>11, <1>12,
     <1>13, <1>14, <1>15, <1>16, <1>17 DEF Next

-----------------------------------------------------------------------------
(***************************************************************************)
(* The inductive invariant of the theorems below.                           *)
(***************************************************************************)
RecoveryInv == TypeInv /\ NodeInv

(***************************************************************************)
(* A new node satisfies it: no block, no state, nothing in the WAL.         *)
(***************************************************************************)
LEMMA Initially == Init => RecoveryInv
<1> SUFFICES ASSUME Init
             PROVE  RecoveryInv
  OBVIOUS
<1>1. Empty \in Seq(Heights) /\ Empty = UpTo(0) /\ Len(Empty) = 0
  BY UpToZero DEF Empty
<1>2. TypeInv
  BY <1>1, BoundsAssumption DEF Init, TypeInv, TypeOK, Heights, Empty
<1>3. NodeInv
  <2>1. app = Empty /\ Len(app) = 0
    BY <1>1 DEF Init, Empty
  <2>2. Distances
    BY <1>1, <2>1 DEF Init, Distances
  <2>3. Contents
    BY <1>1, <2>1 DEF Init, Contents, Hash
  <2>4. Steps
    BY DEF Init, Steps
  <2> QED
    BY <2>2, <2>3, <2>4 DEF NodeInv
<1> QED
  BY <1>2, <1>3 DEF RecoveryInv

(***************************************************************************)
(* The invariant holds throughout.                                          *)
(***************************************************************************)
THEOREM Invariance == Spec => []RecoveryInv
<1>1. RecoveryInv /\ [Next]_vars => RecoveryInv'
  BY TypeStep, NodeStep DEF RecoveryInv
<1> QED
  BY Initially, <1>1, PTL DEF Spec

(***************************************************************************)
(* The stores, the application and the handshake's variables keep their     *)
(* types, in a node and in a VM.                                            *)
(***************************************************************************)
THEOREM TypeCorrect == Spec => []TypeOK
<1>1. RecoveryInv => TypeOK
  BY DEF RecoveryInv, TypeInv
<1> QED
  BY Invariance, <1>1, PTL

(***************************************************************************)
(* ReplayBlocks and replayBlocks of a node never return an error and never  *)
(* panic, after any number of crashes between any two writes.               *)
(***************************************************************************)
THEOREM NodeRestarts == Spec => []RestartSucceeds
<1>1. RecoveryInv => RestartSucceeds
  BY DEF RecoveryInv, NodeInv, Steps, RestartSucceeds
<1> QED
  BY Invariance, <1>1, PTL

(***************************************************************************)
(* The application of a node that is up has run the blocks 1, 2, ... up to  *)
(* the state's height, each once, whatever ApplyBlock, ExecCommitBlock and  *)
(* the mock had to do to get there.                                         *)
(***************************************************************************)
THEOREM BlocksRunOnce == Spec => []EveryBlockOnce
<1>1. RecoveryInv => EveryBlockOnce
  BY DEF RecoveryInv, NodeInv, Steps, Distances, EveryBlockOnce
<1> QED
  BY Invariance, <1>1, PTL

(***************************************************************************)
(* The AppHash of the state a node has loaded or saved is the application's.*)
(***************************************************************************)
THEOREM AppHashAgrees == Spec => []StateHasAppHash
<1>1. RecoveryInv => StateHasAppHash
  BY DEF RecoveryInv, NodeInv, Steps, Distances, Contents, StateHasAppHash
<1> QED
  BY Invariance, <1>1, PTL

(***************************************************************************)
(* catchupReplay finds no #ENDHEIGHT mark of the height it starts.          *)
(***************************************************************************)
THEOREM NoMarkAhead == Spec => []NoEarlyEndHeight
<1>1. RecoveryInv => NoEarlyEndHeight
  BY BoundsAssumption
  DEF RecoveryInv, TypeInv, TypeOK, NodeInv, Steps, Contents, NoEarlyEndHeight, Heights
<1> QED
  BY Invariance, <1>1, PTL

-----------------------------------------------------------------------------
(* The VM in operation *)

Block == [id: [height: Nat, txs: SUBSET Txs], lastBlockID: {NoID}]

VMType ==
  /\ mempool \in SUBSET Txs
  /\ tmState \in [height: Nat, lastBlockID: {NoID}]
  /\ vmState.height \in Nat
  /\ chain \in Seq(Block)
  /\ processing \in SUBSET Block

(***************************************************************************)
(* A block that processes is of the height after the last one, or of one    *)
(* that is decided.                                                         *)
(***************************************************************************)
NoneAhead == \A b \in processing : b.id.height <= vmState.height + 1

Accepted(t) == \E i \in DOMAIN chain : t \in chain[i].id.txs

(***************************************************************************)
(* The cache remembers every accepted transaction, none of them is in the   *)
(* mempool, and none is in a block that may still be accepted.              *)
(***************************************************************************)
Remembered == \A t \in Txs : Accepted(t) => t \in cache /\ t \notin mempool

FreshBlocks ==
  \A b \in processing : \A t \in b.id.txs :
    Accepted(t) => b.id.height <= vmState.height

ChainInv ==
  /\ VMType
  /\ NoneAhead
  /\ Contiguous
  /\ ~ config.peers => Remembered /\ FreshBlocks /\ NoTxTwice

-----------------------------------------------------------------------------
(***************************************************************************)
(* The invariant holds when the VM is initialised.                          *)
(***************************************************************************)
LEMMA InitChain == VMInit => ChainInv
  BY DEF VMInit, ChainInv, VMType, NoneAhead, Contiguous, Remembered, FreshBlocks, NoTxTwice, Accepted

(***************************************************************************)
(* CheckTx adds a transaction that the cache does not know.                 *)
(***************************************************************************)
LEMMA CheckTxKeeps ==
  ASSUME ChainInv, NEW t \in Txs, CheckTx(t)
  PROVE  ChainInv'
<1>1. UNCHANGED <<config, tmState, vmState, chain, processing>>
  BY DEF CheckTx
<1>2. mempool' \in SUBSET Txs
  BY DEF CheckTx, ChainInv, VMType
<1>3. ASSUME Remembered PROVE Remembered'
  BY <1>1, <1>3 DEF CheckTx, Remembered, Accepted
<1> QED
  BY <1>1, <1>2, <1>3 DEF ChainInv, VMType, NoneAhead, Contiguous, FreshBlocks, NoTxTwice, Accepted

(***************************************************************************)
(* BuildBlock makes a block of the next height out of the mempool.          *)
(***************************************************************************)
LEMMA BuildBlockKeeps ==
  ASSUME ChainInv, BuildBlock
  PROVE  ChainInv'
<1>1. UNCHANGED <<config, mempool, cache, tmState, vmState, chain>>
  BY DEF BuildBlock
<1>2. \A b \in processing' : b \in processing \/ b = BuiltBlock
  BY DEF BuildBlock
<1>3. BuiltBlock \in Block /\ BuiltBlock.id.height = vmState.height + 1 /\ BuiltBlock.id.txs = mempool
  BY DEF BuiltBlock, Block, ChainInv, VMType, Contiguous
<1>4. VMType' /\ NoneAhead' /\ Contiguous'
  BY <1>1, <1>2, <1>3 DEF ChainInv, VMType, NoneAhead, Contiguous
<1>5. ASSUME Remembered, FreshBlocks PROVE FreshBlocks'
  <2> SUFFICES ASSUME NEW b \in processing', NEW t \in b.id.txs, Accepted(t)
               PROVE  b.id.height <= vmState.height
    BY <1>1 DEF FreshBlocks, Accepted
  <2>1. CASE b \in processing
    BY <2>1, <1>5 DEF FreshBlocks
  <2>2. CASE b = BuiltBlock
    BY <2>2, <1>3, <1>5 DEF Remembered, ChainInv, VMType
  <2> QED
    BY <1>2, <2>1, <2>2
<1> QED
  BY <1>1, <1>4, <1>5 DEF ChainInv, Remembered, NoTxTwice, Accepted

(***************************************************************************)
(* Accept appends a block of the next height; applyBlock moves its          *)
(* transactions from the mempool to the cache.                              *)
(***************************************************************************)
LEMMA AcceptKeeps ==
  ASSUME ChainInv, NEW b \in processing, AcceptBlock(b)
  PROVE  ChainInv'
<1> DEFINE n == Len(chain)
<1>1. b \in Block /\ n \in Nat /\ b.id.height = n + 1 /\ vmState.height = n
  BY DEF AcceptBlock, ChainInv, VMType, Contiguous
<1>2. /\ chain' \in Seq(Block) /\ Len(chain') = n + 1 /\ DOMAIN chain' = 1 .. n + 1
      /\ \A i \in 1 .. n : chain'[i] = chain[i]
      /\ chain'[n + 1] = b /\ DOMAIN chain = 1 .. n
  BY <1>1 DEF AcceptBlock, ChainInv, VMType
<1>3. vmState'.height = n + 1 /\ tmState' \in [height: Nat, lastBlockID: {NoID}] /\ tmState'.height = n + 1
  BY <1>1 DEF AcceptBlock, ChainInv, VMType
<1>4. processing' \subseteq processing /\ config' = config
  BY DEF AcceptBlock
<1>5. VMType'
  BY <1>1, <1>2, <1>3, <1>4 DEF AcceptBlock, ChainInv, VMType
<1>6. NoneAhead'
  BY <1>1, <1>3, <1>4 DEF NoneAhead, ChainInv, VMType, Block
<1>7. Contiguous'
  BY <1>1, <1>2, <1>3 DEF Contiguous, ChainInv
<1>8. \A t : Accepted(t)' <=> (Accepted(t) \/ t \in b.id.txs)
  <2> TAKE t
  <2>1. ASSUME Accepted(t)' PROVE Accepted(t) \/ t \in b.id.txs
    BY <2>1, <1>1, <1>2 DEF Accepted
  <2>2. ASSUME Accepted(t) PROVE Accepted(t)'
    BY <2>2, <1>1, <1>2 DEF Accepted
  <2>3. ASSUME t \in b.id.txs PROVE Accepted(t)'
    <3>1. n + 1 \in DOMAIN chain' /\ t \in chain'[n + 1].id.txs
      BY <2>3, <1>1, <1>2
    <3> QED
      BY <3>1 DEF Accepted
  <2> QED
    BY <2>1, <2>2, <2>3
<1>9. ASSUME Remembered PROVE Remembered'
  <2>1. PICK invalid \in SUBSET (mempool \ b.id.txs) :
          /\ mempool' = (mempool \ b.id.txs) \ invalid
          /\ cache' = (cache \cup b.id.txs) \ invalid
    BY Zenon DEF AcceptBlock
  <2> SUFFICES ASSUME NEW t \in Txs, Accepted(t) \/ t \in b.id.txs
               PROVE  t \in cache' /\ t \notin mempool'
    BY <1>8, Zenon DEF Remembered
  <2>2. (t \in cache /\ t \notin mempool) \/ t \in b.id.txs
    BY <1>9, Zenon DEF Remembered
  <2> QED
    BY <2>1, <2>2
<1>10. FreshBlocks'
  BY <1>1, <1>3, <1>4 DEF FreshBlocks, NoneAhead, ChainInv, VMType, Block
<1>11. ASSUME FreshBlocks, \A i, j \in DOMAIN chain : i # j => chain[i].id.txs \cap chain[j].id.txs = {}
       PROVE  \A i, j \in DOMAIN chain' : i # j => chain'[i].id.txs \cap chain'[j].id.txs = {}
  <2>1. \A i \in 1 .. n : chain[i].id.txs \cap b.id.txs = {}
    BY <1>1, <1>2, <1>11 DEF FreshBlocks, Accepted
  <2> QED
    BY <1>1, <1>2, <1>11, <2>1
<1> QED
  BY <1>4, <1>5, <1>6, <1>7, <1>9, <1>10, <1>11 DEF ChainInv, NoTxTwice

-----------------------------------------------------------------------------
(***************************************************************************)
(* Every call into the VM keeps the invariant.                              *)
(***************************************************************************)
THEOREM ChainHolds == VMSpec => []ChainInv
<1>1. ASSUME ChainInv, [VMNext]_vmVars PROVE ChainInv'
  <2> USE <1>1
  <2>1. ASSUME NEW t \in Txs, CheckTx(t) PROVE ChainInv'
    BY <2>1, CheckTxKeeps
  <2>2. CASE EngineReceives
    BY <2>2 DEF EngineReceives, ChainInv, VMType, NoneAhead, Contiguous, Remembered, FreshBlocks,
                NoTxTwice, Accepted
  <2>3. CASE BuildBlock
    BY <2>3, BuildBlockKeeps
  <2>4. CASE ParseBlock
    <3>1. PICK txs \in SUBSET Txs :
            processing' = processing \cup
              {[id |-> [height |-> vmState.height + 1, txs |-> txs], lastBlockID |-> NoID]}
      BY <2>4 DEF ParseBlock
    <3> DEFINE b == [id |-> [height |-> vmState.height + 1, txs |-> txs], lastBlockID |-> NoID]
    <3>2. /\ config' = config /\ config.peers
          /\ UNCHANGED <<mempool, tmState, vmState, chain>>
      BY <2>4 DEF ParseBlock
    <3>3. b \in Block /\ b.id.height = vmState.height + 1
      BY DEF Block, ChainInv, VMType
    <3> HIDE DEF b
    <3>4. processing' = processing \cup {b}
      BY <3>1 DEF b
    <3>5. VMType' /\ NoneAhead'
      BY <3>2, <3>3, <3>4 DEF ChainInv, VMType, NoneAhead
    <3> QED
      BY <3>2, <3>5 DEF ChainInv, Contiguous
  <2>5. ASSUME NEW b \in processing, AcceptBlock(b) PROVE ChainInv'
    BY <2>5, AcceptKeeps
  <2>6. ASSUME NEW b \in processing, Reject(b) PROVE ChainInv'
    BY <2>6 DEF Reject, ChainInv, VMType, NoneAhead, Contiguous, Remembered, FreshBlocks,
                NoTxTwice, Accepted
  <2>7. CASE UNCHANGED vmVars
    BY <2>7 DEF vmVars, ChainInv, VMType, NoneAhead, Contiguous, Remembered, FreshBlocks,
                NoTxTwice, Accepted
  <2> QED
    BY <2>1, <2>2, <2>3, <2>4, <2>5, <2>6, <2>7 DEF VMNext
<1> QED
  BY InitChain, <1>1, PTL DEF VMSpec

(***************************************************************************)
(* The accepted chain has one block per height without a gap, and the state *)
(* in memory and the one in the store are at its height.                    *)
(***************************************************************************)
THEOREM ChainContiguous == VMSpec => []Contiguous
  BY ChainHolds, PTL DEF ChainInv

(***************************************************************************)
(* While no other node proposes, no transaction is in two accepted blocks:  *)
(* of the built blocks that share a transaction one at most is accepted.    *)
(***************************************************************************)
THEOREM TxsIncludedOnce == VMSpec => []NoTxTwice
<1>1. ChainInv => NoTxTwice
  BY DEF ChainInv, NoTxTwice
<1> QED
  BY ChainHolds, <1>1, PTL
=============================================================================

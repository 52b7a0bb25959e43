---------------------------- MODULE LightClient ----------------------------
(***************************************************************************)
(* The light client: how a block at a height becomes trusted               *)
(* (light/client.go), the cross-check with the witnesses                   *)
(* (light/detector.go) and the checks between two headers                  *)
(* (light/verifier.go), with the store of trusted blocks (light/store/db). *)
(*                                                                         *)
(* A block is its height and the chain it belongs to: the chain of the     *)
(* network, or a fork.  A correct provider serves the chain and at most    *)
(* does not respond; a faulty one serves the fork, also at the heights     *)
(* below the trusted block, and may answer with an error.  The blocks of   *)
(* the fork fail the checks of the verifier, for want of signatures or     *)
(* with validators the trusted block does not announce.                    *)
(*                                                                         *)
(* One call of VerifyLightBlockAtHeight runs at a time; every request to a *)
(* provider is a step of its own.  Trusting period and clock drift are     *)
(* left out: no header expires and none is from the future.                *)
(***************************************************************************)
EXTENDS Integers, Sequences, FiniteSets, FiniteSetsExt, SequencesExt

CONSTANTS
  Correct, Faulty,   \* providers
  TrustHeight,       \* TrustOptions.Height
  MaxHeight,         \* the head of the chain
  PruningSize,       \* how many trusted blocks are kept
  MaxErrors,         \* bound: requests that are not answered with a block
  MaxCalls,          \* bound: calls of VerifyLightBlockAtHeight
  NoBlock

Providers == Correct \cup Faulty
Heights == 1 .. MaxHeight
Modes == {"sequential", "skipping"}
Forks == {"otherVals", "badSigs"}

VARIABLES
  env,                  \* [mode, fork, reach]: fixed at the start
  primary, witnesses,   \* Client
  store, latest,        \* trustedStore and latestTrustedBlock
  op,                   \* the call in progress
  errors, calls,
  tainted               \* history: backwards verification saved a block of the fork

lightVars == <<env, primary, witnesses, store, latest, op, errors, calls, tainted>>
providers == <<primary, witnesses>>
trusted == <<store, latest>>

At(p, h) == [height |-> h, chain |-> IF p \in Faulty /\ h # TrustHeight THEN "fork" ELSE "main"]

OpIdle == [pc |-> "idle", new |-> NoBlock, verified |-> NoBlock, cache |-> <<>>, depth |-> 1,
         trace |-> <<>>, want |-> 0, then |-> "idle"]

\* reach: how far apart two headers can be for the trusted validators to suffice
LightInit ==
  /\ env \in [mode : Modes, fork : Forks, reach : 1 .. MaxHeight]
  /\ primary \in Providers /\ witnesses = SetToSeq(Providers \ {primary})
  /\ store = {[height |-> TrustHeight, chain |-> "main"]}
  /\ latest = [height |-> TrustHeight, chain |-> "main"]
  /\ op = OpIdle /\ errors = 0 /\ calls = 0 /\ tainted = FALSE

----------------------------------------------------------------------------
(* verifier.go: the outcome of Verify *)

Verify(old, new) ==
  CASE new.height <= old.height -> "invalid"
    [] new.height > old.height /\ new.chain # old.chain /\ env.fork = "badSigs" -> "invalid"
    [] new.height > old.height /\ new.chain # old.chain /\ env.fork = "otherVals" ->
         IF new.height = old.height + 1 THEN "error" ELSE "cantTrust"
    [] new.height > old.height /\ new.chain = old.chain ->
         IF new.height - old.height <= env.reach THEN "ok" ELSE "cantTrust"

\* the hash of the older header must be the one the newer header names
VerifyBackwards(new, old) == new.chain = old.chain

----------------------------------------------------------------------------
(* Providers *)

\* any provider may not respond; a faulty one also fails in ways it is removed for
MayFail == errors < MaxErrors
MayMisbehave(p) == p \in Faulty /\ MayFail

\* removeWitnesses, by index: not if none would be left
Removable(ws, idx) == Len(ws) > Cardinality(idx)
SwapOut(ws, i) == SubSeq([ws EXCEPT ![i] = ws[Len(ws)]], 1, Len(ws) - 1)

Without(ws, idx) == FoldLeft(SwapOut, ws, SetToSortSeq(idx, >))
RemoveWitnesses(ws, idx) == IF Removable(ws, idx) THEN Without(ws, idx) ELSE ws

Failing == {i \in DOMAIN witnesses : MayMisbehave(witnesses[i])}

\* the block has been obtained: go on where it was asked for
Got(b) == [op EXCEPT !.pc = op.then, !.cache = Append(op.cache, b)]

(***************************************************************************)
(* Mutant: a primary that has not responded is not put back as a witness.  *)
(***************************************************************************)
WitnessesAfterDropping(remove) == witnesses

\* the primary is removed, or goes to the end of the witnesses
WitnessesAfter(remove) == IF remove THEN witnesses ELSE Append(witnesses, primary)

\* findNewPrimary: the first witness that answers is promoted; bad are the
\* witnesses whose answer before that was an error to be removed for; then
\* says how the call goes on with each of the blocks that may be answered
Offered(h) == {At(w, h) : w \in ToSet(witnesses)}

FindNewPrimary(h, remove, then) ==
  LET ws == WitnessesAfter(remove)
  IN  \/ \E i \in DOMAIN witnesses : \E bad \in SUBSET (Failing \ {i}) :
           /\ primary' = witnesses[i]
           /\ witnesses' = RemoveWitnesses(ws, bad \cup {i})
           /\ op' = IF Removable(ws, bad \cup {i}) THEN then[At(witnesses[i], h)] ELSE OpIdle
      \/ /\ MayFail
         /\ \E bad \in SUBSET Failing : witnesses' = RemoveWitnesses(witnesses, bad)
         /\ UNCHANGED primary
         /\ op' = OpIdle

\* lightBlockFromPrimary, for the height op.want
AskPrimary ==
  /\ op.pc = "ask"
  /\ \/ op' = Got(At(primary, op.want)) /\ UNCHANGED <<providers, errors>>
     \/ /\ MayFail /\ errors' = errors + 1
        /\ \E remove \in {r \in BOOLEAN : r => primary \in Faulty} :
             FindNewPrimary(op.want, remove, [b \in Offered(op.want) |-> Got(b)])
  /\ UNCHANGED <<env, calls, trusted, tainted>>

Ask(o, h, then) == [o EXCEPT !.pc = "ask", !.want = h, !.then = then]

----------------------------------------------------------------------------
(* VerifyLightBlockAtHeight *)

Lookup(h) == {b \in store : b.height = h}

Call(h) ==
  /\ op = OpIdle /\ calls < MaxCalls
  /\ Lookup(h) = {}
  /\ calls' = calls + 1
  /\ op' = Ask(OpIdle, h, "received")
  /\ UNCHANGED <<env, providers, trusted, errors, tainted>>

FirstTrusted == CHOOSE b \in store : \A c \in store : b.height <= c.height
Before(h) == CHOOSE b \in store : /\ b.height < h
                                  /\ \A c \in store : c.height < h => c.height <= b.height

StartSkipping(start, new) ==
  [OpIdle EXCEPT !.pc = "skipping", !.new = new, !.verified = start, !.trace = <<start>>, !.cache = <<new>>]

\* verifyLightBlock: from which trusted block, and which way
VerifyLightBlock ==
  /\ op.pc = "received"
  /\ LET new == Last(op.cache)
         start == IF new.height >= latest.height THEN latest ELSE Before(new.height)
     IN  IF new.height < FirstTrusted.height
         THEN op' = [OpIdle EXCEPT !.pc = "backwards", !.new = new, !.verified = FirstTrusted]
         ELSE op' = IF env.mode = "skipping" THEN StartSkipping(start, new)
                    ELSE [StartSkipping(start, new) EXCEPT !.pc = "sequential", !.cache = <<>>]
  /\ UNCHANGED <<env, providers, trusted, errors, calls, tainted>>

(***************************************************************************)
(* verifySequential: op.cache holds the interim block, once it is there.   *)
(***************************************************************************)
Sequential ==
  /\ op.pc = "sequential"
  /\ LET h == op.verified.height + 1
         interim == IF h = op.new.height THEN op.new ELSE Last(op.cache)
         result == Verify(op.verified, interim)
         again == [b \in Offered(op.new.height) |-> IF b = op.new THEN [op EXCEPT !.cache = <<>>] ELSE OpIdle]
     IN  \/ /\ h < op.new.height /\ op.cache = <<>>
            /\ op' = Ask(op, h, "sequential")
            /\ UNCHANGED providers
         \/ /\ h = op.new.height \/ op.cache # <<>>
            /\ \/ /\ result = "ok"
                  /\ op' = [op EXCEPT !.verified = interim, !.trace = Append(@, interim), !.cache = <<>>,
                              !.pc = IF h = op.new.height THEN "detect" ELSE "sequential"]
                  /\ UNCHANGED providers
               \/ /\ result = "invalid" /\ h < op.new.height    \* replace the primary, try again
                  /\ FindNewPrimary(op.new.height, TRUE, again)
               \/ /\ result # "ok" /\ (result = "invalid" => h = op.new.height)
                  /\ op' = OpIdle /\ UNCHANGED providers
  /\ UNCHANGED <<env, trusted, errors, calls, tainted>>

(***************************************************************************)
(* verifySkipping: op.cache is blockCache, of which an interim block is    *)
(* appended twice, and op.depth an index into it.                          *)
(***************************************************************************)
Pivot(low, high) == low + ((high - low) * 9) \div 16

SkipStep(o, result, interim) ==
  IF result = "ok"
  THEN IF o.depth = 1
       THEN [o EXCEPT !.trace = Append(@, o.new), !.pc = "detect"]
       ELSE [o EXCEPT !.verified = o.cache[o.depth], !.trace = Append(@, o.cache[o.depth]),
                      !.cache = SubSeq(@, 1, o.depth - 1), !.depth = 1]
  ELSE [o EXCEPT !.depth = @ + 1,
                 !.cache = IF o.depth = Len(@) THEN @ \o <<interim, interim>> ELSE @]

Skipping ==
  /\ op.pc = "skipping"
  /\ LET block == op.cache[op.depth]
         result == Verify(op.verified, block)
         again == [b \in Offered(op.new.height) |-> IF b = op.new THEN StartSkipping(op.trace[1], b) ELSE OpIdle]
     IN  \/ /\ result \in {"ok", "cantTrust"}
            /\ op' = SkipStep(op, result, At(primary, Pivot(op.verified.height, block.height)))
            /\ UNCHANGED <<providers, errors>>
         \/ /\ result = "cantTrust" /\ op.depth = Len(op.cache)   \* the pivot is not answered
            /\ MayFail /\ errors' = errors + 1
            /\ op' = OpIdle /\ UNCHANGED providers
         \/ /\ result = "invalid" /\ block # op.new    \* replace the primary, try again
            /\ FindNewPrimary(op.new.height, TRUE, again)
            /\ UNCHANGED errors
         \/ /\ result = "error" \/ (result = "invalid" /\ block = op.new)
            /\ op' = OpIdle /\ UNCHANGED <<providers, errors>>
  /\ UNCHANGED <<env, trusted, calls, tainted>>

----------------------------------------------------------------------------
(* detectDivergence *)

\* handleConflictingHeaders: is the other block verified from the trusted one?
WitnessVerifies(w) == op.trace[1].chain = At(w, op.new.height).chain

\* how a witness may answer: the block, or an error it is or is not removed for
Answers(w) == {"block"} \cup {a \in {"benign"} : MayFail} \cup {a \in {"bad"} : MayMisbehave(w)}

(***************************************************************************)
(* A witness with another block sends two messages on errc, the conflict   *)
(* and then nil, and as many messages are read as there are witnesses: the *)
(* answers of unread are not seen, and as many nils count as a match.      *)
(***************************************************************************)
DetectDivergence ==
  /\ op.pc = "detect"
  /\ \E answer \in [DOMAIN witnesses -> {"block", "benign", "bad"}], unread \in SUBSET (DOMAIN witnesses) :
       LET same(i) == At(witnesses[i], op.new.height) = op.new
           conflicting == {i \in DOMAIN witnesses : answer[i] = "block" /\ ~same(i)}
           read == DOMAIN witnesses \ unread
           proven == {i \in conflicting \cap read : WitnessVerifies(witnesses[i])}
           bad == {i \in read : answer[i] = "bad"} \cup (conflicting \cap read)
           matched == unread # {} \/ \E i \in read : answer[i] = "block" /\ same(i)
       IN  /\ \A i \in DOMAIN witnesses : answer[i] \in Answers(witnesses[i])
           /\ Cardinality(unread) <= Cardinality(conflicting \ unread)
           /\ errors' = IF \E i \in DOMAIN witnesses : answer[i] # "block" THEN errors + 1 ELSE errors
           /\ witnesses' = IF proven = {} THEN RemoveWitnesses(witnesses, bad) ELSE witnesses
           /\ op' = IF proven = {} /\ Removable(witnesses, bad) /\ matched
                    THEN [op EXCEPT !.pc = "save"] ELSE OpIdle
  /\ UNCHANGED <<env, primary, trusted, calls, tainted>>

----------------------------------------------------------------------------
(* backwards: the headers from the first trusted one down to the new one,  *)
(* fetched again; and updateTrustedLightBlock                              *)

Backwards ==
  /\ op.pc = "backwards"
  /\ LET again == [b \in Offered(op.new.height) |-> IF b = op.new THEN [op EXCEPT !.cache = <<>>] ELSE OpIdle]
     IN  \/ /\ op.verified.height > op.new.height /\ op.cache = <<>>
            /\ op' = Ask(op, op.verified.height - 1, "backwards")
            /\ UNCHANGED providers
         \/ /\ op.cache # <<>> /\ VerifyBackwards(Last(op.cache), op.verified)
            /\ op' = [op EXCEPT !.verified = Last(op.cache), !.cache = <<>>]
            /\ UNCHANGED providers
         \/ /\ op.cache # <<>> /\ ~VerifyBackwards(Last(op.cache), op.verified)
            /\ FindNewPrimary(op.new.height, TRUE, again)
         \/ /\ op.verified.height = op.new.height /\ op.cache = <<>>
            /\ op' = [op EXCEPT !.pc = "save", !.then = "backwards"]
            /\ UNCHANGED providers
  /\ UNCHANGED <<env, trusted, errors, calls, tainted>>

Pruned(bs) == {b \in bs : Cardinality({c \in bs : c.height > b.height}) < PruningSize}

Save ==
  /\ op.pc = "save"
  /\ store' = Pruned(store \cup {op.new})
  /\ latest' = IF op.new.height > latest.height THEN op.new ELSE latest
  /\ tainted' = (tainted \/ (op.then = "backwards" /\ op.new.chain = "fork"))
  /\ op' = OpIdle
  /\ UNCHANGED <<env, providers, errors, calls>>

LightNext ==
  \/ \E h \in Heights : Call(h)
  \/ AskPrimary \/ VerifyLightBlock \/ Sequential \/ Skipping \/ DetectDivergence
  \/ Backwards \/ Save

LightSpec == LightInit /\ [][LightNext]_lightVars

----------------------------------------------------------------------------
(***************************************************************************)
(* A provider that has never done worse than not to respond stays the      *)
(* primary or a witness: the failures of others, and the removal of        *)
(* witnesses by index while the list changes, never cost it its place.     *)
(***************************************************************************)
CorrectKept == tainted \/ \A p \in Correct : p = primary \/ \E i \in DOMAIN witnesses : witnesses[i] = p
=============================================================================

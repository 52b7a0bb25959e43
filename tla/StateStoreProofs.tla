-------------------------- MODULE StateStoreProofs ---------------------------
(***************************************************************************)
(* What StateStore loads is what the chain agreed on, and a prune leaves    *)
(* only what is referred to, for any chain, checkpoint interval, state sync *)
(* height and number of crashes.                                            *)
(*                                                                          *)
(* An entry of the validators refers to the last change or checkpoint; what *)
(* makes the loads right is that every height from the base on is kept      *)
(* TOGETHER with the height it refers to, which may lie below the base.     *)
(***************************************************************************)
EXTENDS StateStore, NaturalsInduction, WellFoundedInduction, TLAPS

(***************************************************************************)
(* What the theorems take for granted: the checkpoint interval is positive, *)
(* state sync ends within the chain, and "Nothing" is no value.             *)
(***************************************************************************)
VSet == [changed : Int, incremented : Int]
VInfo == [changed : Int, set : VSet \cup {Nothing}]
PInfo == [changed : Int, params : Int \cup {Nothing}]

StateConstants ==
  /\ MaxBlock \in Nat /\ Interval \in Nat \ {0} /\ SyncHeights \subseteq 0 .. MaxBlock
  /\ Nothing \notin VSet \cup VInfo \cup PInfo \cup Int

(***************************************************************************)
(* With the changes S of the chain, an entry of the table f holds what      *)
(* saveValidatorsInfo writes, and the height it refers to has the set; the  *)
(* same for the params.                                                     *)
(***************************************************************************)
V(S, h) == ValSet(LastChange(S, h), h)
Stored(S, h) == LastStoredHeightFor(h, LastChange(S, h))

HasSet(f, S, s) == f[s] # Nothing /\ f[s].set = V(S, s)

ValsKept(f, S, h) ==
  f[h] = ValidatorsInfo(h, LastChange(S, h), V(S, h)) /\ HasSet(f, S, Stored(S, h))

HasParams(g, c) == g[c] # Nothing /\ g[c].params = c

ParamsKept(g, S, h) ==
  /\ g[h] = ConsensusParamsInfo(h, LastChange(S, h), LastChange(S, h))
  /\ HasParams(g, LastChange(S, h))

-----------------------------------------------------------------------------
(* The last change up to a height, and the height an entry refers to *)

(***************************************************************************)
(* A set of heights with one up to h has a last one up to h.                *)
(***************************************************************************)
LEMMA LastChangeIs ==
  ASSUME NEW S \in SUBSET Nat, NEW h \in Nat, \E d \in S : d <= h
  PROVE  /\ LastChange(S, h) \in S /\ LastChange(S, h) <= h
         /\ \A d \in S : d <= h => d <= LastChange(S, h)
<1> DEFINE T == {h - d : d \in {e \in S : e <= h}}
<1>0. S \subseteq Nat
  OBVIOUS
<1>1. T \in SUBSET Nat /\ T # {}
  <2> SUFFICES ASSUME NEW d \in S, d <= h PROVE h - d \in Nat
    OBVIOUS
  <2>1. d \in Nat
    BY <1>0
  <2> QED
    BY <2>1
<1>2. PICK x \in T : \A y \in T : ~ (<<y, x>> \in OpToRel(<, Nat))
  BY <1>1, NatLessThanWellFounded, WFMin
<1>3. \A y \in T : x <= y
  <2> SUFFICES ASSUME NEW y \in T, y < x PROVE FALSE
    BY <1>1
  <2>1. x \in Nat /\ y \in Nat
    BY <1>1
  <2>2. <<y, x>> \in OpToRel(<, Nat)
    BY <2>1, Zenon DEF OpToRel
  <2> QED
    BY <1>2, <2>2
<1>4. PICK c \in S : c <= h /\ x = h - c
  OBVIOUS
<1>5. \A d \in S : d <= h => d <= c
  <2> SUFFICES ASSUME NEW d \in S, d <= h PROVE d <= c
    OBVIOUS
  <2>1. h - d \in T
    OBVIOUS
  <2>2. h - c <= h - d
    BY <1>3, <1>4, <2>1
  <2> QED
    BY <2>2
<1>6. \E k \in S : k <= h /\ \A d \in S : d <= h => d <= k
  BY <1>4, <1>5
<1> QED
  BY <1>6 DEF LastChange

LEMMA LastChangeUnique ==
  ASSUME NEW S \in SUBSET Nat, NEW h \in Nat, NEW c \in S, c <= h,
         \A d \in S : d <= h => d <= c
  PROVE  LastChange(S, h) = c
<1>1. /\ LastChange(S, h) \in S /\ LastChange(S, h) <= h
      /\ \A d \in S : d <= h => d <= LastChange(S, h)
  BY LastChangeIs
<1>2. c \in Nat /\ LastChange(S, h) \in Nat
  BY <1>1
<1>3. c <= LastChange(S, h) /\ LastChange(S, h) <= c
  BY <1>1
<1> QED
  BY <1>2, <1>3

(***************************************************************************)
(* Only the changes up to h matter.                                         *)
(***************************************************************************)
LEMMA LastChangeSame ==
  ASSUME NEW S \in SUBSET Nat, NEW T \in SUBSET Nat, NEW h \in Nat, \E d \in S : d <= h,
         \A d \in Nat : d <= h => (d \in S <=> d \in T)
  PROVE  LastChange(T, h) = LastChange(S, h)
<1>1. /\ LastChange(S, h) \in S /\ LastChange(S, h) <= h
      /\ \A d \in S : d <= h => d <= LastChange(S, h)
  BY LastChangeIs
<1>2. LastChange(S, h) \in T /\ \A d \in T : d <= h => d <= LastChange(S, h)
  BY <1>1
<1> QED
  BY <1>1, <1>2, LastChangeUnique

LEMMA LastChangeBetween ==
  ASSUME NEW S \in SUBSET Nat, NEW h \in Nat, NEW b \in Nat, \E d \in S : d <= h,
         LastChange(S, h) <= b, b <= h
  PROVE  LastChange(S, b) = LastChange(S, h)
<1>1. /\ LastChange(S, h) \in S /\ LastChange(S, h) <= h
      /\ \A d \in S : d <= h => d <= LastChange(S, h)
  BY LastChangeIs
<1>2. \A d \in S : d \in Nat
  OBVIOUS
<1>3. ASSUME NEW d \in S, d <= b PROVE d <= LastChange(S, h)
  <2>1. d \in Nat /\ d <= h
    BY <1>2, <1>3
  <2> QED
    BY <1>1, <2>1
<1> QED
  BY <1>1, <1>3, LastChangeUnique

(***************************************************************************)
(* Quotient and remainder, and what follows for the multiples of i: the     *)
(* checkpoints of the store.                                                *)
(***************************************************************************)
LEMMA Division ==
  ASSUME NEW i \in Nat \ {0}, NEW h \in Nat
  PROVE  h = i * (h \div i) + (h % i) /\ h \div i \in Nat /\ h % i \in 0 .. i - 1
<1>1. h = i * (h \div i) + (h % i)
  OBVIOUS
<1>2. h % i \in 0 .. i - 1 /\ h \div i \in Nat
  OBVIOUS
<1> QED
  BY <1>1, <1>2

LEMMA DivisionUnique ==
  ASSUME NEW i \in Nat \ {0}, NEW q \in Nat, NEW p \in Nat, NEW r \in 0 .. i - 1,
         NEW s \in 0 .. i - 1, i * q + r = i * p + s
  PROVE  q = p /\ r = s
<1>1. ASSUME q > p PROVE FALSE
  <2>1. i * (q - p) >= i
    BY <1>1
  <2>2. i * q - i * p = i * (q - p)
    OBVIOUS
  <2> QED
    BY <2>1, <2>2
<1>2. ASSUME p > q PROVE FALSE
  <2>1. i * (p - q) >= i
    BY <1>2
  <2>2. i * p - i * q = i * (p - q)
    OBVIOUS
  <2> QED
    BY <2>1, <2>2
<1> QED
  BY <1>1, <1>2

LEMMA Multiple ==
  ASSUME NEW i \in Nat \ {0}, NEW h \in Nat
  PROVE  (h - (h % i)) % i = 0
<1> DEFINE m == h - (h % i)
<1>1. h = i * (h \div i) + (h % i) /\ h \div i \in Nat /\ h % i \in 0 .. i - 1
  BY Division
<1>2. m = i * (h \div i) + 0 /\ m \in Nat
  BY <1>1
<1>3. m = i * (m \div i) + (m % i) /\ m \div i \in Nat /\ m % i \in 0 .. i - 1
  BY <1>2, Division
<1> HIDE DEF m
<1>4. i * (m \div i) + (m % i) = i * (h \div i) + 0 /\ 0 \in 0 .. i - 1
  BY <1>2, <1>3
<1> DEFINE q == h \div i
           p == m \div i
           s == m % i
<1>5. q \in Nat /\ p \in Nat /\ s \in 0 .. i - 1 /\ i * p + s = i * q + 0 /\ 0 \in 0 .. i - 1
  BY <1>1, <1>3, <1>4
<1> HIDE DEF q, p, s
<1>6. s = 0
  BY <1>5, DivisionUnique
<1> QED
  BY <1>6 DEF m, s

LEMMA SameMultiple ==
  ASSUME NEW i \in Nat \ {0}, NEW h \in Nat, NEW b \in Nat, b <= h, h - (h % i) <= b
  PROVE  b - (b % i) = h - (h % i)
<1> DEFINE m == h - (h % i)
<1>1. h = i * (h \div i) + (h % i) /\ h \div i \in Nat /\ h % i \in 0 .. i - 1
  BY Division
<1>2. b = i * (b \div i) + (b % i) /\ b \div i \in Nat /\ b % i \in 0 .. i - 1
  BY Division
<1>3. b = i * (h \div i) + (b - m) /\ b - m \in 0 .. i - 1
  BY <1>1
<1>4. b - m = b % i
  BY <1>1, <1>2, <1>3, DivisionUnique
<1> QED
  BY <1>1, <1>4

LEMMA Checkpoints ==
  ASSUME StateConstants, NEW h \in Nat
  PROVE  /\ h % Interval \in Nat /\ h - (h % Interval) \in Nat /\ h - (h % Interval) <= h
         /\ (h - (h % Interval)) % Interval = 0
         /\ h % Interval = 0 => h - (h % Interval) = h
<1>1. Interval \in Nat \ {0}
  BY DEF StateConstants
<1>2. (h - (h % Interval)) % Interval = 0
  BY <1>1, Multiple
<1>3. /\ h = Interval * (h \div Interval) + (h % Interval) /\ h \div Interval \in Nat
      /\ h % Interval \in 0 .. Interval - 1
  BY <1>1, Division
<1>4. Interval * (h \div Interval) >= 0
  BY <1>1, <1>3
<1> DEFINE a == Interval * (h \div Interval)
           r == h % Interval
<1>5. h = a + r /\ a \in Nat /\ r \in Nat
  BY <1>1, <1>3, <1>4
<1> HIDE DEF a, r
<1>6. r <= h /\ h - r \in Nat /\ (r = 0 => h - r = h) /\ h - r <= h
  BY <1>5
<1> QED
  BY <1>2, <1>5, <1>6, Zenon DEF r

LEMMA SameCheckpoint ==
  ASSUME StateConstants, NEW h \in Nat, NEW b \in Nat, b <= h, h - (h % Interval) <= b
  PROVE  b - (b % Interval) = h - (h % Interval)
<1>1. Interval \in Nat \ {0}
  BY DEF StateConstants
<1> QED
  BY <1>1, SameMultiple

LEMMA StoredIs ==
  ASSUME StateConstants, NEW S \in SUBSET Nat, NEW h \in Nat, \E d \in S : d <= h
  PROVE  /\ Stored(S, h) \in Nat /\ Stored(S, h) <= h /\ LastChange(S, h) <= Stored(S, h)
         /\ h - (h % Interval) <= Stored(S, h)
         /\ Stored(S, h) \in S \/ Stored(S, h) % Interval = 0
         /\ h = LastChange(S, h) \/ h % Interval = 0 <=> Stored(S, h) = h
<1>1. LastChange(S, h) \in S /\ LastChange(S, h) \in Nat /\ LastChange(S, h) <= h
  BY LastChangeIs
<1> DEFINE c == LastChange(S, h)
           k == h - (h % Interval)
<1>2. /\ k \in Nat /\ k <= h /\ k % Interval = 0 /\ (h % Interval = 0 => k = h)
      /\ h % Interval \in Nat
  BY Checkpoints
<1>3. k = h => h % Interval = 0
  BY <1>2
<1>4. Stored(S, h) = IF k > c THEN k ELSE c
  BY DEF Stored, LastStoredHeightFor
<1> HIDE DEF k
<1>5. c = LastChange(S, h) /\ c \in Nat
  BY <1>1
<1> HIDE DEF c
<1>6. CASE k > c
  <2>1. Stored(S, h) = k
    BY <1>4, <1>6
  <2>2. k = h <=> h % Interval = 0
    BY <1>2, <1>3
  <2>3. c # h
    BY <1>2, <1>5, <1>6
  <2> QED
    BY <1>2, <1>5, <1>6, <2>1, <2>2, <2>3 DEF k
<1>7. CASE ~ (k > c)
  <2>1. Stored(S, h) = c
    BY <1>4, <1>7
  <2>2. h % Interval = 0 => c = h
    BY <1>1, <1>2, <1>5, <1>7
  <2> QED
    BY <1>1, <1>2, <1>5, <1>7, <2>1, <2>2 DEF k
<1> QED
  BY <1>6, <1>7

(***************************************************************************)
(* A height without a change that is no checkpoint refers to what the one   *)
(* before refers to.                                                        *)
(***************************************************************************)
LEMMA StoredNext ==
  ASSUME StateConstants, NEW S \in SUBSET Nat, NEW h \in Nat, \E d \in S : d <= h,
         Stored(S, h + 1) # h + 1
  PROVE  Stored(S, h + 1) = Stored(S, h) /\ LastChange(S, h + 1) = LastChange(S, h)
<1>1. \E d \in S : d <= h + 1
  OBVIOUS
<1>2. /\ Stored(S, h + 1) <= h + 1 /\ LastChange(S, h + 1) <= Stored(S, h + 1)
      /\ (h + 1) - ((h + 1) % Interval) <= Stored(S, h + 1) /\ Stored(S, h + 1) \in Nat
  BY <1>1, StoredIs
<1>3. LastChange(S, h + 1) \in S /\ LastChange(S, h + 1) \in Nat /\ (h + 1) % Interval \in Nat
  BY <1>1, LastChangeIs, Checkpoints, h + 1 \in Nat
<1>4. LastChange(S, h + 1) <= h /\ (h + 1) - ((h + 1) % Interval) <= h
  BY <1>2, <1>3
<1>5. LastChange(S, h) = LastChange(S, h + 1)
  BY <1>1, <1>4, LastChangeBetween
<1>6. h - (h % Interval) = (h + 1) - ((h + 1) % Interval)
  BY <1>4, SameCheckpoint
<1> QED
  BY <1>5, <1>6 DEF Stored, LastStoredHeightFor

(***************************************************************************)
(* What a height at or above b refers to below b is what b refers to.       *)
(***************************************************************************)
LEMMA StoredBelow ==
  ASSUME StateConstants, NEW S \in SUBSET Nat, NEW h \in Nat, NEW b \in Nat, b <= h,
         \E d \in S : d <= h, Stored(S, h) < b
  PROVE  /\ Stored(S, b) = Stored(S, h) /\ LastChange(S, b) = LastChange(S, h)
         /\ LastChange(S, b) # b /\ b % Interval # 0
<1>1. /\ Stored(S, h) <= h /\ LastChange(S, h) <= Stored(S, h) /\ Stored(S, h) \in Nat
      /\ h - (h % Interval) <= Stored(S, h)
  BY StoredIs
<1>2. LastChange(S, h) \in S /\ LastChange(S, h) \in Nat /\ h % Interval \in Nat
  BY LastChangeIs, Checkpoints
<1>3. LastChange(S, h) < b /\ h - (h % Interval) < b
  BY <1>1, <1>2
<1>4. LastChange(S, b) = LastChange(S, h)
  <2>1. LastChange(S, h) <= b
    BY <1>2, <1>3
  <2> QED
    BY <2>1, LastChangeBetween
<1>5. b - (b % Interval) = h - (h % Interval)
  BY <1>2, <1>3, SameCheckpoint
<1>6. b % Interval # 0
  BY <1>2, <1>3, <1>5
<1> QED
  BY <1>2, <1>3, <1>4, <1>5, <1>6 DEF Stored, LastStoredHeightFor

-----------------------------------------------------------------------------
(* The invariant *)

(***************************************************************************)
(* Where the chain, the block store and the goroutine that commits are:     *)
(* nothing is decided beyond the block being applied, which is the one the  *)
(* block store is ahead by.                                                 *)
(***************************************************************************)
Applying == committer \in {"responses", "vals", "params", "state"}

Place ==
  /\ start \in SyncHeights /\ state.height \in start .. MaxBlock /\ failures \in Nat
  /\ chain \in [StateHeights -> Changes]
  /\ \A h \in StateHeights : h > state.height /\ h > top => chain[h] = "none"
  /\ top \in {0, state.height, state.height + 1}
  /\ committer \in {"idle", "responses", "vals", "params", "state", "applied", "prune"}
  /\ Applying <=> top = state.height + 1
  /\ Applying => state.height < MaxBlock
  /\ committer \in {"applied", "prune"} => top = state.height /\ blockBase > 0
  /\ blockBase \in Nat
  /\ blockBase = 0 => top = 0 /\ state.height = start
  /\ blockBase > 0 => start < blockBase /\ blockBase <= state.height + 1
  /\ from \in Int /\ next \in Int
  /\ committer = "prune" => start < from /\ next < blockBase

(***************************************************************************)
(* The State holds the last changes of the chain and the set after next.    *)
(***************************************************************************)
StateIsOfChain ==
  LET n == state.height
  IN  /\ state.valsChanged = LastChange(ValsChanges, n + 2)
      /\ state.next = V(ValsChanges, n + 2)
      /\ state.paramsChanged = LastChange(ParamsChanges, n + 1)
      /\ state.params = LastChange(ParamsChanges, n + 1)

(***************************************************************************)
(* Every height from the base of the block store on is kept, with the one   *)
(* that it refers to; while a block is applied, what is written so far too. *)
(***************************************************************************)
Lowest == IF blockBase = 0 THEN state.height + 1 ELSE blockBase

HistoryKept ==
  LET n == state.height
  IN  /\ DOMAIN vals = StateHeights /\ DOMAIN params = StateHeights
      /\ \A h \in Lowest .. n + 2 : ValsKept(vals, ValsChanges, h)
      /\ \A h \in Lowest .. n + 1 : ParamsKept(params, ParamsChanges, h)
      /\ committer \in {"params", "state"} => ValsKept(vals, ValsChanges, n + 3)
      /\ committer = "state" => ParamsKept(params, ParamsChanges, n + 2)
      /\ committer \in {"vals", "params", "state"} => n + 1 \in responses
      /\ blockBase > 0 => blockBase .. n \subseteq responses

(***************************************************************************)
(* Without a crash, a height below the base is a target or still to be      *)
(* pruned.                                                                  *)
(***************************************************************************)
Target(h) ==
  /\ vals[h] # Nothing => h \in ValsChanges \/ h % Interval = 0 \/ h <= start
  /\ params[h] # Nothing => h \in ParamsChanges

PrunedSoFar ==
  /\ \A h \in 0 .. start : params[h] = Nothing
  /\ failures = 0 =>
       \A h \in 1 .. blockBase - 1 : (committer = "prune" /\ h \in from .. next) \/ Target(h)

StateStoreInv == Place /\ StateIsOfChain /\ HistoryKept /\ PrunedSoFar

-----------------------------------------------------------------------------
(* What is kept, when the chain grows, when an entry is written, and when   *)
(* one is pruned                                                            *)

LEMMA KeptSame ==
  ASSUME StateConstants, NEW S \in SUBSET Nat, NEW T \in SUBSET Nat, NEW h \in Nat,
         \E d \in S : d <= h, \A d \in Nat : d <= h => (d \in S <=> d \in T), NEW f
  PROVE  /\ LastChange(T, h) = LastChange(S, h)
         /\ ValsKept(f, S, h) => ValsKept(f, T, h)
         /\ ParamsKept(f, S, h) => ParamsKept(f, T, h)
<1>1. LastChange(T, h) = LastChange(S, h)
  BY LastChangeSame
<1>2. V(T, h) = V(S, h) /\ Stored(T, h) = Stored(S, h)
  BY <1>1 DEF V, Stored
<1> DEFINE s == Stored(S, h)
<1>3. s \in Nat /\ s <= h /\ LastChange(S, h) <= s
  BY StoredIs
<1>4. LastChange(S, h) \in S
  BY LastChangeIs
<1> HIDE DEF s
<1>5. \A d \in Nat : d <= s => (d \in S <=> d \in T)
  <2> SUFFICES ASSUME NEW d \in Nat, d <= s PROVE d \in S <=> d \in T
    OBVIOUS
  <2>1. d <= h
    BY <1>3
  <2> QED
    BY <2>1
<1>6. LastChange(T, s) = LastChange(S, s)
  BY <1>3, <1>4, <1>5, LastChangeSame
<1>7. V(T, s) = V(S, s)
  BY <1>6 DEF V
<1> QED
  BY <1>1, <1>2, <1>7 DEF ValsKept, ParamsKept, HasSet, s

(***************************************************************************)
(* An entry that agrees with the chain is kept when the height before is.   *)
(***************************************************************************)
LEMMA ValsWritten ==
  ASSUME StateConstants, NEW S \in SUBSET Nat, NEW h \in Nat, \E d \in S : d <= h,
         NEW f, NEW g, ValsKept(f, S, h),
         g[h + 1] = ValidatorsInfo(h + 1, LastChange(S, h + 1), V(S, h + 1)),
         \A x \in 0 .. h : g[x] = f[x]
  PROVE  ValsKept(g, S, h + 1)
<1>0. h + 1 \in Nat /\ \E d \in S : d <= h + 1
  OBVIOUS
<1>1. /\ Stored(S, h + 1) \in Nat /\ Stored(S, h + 1) <= h + 1
      /\ h + 1 = LastChange(S, h + 1) \/ (h + 1) % Interval = 0 <=> Stored(S, h + 1) = h + 1
  BY <1>0, StoredIs
<1>2. CASE Stored(S, h + 1) = h + 1
  <2>1. g[h + 1] = [changed |-> LastChange(S, h + 1), set |-> V(S, h + 1)]
    BY <1>1, <1>2 DEF ValidatorsInfo
  <2>2. LastChange(S, h + 1) \in Nat /\ LastChange(S, h + 1) <= h + 1
    BY <1>0, LastChangeIs
  <2>3. V(S, h + 1) \in VSet
    BY <2>2 DEF V, ValSet, VSet
  <2>4. g[h + 1] \in VInfo
    BY <2>1, <2>2, <2>3 DEF VInfo
  <2> QED
    BY <1>2, <2>1, <2>4 DEF ValsKept, HasSet, StateConstants
<1>3. CASE Stored(S, h + 1) # h + 1
  <2>1. Stored(S, h + 1) = Stored(S, h) /\ Stored(S, h) \in 0 .. h
    BY <1>0, <1>1, <1>3, StoredNext
  <2>2. HasSet(f, S, Stored(S, h))
    BY DEF ValsKept
  <2>3. HasSet(g, S, Stored(S, h + 1))
    BY <2>1, <2>2 DEF HasSet
  <2> QED
    BY <2>3 DEF ValsKept
<1> QED
  BY <1>2, <1>3

LEMMA ParamsWritten ==
  ASSUME StateConstants, NEW S \in SUBSET Nat, NEW h \in Nat, \E d \in S : d <= h,
         NEW f, NEW g, ParamsKept(f, S, h),
         g[h + 1] = ConsensusParamsInfo(h + 1, LastChange(S, h + 1), LastChange(S, h + 1)),
         \A x \in 0 .. h : g[x] = f[x]
  PROVE  ParamsKept(g, S, h + 1)
<1>0. h + 1 \in Nat /\ \E d \in S : d <= h + 1
  OBVIOUS
<1>1. LastChange(S, h + 1) \in Nat /\ LastChange(S, h + 1) <= h + 1
  BY <1>0, LastChangeIs
<1>2. CASE LastChange(S, h + 1) = h + 1
  <2>1. g[h + 1] = [changed |-> h + 1, params |-> h + 1]
    BY <1>2 DEF ConsensusParamsInfo
  <2>2. g[h + 1] \in PInfo
    BY <2>1 DEF PInfo
  <2> QED
    BY <1>2, <2>1, <2>2 DEF ParamsKept, HasParams, StateConstants
<1>3. CASE LastChange(S, h + 1) # h + 1
  <2>1. LastChange(S, h + 1) <= h /\ LastChange(S, h + 1) \in 0 .. h
    BY <1>1, <1>3
  <2>2. LastChange(S, h) = LastChange(S, h + 1)
    BY <1>0, <2>1, LastChangeBetween
  <2> QED
    BY <2>1, <2>2 DEF ParamsKept, HasParams
<1> QED
  BY <1>2, <1>3

(***************************************************************************)
(* A prune below b that leaves complete what b refers to keeps every height *)
(* from b on.                                                               *)
(***************************************************************************)
LEMMA ValsPruned ==
  ASSUME StateConstants, NEW S \in SUBSET Nat, NEW h \in Nat, NEW b \in Nat, b <= h,
         \E d \in S : d <= b, NEW f, NEW g, ValsKept(f, S, h),
         \A x \in 0 .. h : x >= b \/ (x = Stored(S, b) /\ b # LastChange(S, b) /\ b % Interval # 0) =>
           g[x] = f[x]
  PROVE  ValsKept(g, S, h)
<1>0. \E d \in S : d <= h
  OBVIOUS
<1>1. Stored(S, h) \in Nat /\ Stored(S, h) <= h
  BY <1>0, StoredIs
<1>2. g[h] = f[h]
  OBVIOUS
<1>3. g[Stored(S, h)] = f[Stored(S, h)]
  <2>1. CASE Stored(S, h) >= b
    BY <1>1, <2>1
  <2>2. CASE Stored(S, h) < b
    BY <1>0, <1>1, <2>2, StoredBelow
  <2> QED
    BY <1>1, <2>1, <2>2
<1> QED
  BY <1>2, <1>3 DEF ValsKept, HasSet

LEMMA ParamsPruned ==
  ASSUME NEW S \in SUBSET Nat, NEW h \in Nat, NEW b \in Nat, b <= h,
         \E d \in S : d <= b, NEW f, NEW g, ParamsKept(f, S, h),
         \A x \in 0 .. h : x >= b \/ (x = LastChange(S, b) /\ b # x) => g[x] = f[x]
  PROVE  ParamsKept(g, S, h)
<1>0. \E d \in S : d <= h
  OBVIOUS
<1>1. LastChange(S, h) \in Nat /\ LastChange(S, h) <= h
  BY <1>0, LastChangeIs
<1>2. g[h] = f[h]
  OBVIOUS
<1>3. g[LastChange(S, h)] = f[LastChange(S, h)]
  <2>1. CASE LastChange(S, h) >= b
    BY <1>1, <2>1
  <2>2. CASE LastChange(S, h) < b
    <3>1. LastChange(S, b) = LastChange(S, h)
      BY <1>0, <1>1, <2>2, LastChangeBetween
    <3> QED
      BY <1>1, <2>2, <3>1
  <2> QED
    BY <1>1, <2>1, <2>2
<1> QED
  BY <1>2, <1>3 DEF ParamsKept, HasParams

-----------------------------------------------------------------------------
(* The changes of the chain *)

LEMMA ChangesAre ==
  ASSUME StateConstants, Place
  PROVE  /\ ValsChanges \in SUBSET Nat /\ ParamsChanges \in SUBSET Nat
         /\ start + 1 \in ValsChanges /\ start + 1 \in ParamsChanges
         /\ start \in Nat /\ state.height \in Nat /\ state.height >= start
         /\ state.height <= MaxBlock /\ MaxBlock \in Nat /\ 1 .. MaxBlock \subseteq StateHeights
<1>1. start \in Nat /\ MaxBlock \in Nat
  BY DEF Place, StateConstants
<1>2. state.height \in Nat /\ state.height >= start /\ state.height <= MaxBlock
  BY <1>1 DEF Place
<1>3. ValsChanges \in SUBSET Nat /\ ParamsChanges \in SUBSET Nat
  BY <1>1 DEF ValsChanges, ParamsChanges
<1>4. start + 1 \in ValsChanges /\ start + 1 \in ParamsChanges
  BY <1>1 DEF ValsChanges, ParamsChanges
<1>5. 1 .. MaxBlock \subseteq StateHeights
  BY <1>1 DEF StateHeights
<1> QED
  BY <1>1, <1>2, <1>3, <1>4, <1>5

(***************************************************************************)
(* The block after the State's decides about the changes at its height + 2  *)
(* and + 1, and no other block does.                                        *)
(***************************************************************************)
LEMMA ChangesNext ==
  ASSUME StateConstants, Place, state.height < MaxBlock
  PROVE  /\ state.height + 3 \in ValsChanges <=> chain[state.height + 1] = "vals"
         /\ state.height + 2 \in ParamsChanges <=> chain[state.height + 1] = "params"
<1> DEFINE n == state.height
<1>1. start \in Nat /\ n \in Nat /\ n >= start /\ MaxBlock \in Nat /\ n + 1 \in 1 .. MaxBlock
  BY ChangesAre
<1> HIDE DEF n
<1>2. \A x \in 1 .. MaxBlock : (x + 2 = n + 3 => x = n + 1) /\ (x + 1 = n + 2 => x = n + 1)
  BY <1>1
<1>3. n + 3 \in ValsChanges <=> chain[n + 1] = "vals"
  <2>1. n + 3 \notin (IF start = 0 THEN {1} ELSE start .. start + 2)
    BY <1>1
  <2>2. n + 3 \in {h + 2 : h \in {x \in 1..MaxBlock : chain[x] = "vals"}} <=> chain[n + 1] = "vals"
    <3>1. (n + 1) + 2 = n + 3
      BY <1>1
    <3> QED
      BY <1>1, <1>2, <3>1
  <2> QED
    BY <2>1, <2>2 DEF ValsChanges
<1>4. n + 2 \in ParamsChanges <=> chain[n + 1] = "params"
  <2>1. n + 2 # start + 1
    BY <1>1
  <2>2. n + 2 \in {h + 1 : h \in {x \in 1..MaxBlock : chain[x] = "params"}} <=> chain[n + 1] = "params"
    <3>1. (n + 1) + 1 = n + 2
      BY <1>1
    <3> QED
      BY <1>1, <1>2, <3>1
  <2> QED
    BY <2>1, <2>2 DEF ParamsChanges
<1> QED
  BY <1>3, <1>4 DEF n

(***************************************************************************)
(* updateState keeps the State in line with the chain.                      *)
(***************************************************************************)
LEMMA UpdatedIsOfChain ==
  ASSUME StateConstants, Place, StateIsOfChain, state.height < MaxBlock
  PROVE  /\ Updated.height = state.height + 1
         /\ Updated.valsChanged = LastChange(ValsChanges, state.height + 3)
         /\ Updated.next = V(ValsChanges, state.height + 3)
         /\ Updated.paramsChanged = LastChange(ParamsChanges, state.height + 2)
         /\ Updated.params = LastChange(ParamsChanges, state.height + 2)
<1> DEFINE n == state.height
           S == ValsChanges
           P == ParamsChanges
<1>1. /\ S \in SUBSET Nat /\ P \in SUBSET Nat /\ start + 1 \in S /\ start + 1 \in P
      /\ start \in Nat /\ n \in Nat /\ n >= start
  BY ChangesAre
<1>2. (n + 3 \in S <=> chain[n + 1] = "vals") /\ (n + 2 \in P <=> chain[n + 1] = "params")
  BY ChangesNext
<1>3. /\ state.valsChanged = LastChange(S, n + 2) /\ state.next = V(S, n + 2)
      /\ state.paramsChanged = LastChange(P, n + 1) /\ state.params = LastChange(P, n + 1)
  BY DEF StateIsOfChain
<1>4. Updated = [height |-> n + 1, last |-> state.current, current |-> state.next,
                 next |-> IF chain[n + 1] = "vals" THEN ValSet(n + 1 + 2, n + 1 + 2)
                          ELSE Incremented(state.next, 1),
                 valsChanged |-> IF chain[n + 1] = "vals" THEN n + 1 + 2 ELSE state.valsChanged,
                 params |-> IF chain[n + 1] = "params" THEN n + 1 + 1 ELSE state.params,
                 paramsChanged |-> IF chain[n + 1] = "params" THEN n + 1 + 1 ELSE state.paramsChanged]
  BY DEF Updated, UpdateState
<1> HIDE DEF n, S, P
<1>5. n + 1 + 2 = n + 3 /\ n + 1 + 1 = n + 2 /\ n + 1 \in Nat /\ n + 2 \in Nat /\ n + 3 \in Nat
  BY <1>1
<1>6. /\ Updated.height = n + 1
      /\ Updated.next = IF chain[n + 1] = "vals" THEN ValSet(n + 3, n + 3) ELSE Incremented(V(S, n + 2), 1)
      /\ Updated.valsChanged = IF chain[n + 1] = "vals" THEN n + 3 ELSE LastChange(S, n + 2)
      /\ Updated.params = IF chain[n + 1] = "params" THEN n + 2 ELSE LastChange(P, n + 1)
      /\ Updated.paramsChanged = IF chain[n + 1] = "params" THEN n + 2 ELSE LastChange(P, n + 1)
  BY <1>3, <1>4, <1>5
<1>7. /\ Updated.valsChanged = LastChange(S, n + 3)
      /\ Updated.next = V(S, n + 3)
  <2>1. CASE chain[n + 1] = "vals"
    <3>1. LastChange(S, n + 3) = n + 3
      BY <1>1, <1>2, <1>5, <2>1, LastChangeUnique
    <3> QED
      BY <1>6, <2>1, <3>1 DEF V
  <2>2. CASE chain[n + 1] # "vals"
    <3>1. n + 3 \notin S
      BY <1>2, <2>2
    <3>2. \E d \in S : d <= n + 3
      BY <1>1
    <3>3. LastChange(S, n + 3) \in S /\ LastChange(S, n + 3) <= n + 3
      BY <1>1, <1>5, <3>2, LastChangeIs
    <3>4. LastChange(S, n + 3) <= n + 2 /\ LastChange(S, n + 3) \in Nat /\ n + 2 <= n + 3
      <4>1. LastChange(S, n + 3) \in Nat /\ LastChange(S, n + 3) # n + 3
        BY <1>1, <3>1, <3>3
      <4> QED
        BY <1>1, <3>3, <4>1
    <3>5. LastChange(S, n + 2) = LastChange(S, n + 3)
      BY <1>1, <1>5, <3>2, <3>4, LastChangeBetween
    <3>6. Incremented(V(S, n + 2), 1) = V(S, n + 3)
      <4> DEFINE c == LastChange(S, n + 3)
      <4>1. c \in Nat /\ ((n + 2) - c) + 1 = (n + 3) - c
        BY <1>1, <3>4
      <4>2. V(S, n + 2) = [changed |-> c, incremented |-> (n + 2) - c]
        BY <3>5 DEF V, ValSet
      <4>3. V(S, n + 3) = [changed |-> c, incremented |-> (n + 3) - c]
        BY DEF V, ValSet
      <4> HIDE DEF c
      <4> QED
        BY <4>1, <4>2, <4>3 DEF Incremented
    <3> QED
      BY <1>6, <2>2, <3>5, <3>6
  <2> QED
    BY <2>1, <2>2
<1>8. Updated.paramsChanged = LastChange(P, n + 2) /\ Updated.params = LastChange(P, n + 2)
  <2>1. CASE chain[n + 1] = "params"
    <3>1. LastChange(P, n + 2) = n + 2
      BY <1>1, <1>2, <1>5, <2>1, LastChangeUnique
    <3> QED
      BY <1>6, <2>1, <3>1
  <2>2. CASE chain[n + 1] # "params"
    <3>1. n + 2 \notin P
      BY <1>2, <2>2
    <3>2. \E d \in P : d <= n + 2
      BY <1>1
    <3>3. LastChange(P, n + 2) \in P /\ LastChange(P, n + 2) <= n + 2
      BY <1>1, <1>5, <3>2, LastChangeIs
    <3>4. LastChange(P, n + 2) <= n + 1 /\ LastChange(P, n + 2) \in Nat /\ n + 1 <= n + 2
      <4>1. LastChange(P, n + 2) \in Nat /\ LastChange(P, n + 2) # n + 2
        BY <1>1, <3>1, <3>3
      <4> QED
        BY <1>1, <3>3, <4>1
    <3>5. LastChange(P, n + 1) = LastChange(P, n + 2)
      BY <1>1, <1>5, <3>2, <3>4, LastChangeBetween
    <3> QED
      BY <1>6, <2>2, <3>5
  <2> QED
    BY <2>1, <2>2
<1> QED
  BY <1>6, <1>7, <1>8 DEF n, S, P

-----------------------------------------------------------------------------
(* The invariant gives the properties *)

LEMMA ValsLoad ==
  ASSUME StateConstants, NEW h \in Nat, ValsChanges \in SUBSET Nat, \E d \in ValsChanges : d <= h,
         ValsKept(vals, ValsChanges, h)
  PROVE  LoadValidators(h) = ValSet(LastChange(ValsChanges, h), h)
<1> DEFINE S == ValsChanges
           c == LastChange(S, h)
           s == Stored(S, h)
<1>1. /\ vals[h] = ValidatorsInfo(h, c, V(S, h))
      /\ vals[s] # Nothing /\ vals[s].set = V(S, s)
  BY DEF ValsKept, HasSet
<1>2. /\ s \in Nat /\ s <= h /\ c <= s
      /\ h = c \/ h % Interval = 0 <=> s = h
  BY StoredIs
<1>3. c \in Nat /\ s = LastStoredHeightFor(h, c)
  BY LastChangeIs DEF Stored
<1>4. LastChange(S, s) = c
  BY <1>2, LastChangeBetween
<1> HIDE DEF S, c, s
<1>5. V(S, h) = [changed |-> c, incremented |-> h - c]
  BY DEF V, ValSet, c
<1>6. V(S, s) = [changed |-> c, incremented |-> s - c]
  BY <1>4 DEF V, ValSet
<1>7. V(S, h) \in VSet /\ V(S, s) \in VSet
  BY <1>2, <1>3, <1>5, <1>6 DEF VSet
<1>8. vals[h] \in VInfo
  BY <1>1, <1>3, <1>7 DEF ValidatorsInfo, VInfo
<1>9. vals[h] # Nothing /\ V(S, h) # Nothing /\ V(S, s) # Nothing
  BY <1>7, <1>8 DEF StateConstants
<1>10. vals[h].changed = c /\ vals[h].set = IF h = c \/ h % Interval = 0 THEN V(S, h) ELSE Nothing
  BY <1>1 DEF ValidatorsInfo
<1>11. Incremented(V(S, s), h - s) = V(S, h)
  <2>1. (s - c) + (h - s) = h - c
    BY <1>2, <1>3
  <2> QED
    BY <1>5, <1>6, <2>1 DEF Incremented
<1>12. LoadValidators(h) = V(S, h)
  BY <1>1, <1>3, <1>9, <1>10, <1>11 DEF LoadValidators
<1> QED
  BY <1>12 DEF V, S

LEMMA ParamsLoad ==
  ASSUME StateConstants, NEW h \in Nat, ParamsChanges \in SUBSET Nat, \E d \in ParamsChanges : d <= h,
         ParamsKept(params, ParamsChanges, h)
  PROVE  LoadConsensusParams(h) = LastChange(ParamsChanges, h)
<1> DEFINE c == LastChange(ParamsChanges, h)
<1>1. params[h] = ConsensusParamsInfo(h, c, c) /\ params[c] # Nothing /\ params[c].params = c
  BY DEF ParamsKept, HasParams
<1>2. c \in Nat
  BY LastChangeIs
<1> HIDE DEF c
<1>3. params[h] \in PInfo
  BY <1>1, <1>2 DEF ConsensusParamsInfo, PInfo
<1>4. params[h] # Nothing /\ c # Nothing
  BY <1>2, <1>3 DEF StateConstants
<1>5. params[h].changed = c /\ params[h].params = IF h = c THEN c ELSE Nothing
  BY <1>1 DEF ConsensusParamsInfo
<1> QED
  BY <1>1, <1>4, <1>5 DEF LoadConsensusParams, c

LEMMA InvGivesProperties ==
  ASSUME StateConstants, StateStoreInv
  PROVE  HistoryLoads /\ PrunedToTargets
<1> DEFINE n == state.height
<1>1. /\ ValsChanges \in SUBSET Nat /\ ParamsChanges \in SUBSET Nat
      /\ start + 1 \in ValsChanges /\ start + 1 \in ParamsChanges
      /\ start \in Nat /\ n \in Nat /\ n >= start
  BY ChangesAre DEF StateStoreInv
<1>2. Lowest \in Nat /\ start + 1 <= Lowest
  BY <1>1 DEF Lowest, StateStoreInv, Place
<1>3. \A h \in Lowest .. n + 2 : LoadValidators(h) = ValSet(LastChange(ValsChanges, h), h)
  <2> SUFFICES ASSUME NEW h \in Lowest .. n + 2
               PROVE  LoadValidators(h) = ValSet(LastChange(ValsChanges, h), h)
    OBVIOUS
  <2>1. h \in Nat /\ start + 1 <= h
    BY <1>1, <1>2
  <2>2. ValsKept(vals, ValsChanges, h)
    BY DEF StateStoreInv, HistoryKept
  <2> QED
    BY <1>1, <2>1, <2>2, ValsLoad
<1>4. \A h \in Lowest .. n + 1 : LoadConsensusParams(h) = LastChange(ParamsChanges, h)
  <2> SUFFICES ASSUME NEW h \in Lowest .. n + 1
               PROVE  LoadConsensusParams(h) = LastChange(ParamsChanges, h)
    OBVIOUS
  <2>1. h \in Nat /\ start + 1 <= h
    BY <1>1, <1>2
  <2>2. ParamsKept(params, ParamsChanges, h)
    BY DEF StateStoreInv, HistoryKept
  <2> QED
    BY <1>1, <2>1, <2>2, ParamsLoad
<1>5. HistoryLoads
  BY <1>3, <1>4 DEF HistoryLoads, Lowest, StateStoreInv, HistoryKept
<1>6. PrunedToTargets
  BY DEF PrunedToTargets, StateStoreInv, PrunedSoFar, Target
<1> QED
  BY <1>5, <1>6

-----------------------------------------------------------------------------
(* The invariant holds at first *)

LEMMA ChangesAtFirst ==
  ASSUME StateConstants, StateStoreInit
  PROVE  /\ ValsChanges = (IF start = 0 THEN {1} ELSE start .. start + 2)
         /\ ParamsChanges = {start + 1}
<1>1. MaxBlock \in Nat
  BY DEF StateConstants
<1>2. \A x \in 1 .. MaxBlock : chain[x] = "none"
  BY <1>1 DEF StateStoreInit, StateHeights
<1> QED
  BY <1>2 DEF ValsChanges, ParamsChanges

LEMMA InitGenesis ==
  ASSUME StateConstants, StateStoreInit, start = 0
  PROVE  StateIsOfChain /\ HistoryKept /\ PrunedSoFar
<1> DEFINE S == ValsChanges
           P == ParamsChanges
<1>1. S = {1} /\ P = {1}
  BY ChangesAtFirst
<1>2. MaxBlock \in Nat /\ 0 .. 2 \subseteq StateHeights
  BY DEF StateConstants, StateHeights
<1>3. /\ state = Genesis /\ committer = "idle" /\ blockBase = 0 /\ failures = 0
      /\ vals = [x \in StateHeights |->
                   IF x = 1 THEN ValidatorsInfo(1, 1, ValSet(1, 1))
                   ELSE IF x = 2 THEN ValidatorsInfo(2, 1, ValSet(1, 2)) ELSE Nothing]
      /\ params = [x \in StateHeights |->
                     IF x = 1 THEN ConsensusParamsInfo(1, 1, 1) ELSE Nothing]
  BY DEF StateStoreInit
<1>4. /\ vals[1] = ValidatorsInfo(1, 1, ValSet(1, 1)) /\ vals[2] = ValidatorsInfo(2, 1, ValSet(1, 2))
      /\ params[1] = ConsensusParamsInfo(1, 1, 1) /\ params[0] = Nothing
  BY <1>2, <1>3
<1> HIDE DEF S, P
<1>5. LastChange(S, 1) = 1 /\ LastChange(S, 2) = 1 /\ LastChange(P, 1) = 1
  BY <1>1, LastChangeUnique
<1>6. V(S, 1) = ValSet(1, 1) /\ V(S, 2) = ValSet(1, 2)
  BY <1>5 DEF V
<1>7. state.height = 0 /\ state.next = ValSet(1, 2) /\ state.valsChanged = 1
      /\ state.params = 1 /\ state.paramsChanged = 1
  BY <1>3 DEF Genesis
<1>8. StateIsOfChain
  BY <1>5, <1>6, <1>7 DEF StateIsOfChain, S, P
<1>9. Stored(S, 1) = 1
  <2>1. Stored(S, 1) \in Nat /\ Stored(S, 1) <= 1 /\ LastChange(S, 1) <= Stored(S, 1)
    BY <1>1, StoredIs
  <2> QED
    BY <1>5, <2>1
<1>10. ValsKept(vals, S, 1)
  <2>1. vals[1] = [changed |-> 1, set |-> ValSet(1, 1)] /\ vals[1] \in VInfo
    BY <1>4 DEF ValidatorsInfo, ValSet, VInfo, VSet
  <2> QED
    BY <1>4, <1>5, <1>6, <1>9, <2>1 DEF ValsKept, HasSet, StateConstants
<1>11. ValsKept(vals, S, 1 + 1)
  <2>1. vals[1 + 1] = ValidatorsInfo(1 + 1, LastChange(S, 1 + 1), V(S, 1 + 1))
    BY <1>4, <1>5, <1>6
  <2>2. S \in SUBSET Nat /\ \E d \in S : d <= 1
    BY <1>1
  <2> QED
    BY <1>10, <2>1, <2>2, ValsWritten
<1>12. ParamsKept(params, P, 1)
  <2>1. params[1] = [changed |-> 1, params |-> 1] /\ params[1] \in PInfo
    BY <1>4 DEF ConsensusParamsInfo, PInfo
  <2> QED
    BY <1>4, <1>5, <2>1 DEF ParamsKept, HasParams, StateConstants
<1>13. HistoryKept
  <2>1. Lowest = 1
    BY <1>3, <1>7 DEF Lowest
  <2>2. \A h \in 1 .. 2 : h = 1 \/ h = 1 + 1
    OBVIOUS
  <2>3. \A h \in Lowest .. state.height + 2 : ValsKept(vals, ValsChanges, h)
    BY <1>7, <1>10, <1>11, <2>1, <2>2 DEF S
  <2>4. \A h \in Lowest .. state.height + 1 : ParamsKept(params, ParamsChanges, h)
    BY <1>7, <1>12, <2>1 DEF P
  <2> QED
    BY <1>3, <2>3, <2>4 DEF HistoryKept
<1>14. PrunedSoFar
  BY <1>3, <1>4 DEF PrunedSoFar
<1> QED
  BY <1>8, <1>13, <1>14

LEMMA InitSynced ==
  ASSUME StateConstants, StateStoreInit, start # 0
  PROVE  StateIsOfChain /\ HistoryKept /\ PrunedSoFar
<1> DEFINE S == ValsChanges
           P == ParamsChanges
           n == start
<1>1. S = n .. n + 2 /\ P = {n + 1}
  BY ChangesAtFirst
<1>2. MaxBlock \in Nat /\ n \in Nat /\ n <= MaxBlock
  BY DEF StateConstants, StateStoreInit
<1>3. /\ state = Synced(n) /\ committer = "idle" /\ blockBase = 0 /\ failures = 0
      /\ vals = [x \in StateHeights |->
                   IF x \in n .. n + 2 THEN ValidatorsInfo(x, x, ValSet(x, x)) ELSE Nothing]
      /\ params = [x \in StateHeights |->
                     IF x = n + 1 THEN ConsensusParamsInfo(n + 1, n + 1, n + 1) ELSE Nothing]
  BY DEF StateStoreInit
<1> HIDE DEF S, P, n
<1>4. n + 1 \in StateHeights /\ n .. n + 2 \subseteq StateHeights /\ 0 .. n \subseteq StateHeights
  BY <1>2 DEF StateHeights
<1>5. \A x \in n .. n + 2 : vals[x] = ValidatorsInfo(x, x, ValSet(x, x))
  BY <1>3, <1>4
<1>6. params[n + 1] = ConsensusParamsInfo(n + 1, n + 1, n + 1) /\ \A h \in 0 .. n : params[h] = Nothing
  BY <1>2, <1>3, <1>4
<1>7. S \in SUBSET Nat /\ P \in SUBSET Nat
  BY <1>1, <1>2
<1>8. ASSUME NEW x \in n .. n + 2
      PROVE  LastChange(S, x) = x /\ V(S, x) = ValSet(x, x) /\ ValsKept(vals, S, x)
  <2>1. x \in Nat /\ x \in S
    BY <1>1, <1>2
  <2>2. LastChange(S, x) = x
    BY <1>7, <2>1, LastChangeUnique
  <2>3. V(S, x) = ValSet(x, x)
    BY <2>2 DEF V
  <2>4. Stored(S, x) = x
    <3>1. Stored(S, x) \in Nat /\ Stored(S, x) <= x /\ LastChange(S, x) <= Stored(S, x)
      BY <1>7, <2>1, StoredIs
    <3> QED
      BY <2>1, <2>2, <3>1
  <2>5. vals[x] = [changed |-> x, set |-> ValSet(x, x)] /\ vals[x] \in VInfo
    BY <1>5, <2>1 DEF ValidatorsInfo, ValSet, VInfo, VSet
  <2> QED
    BY <1>5, <2>2, <2>3, <2>4, <2>5 DEF ValsKept, HasSet, StateConstants
<1>9. LastChange(P, n + 1) = n + 1
  BY <1>1, <1>2, <1>7, LastChangeUnique
<1>10. ParamsKept(params, P, n + 1)
  <2>1. params[n + 1] = [changed |-> n + 1, params |-> n + 1] /\ params[n + 1] \in PInfo
    BY <1>2, <1>6 DEF ConsensusParamsInfo, PInfo
  <2> QED
    BY <1>6, <1>9, <2>1 DEF ParamsKept, HasParams, StateConstants
<1>11. /\ state.height = n /\ state.next = ValSet(n + 2, n + 2) /\ state.valsChanged = n + 2
       /\ state.params = n + 1 /\ state.paramsChanged = n + 1
  BY <1>3 DEF Synced
<1>12. n + 2 \in n .. n + 2 /\ n + 1 \in n .. n + 2
  BY <1>2
<1>13. StateIsOfChain
  BY <1>8, <1>9, <1>11, <1>12 DEF StateIsOfChain, S, P
<1>14. HistoryKept
  <2>1. Lowest = n + 1
    BY <1>3, <1>11 DEF Lowest
  <2>2. \A h \in Lowest .. state.height + 2 : ValsKept(vals, ValsChanges, h)
    BY <1>2, <1>8, <1>11, <2>1 DEF S
  <2>3. \A h \in Lowest .. state.height + 1 : ParamsKept(params, ParamsChanges, h)
    BY <1>2, <1>10, <1>11, <2>1 DEF P
  <2> QED
    BY <1>3, <2>2, <2>3 DEF HistoryKept
<1>15. PrunedSoFar
  BY <1>3, <1>6 DEF PrunedSoFar, n
<1> QED
  BY <1>13, <1>14, <1>15

LEMMA InitStateStoreInv ==
  ASSUME StateConstants, StateStoreInit
  PROVE  StateStoreInv
<1>1. Place
  <2>1. state.height = start
    BY DEF StateStoreInit, Genesis, Synced
  <2>2. start \in 0 .. MaxBlock /\ MaxBlock \in Nat
    BY DEF StateConstants, StateStoreInit
  <2>3. chain \in [StateHeights -> Changes] /\ \A h \in StateHeights : chain[h] = "none"
    BY DEF StateStoreInit, Changes
  <2> QED
    BY <2>1, <2>2, <2>3 DEF StateStoreInit, Place, Applying
<1> QED
  BY <1>1, InitGenesis, InitSynced DEF StateStoreInv

-----------------------------------------------------------------------------
(* Every step keeps the invariant *)

LEMMA StoreBlockKeeps ==
  ASSUME StateConstants, StateStoreInv, StoreBlock
  PROVE  StateStoreInv'
<1> DEFINE n == state.height
<1>1. Place /\ StateIsOfChain /\ HistoryKept /\ PrunedSoFar
  BY DEF StateStoreInv
<1>2. /\ ValsChanges \in SUBSET Nat /\ ParamsChanges \in SUBSET Nat
      /\ start + 1 \in ValsChanges /\ start + 1 \in ParamsChanges
      /\ start \in Nat /\ n \in Nat /\ n >= start /\ n <= MaxBlock /\ MaxBlock \in Nat
      /\ 1 .. MaxBlock \subseteq StateHeights
  BY <1>1, ChangesAre
<1>3. PICK change \in Changes : chain' = [chain EXCEPT ![n + 1] = change]
  BY DEF StoreBlock
<1>4. /\ committer = "idle" /\ n + 1 <= MaxBlock /\ top' = n + 1 /\ committer' = "responses"
      /\ blockBase' = IF blockBase = 0 THEN n + 1 ELSE blockBase
      /\ UNCHANGED <<start, vals, params, responses, state, from, next, failures>>
  BY DEF StoreBlock
<1>5. n + 1 \in StateHeights /\ n + 1 \in 1 .. MaxBlock
  BY <1>2, <1>4
<1>6. chain \in [StateHeights -> Changes] /\ top \in {0, n} /\ chain[n + 1] = "none"
  <2>1. top # n + 1 /\ top \in {0, n}
    BY <1>1, <1>4 DEF Place, Applying
  <2> QED
    BY <1>1, <1>2, <1>5, <2>1 DEF Place
<1>7. blockBase \in Nat /\ blockBase' \in Nat /\ blockBase' > start /\ blockBase' <= n + 1
  BY <1>1, <1>2, <1>4 DEF Place
<1>8. Place'
  <2>1. chain' \in [StateHeights -> Changes]
    BY <1>3, <1>6
  <2>2. \A h \in StateHeights : h > n /\ h > n + 1 => chain'[h] = "none"
    <3> SUFFICES ASSUME NEW h \in StateHeights, h > n, h > n + 1 PROVE chain'[h] = "none"
      OBVIOUS
    <3>1. h \in Int /\ h # n + 1 /\ h > top
      BY <1>2, <1>6 DEF StateHeights
    <3>2. chain[h] = "none"
      BY <1>1, <3>1 DEF Place
    <3> QED
      BY <1>3, <1>6, <3>1, <3>2
  <2>3. /\ start \in SyncHeights /\ n \in start .. MaxBlock /\ failures \in Nat
        /\ from \in Int /\ next \in Int
    BY <1>1 DEF Place
  <2> QED
    BY <1>2, <1>4, <1>7, <2>1, <2>2, <2>3 DEF Place, Applying
<1>9. \A x \in 1 .. MaxBlock : x # n + 1 => chain'[x] = chain[x]
  BY <1>2, <1>3, <1>6
<1>10. /\ ValsChanges \subseteq ValsChanges'
       /\ \A d \in Nat : d <= n + 2 => (d \in ValsChanges <=> d \in ValsChanges')
  <2>1. ASSUME NEW d, d \in ValsChanges PROVE d \in ValsChanges'
    BY <1>4, <1>6, <1>9, <2>1 DEF ValsChanges
  <2>2. ASSUME NEW d \in Nat, d <= n + 2, d \in ValsChanges' PROVE d \in ValsChanges
    BY <1>2, <1>4, <1>9, <2>2 DEF ValsChanges
  <2> QED
    BY <2>1, <2>2
<1>11. /\ ParamsChanges \subseteq ParamsChanges'
       /\ \A d \in Nat : d <= n + 1 => (d \in ParamsChanges <=> d \in ParamsChanges')
  <2>1. ASSUME NEW d, d \in ParamsChanges PROVE d \in ParamsChanges'
    BY <1>4, <1>6, <1>9, <2>1 DEF ParamsChanges
  <2>2. ASSUME NEW d \in Nat, d <= n + 1, d \in ParamsChanges' PROVE d \in ParamsChanges
    BY <1>2, <1>4, <1>9, <2>2 DEF ParamsChanges
  <2> QED
    BY <2>1, <2>2
<1>12. ValsChanges' \in SUBSET Nat /\ ParamsChanges' \in SUBSET Nat
  BY <1>2, <1>4 DEF ValsChanges, ParamsChanges
<1>13. Lowest' = Lowest /\ Lowest \in Nat /\ start + 1 <= Lowest
  BY <1>1, <1>2, <1>4, <1>7 DEF Lowest, Place
<1>14. ASSUME NEW h \in Nat, start + 1 <= h, h <= n + 2
       PROVE  /\ LastChange(ValsChanges', h) = LastChange(ValsChanges, h)
              /\ ValsKept(vals, ValsChanges, h) => ValsKept(vals, ValsChanges', h)
  <2>1. \A d \in Nat : d <= h => (d \in ValsChanges <=> d \in ValsChanges')
    BY <1>2, <1>10, <1>14
  <2> QED
    BY <1>2, <1>12, <1>14, <2>1, KeptSame
<1>15. ASSUME NEW h \in Nat, start + 1 <= h, h <= n + 1
       PROVE  /\ LastChange(ParamsChanges', h) = LastChange(ParamsChanges, h)
              /\ ParamsKept(params, ParamsChanges, h) => ParamsKept(params, ParamsChanges', h)
  <2>1. \A d \in Nat : d <= h => (d \in ParamsChanges <=> d \in ParamsChanges')
    BY <1>2, <1>11, <1>15
  <2> QED
    BY <1>2, <1>12, <1>15, <2>1, KeptSame
<1>16. StateIsOfChain'
  <2>1. n + 2 \in Nat /\ start + 1 <= n + 2 /\ n + 1 \in Nat /\ start + 1 <= n + 1 /\ n + 2 <= n + 2
        /\ n + 1 <= n + 1
    BY <1>2
  <2>2. /\ LastChange(ValsChanges', n + 2) = LastChange(ValsChanges, n + 2)
        /\ LastChange(ParamsChanges', n + 1) = LastChange(ParamsChanges, n + 1)
    BY <1>14, <1>15, <2>1
  <2> QED
    BY <1>1, <1>4, <2>2 DEF StateIsOfChain, V
<1>17. HistoryKept'
  <2>1. \A h \in Lowest .. n + 2 : ValsKept(vals, ValsChanges', h)
    BY <1>1, <1>2, <1>13, <1>14 DEF HistoryKept
  <2>2. \A h \in Lowest .. n + 1 : ParamsKept(params, ParamsChanges', h)
    BY <1>1, <1>2, <1>13, <1>15 DEF HistoryKept
  <2>3. blockBase' .. n \subseteq responses
    BY <1>1, <1>2, <1>4, <1>7 DEF HistoryKept
  <2> QED
    BY <1>1, <1>4, <1>13, <2>1, <2>2, <2>3 DEF HistoryKept
<1>18. PrunedSoFar'
  <2>1. ASSUME failures = 0, NEW h \in 1 .. blockBase' - 1 PROVE Target(h)'
    <3>1. CASE blockBase = 0
      <4>1. h <= start /\ h \in 0 .. start
        BY <1>1, <1>2, <1>4, <2>1, <3>1 DEF Place
      <4>2. params[h] = Nothing
        BY <1>1, <4>1 DEF PrunedSoFar
      <4> QED
        BY <1>4, <4>1, <4>2 DEF Target
    <3>2. CASE blockBase # 0
      <4>1. Target(h)
        BY <1>1, <1>4, <2>1, <3>2 DEF PrunedSoFar
      <4> QED
        BY <1>4, <1>10, <1>11, <4>1 DEF Target
    <3> QED
      BY <3>1, <3>2
  <2> QED
    BY <1>1, <1>4, <2>1 DEF PrunedSoFar
<1> QED
  BY <1>8, <1>16, <1>17, <1>18 DEF StateStoreInv

(***************************************************************************)
(* The steps that leave the tables, the State and the chain alone.          *)
(***************************************************************************)
LEMMA QuietKeeps ==
  ASSUME StateConstants, StateStoreInv, SaveABCIResponses \/ Retain \/ PruneDone \/ Fail
  PROVE  StateStoreInv'
<1> DEFINE n == state.height
<1>1. Place /\ StateIsOfChain /\ HistoryKept /\ PrunedSoFar
  BY DEF StateStoreInv
<1>2. start \in Nat /\ n \in Nat /\ n >= start /\ n <= MaxBlock /\ MaxBlock \in Nat
  BY <1>1, ChangesAre
<1>3. UNCHANGED <<start, chain, vals, params, state, top>>
  BY DEF SaveABCIResponses, Retain, PruneDone, Fail
<1>4. ValsChanges' = ValsChanges /\ ParamsChanges' = ParamsChanges
  BY <1>3 DEF ValsChanges, ParamsChanges
<1>5. StateIsOfChain'
  BY <1>1, <1>3, <1>4 DEF StateIsOfChain
<1>6. \A h : Target(h)' <=> Target(h)
  BY <1>3, <1>4 DEF Target
<1>7. CASE SaveABCIResponses
  <2>1. /\ committer = "responses" /\ committer' = "vals" /\ responses' = responses \cup {n + 1}
        /\ UNCHANGED <<blockBase, from, next, failures>>
    BY <1>7 DEF SaveABCIResponses, Updated, UpdateState
  <2>2. Place'
    BY <1>1, <1>3, <2>1 DEF Place, Applying
  <2>3. Lowest' = Lowest
    BY <1>3, <2>1 DEF Lowest
  <2>4. HistoryKept'
    BY <1>1, <1>3, <1>4, <2>1, <2>3 DEF HistoryKept
  <2>5. PrunedSoFar'
    BY <1>1, <1>3, <1>6, <2>1 DEF PrunedSoFar
  <2> QED
    BY <1>5, <2>2, <2>4, <2>5 DEF StateStoreInv
<1>8. CASE Retain
  <2>1. committer = "applied" /\ UNCHANGED <<responses, failures>> /\ top = n /\ blockBase > 0
        /\ blockBase \in Nat /\ start < blockBase
    BY <1>1, <1>8 DEF Retain, Place
  <2>2. \/ /\ blockBase' \in blockBase + 1 .. n /\ from' = blockBase /\ next' = blockBase' - 1
           /\ committer' = "prune"
        \/ committer' = "idle" /\ UNCHANGED <<blockBase, from, next>>
    BY <1>8, <2>1 DEF Retain
  <2>3. blockBase' \in Nat /\ blockBase' >= blockBase /\ blockBase' <= n + 1 /\ from' \in Int /\ next' \in Int
    BY <1>1, <1>2, <2>1, <2>2 DEF Place
  <2>4. Place'
    <3>1. committer' \in {"prune", "idle"}
      BY <2>2
    <3>2. ASSUME committer' = "prune" PROVE start < from' /\ next' < blockBase'
      <4>1. from' = blockBase /\ next' = blockBase' - 1
        BY <2>2, <3>2
      <4>2. \A b \in Nat : b - 1 < b
        OBVIOUS
      <4>3. blockBase' \in Nat
        BY <2>3
      <4>4. blockBase' - 1 < blockBase'
        BY <4>2, <4>3, Zenon
      <4>5. start < blockBase
        BY <2>1
      <4> QED
        BY <4>1, <4>4, <4>5, Zenon
    <3>3. blockBase' > 0 /\ start < blockBase'
      BY <1>2, <2>1, <2>3
    <3> QED
      BY <1>1, <1>2, <1>3, <2>1, <2>3, <3>1, <3>2, <3>3 DEF Place, Applying
  <2>5. Lowest \in Nat /\ Lowest' \in Nat /\ Lowest' >= Lowest
    BY <1>2, <1>3, <2>1, <2>3 DEF Lowest
  <2>6. HistoryKept'
    <3>0. \A h : (h \in Lowest' .. n + 2 => h \in Lowest .. n + 2)
                /\ (h \in Lowest' .. n + 1 => h \in Lowest .. n + 1)
      BY <1>2, <2>5
    <3>1. \A h \in Lowest' .. n + 2 : ValsKept(vals, ValsChanges, h)
      BY <1>1, <3>0, Zenon DEF HistoryKept
    <3>2. \A h \in Lowest' .. n + 1 : ParamsKept(params, ParamsChanges, h)
      BY <1>1, <3>0, Zenon DEF HistoryKept
    <3>3. blockBase' .. n \subseteq responses
      BY <1>1, <1>2, <2>1, <2>3 DEF HistoryKept
    <3> QED
      BY <1>1, <1>3, <1>4, <2>1, <2>2, <3>1, <3>2, <3>3 DEF HistoryKept
  <2>7. PrunedSoFar'
    <3>1. ASSUME failures = 0, NEW h \in 1 .. blockBase' - 1
          PROVE  (committer' = "prune" /\ h \in from' .. next') \/ Target(h)
      <4>1. CASE h < blockBase
        BY <1>1, <2>1, <2>3, <3>1, <4>1 DEF PrunedSoFar
      <4>2. CASE h >= blockBase
        <5>0. \A b \in Nat, a \in Nat : \A x \in 1 .. b - 1 :
                x \in Int /\ x <= b - 1 /\ (x >= a => b # a /\ x \in a .. b - 1)
          OBVIOUS
        <5>1. h \in Int /\ h <= blockBase' - 1 /\ blockBase' # blockBase /\ h \in blockBase .. blockBase' - 1
          BY <2>1, <2>3, <4>2, <5>0
        <5>3. committer' = "prune" /\ from' = blockBase /\ next' = blockBase' - 1
          BY <2>2, <5>1
        <5> QED
          BY <5>1, <5>3, Zenon
      <4> QED
        BY <2>1, <2>3, <4>1, <4>2
    <3> QED
      BY <1>1, <1>3, <1>6, <2>1, <3>1 DEF PrunedSoFar
  <2> QED
    BY <1>5, <2>4, <2>6, <2>7 DEF StateStoreInv
<1>9. CASE PruneDone
  <2>1. /\ committer = "prune" /\ committer' = "idle" /\ next < from
        /\ UNCHANGED <<responses, blockBase, from, next, failures>>
    BY <1>9 DEF PruneDone
  <2>2. Place'
    BY <1>1, <1>3, <2>1 DEF Place, Applying
  <2>3. Lowest' = Lowest
    BY <1>3, <2>1 DEF Lowest
  <2>4. HistoryKept'
    BY <1>1, <1>3, <1>4, <2>1, <2>3 DEF HistoryKept
  <2>5. from .. next = {}
    BY <1>1, <2>1 DEF Place
  <2>6. PrunedSoFar'
    BY <1>1, <1>3, <1>6, <2>1, <2>5 DEF PrunedSoFar
  <2> QED
    BY <1>5, <2>2, <2>4, <2>6 DEF StateStoreInv
<1>10. CASE Fail
  <2>1. /\ failures' = failures + 1 /\ committer' = (IF top = n + 1 THEN "responses" ELSE "idle")
        /\ UNCHANGED <<responses, blockBase, from, next>>
    BY <1>10 DEF Fail, Restarted
  <2>2. failures \in Nat /\ failures' \in Nat /\ failures' # 0
    BY <1>1, <2>1 DEF Place
  <2>3. Place'
    BY <1>1, <1>3, <2>1, <2>2 DEF Place, Applying
  <2>4. Lowest' = Lowest
    BY <1>3, <2>1 DEF Lowest
  <2>5. HistoryKept'
    BY <1>1, <1>3, <1>4, <2>1, <2>4 DEF HistoryKept
  <2>6. PrunedSoFar'
    BY <1>1, <1>3, <2>2 DEF PrunedSoFar
  <2> QED
    BY <1>5, <2>3, <2>5, <2>6 DEF StateStoreInv
<1> QED
  BY <1>7, <1>8, <1>9, <1>10

LEMMA SaveValidatorsInfoKeeps ==
  ASSUME StateConstants, StateStoreInv, SaveValidatorsInfo
  PROVE  StateStoreInv'
<1> DEFINE n == state.height
           S == ValsChanges
<1>1. Place /\ StateIsOfChain /\ HistoryKept /\ PrunedSoFar
  BY DEF StateStoreInv
<1>2. /\ S \in SUBSET Nat /\ start + 1 \in S
      /\ start \in Nat /\ n \in Nat /\ n >= start /\ n <= MaxBlock /\ MaxBlock \in Nat
  BY <1>1, ChangesAre
<1>3. /\ committer = "vals" /\ committer' = "params"
      /\ vals' = [vals EXCEPT ![Updated.height + 2] =
                    ValidatorsInfo(Updated.height + 2, Updated.valsChanged, Updated.next)]
      /\ UNCHANGED <<start, chain, params, responses, state, blockBase, top, from, next, failures>>
  BY DEF SaveValidatorsInfo
<1>4. n < MaxBlock
  BY <1>1, <1>3 DEF Place, Applying
<1>5. /\ Updated.height + 2 = n + 3 /\ Updated.valsChanged = LastChange(S, n + 3)
      /\ Updated.next = V(S, n + 3)
  <2>1. n + 1 + 2 = n + 3
    BY <1>2
  <2> QED
    BY <1>1, <1>4, <2>1, UpdatedIsOfChain
<1>6. ValsChanges' = ValsChanges /\ ParamsChanges' = ParamsChanges
  BY <1>3 DEF ValsChanges, ParamsChanges
<1> HIDE DEF S
<1>7. /\ vals' = [vals EXCEPT ![n + 3] = ValidatorsInfo(n + 3, LastChange(S, n + 3), V(S, n + 3))]
      /\ DOMAIN vals = StateHeights /\ n + 3 \in StateHeights
  <2>1. DOMAIN vals = StateHeights
    BY <1>1 DEF HistoryKept
  <2>2. n + 3 \in StateHeights
    BY <1>2, <1>4 DEF StateHeights
  <2> QED
    BY <1>3, <1>5, <2>1, <2>2
<1>8. /\ DOMAIN vals' = StateHeights
      /\ vals'[n + 3] = ValidatorsInfo(n + 3, LastChange(S, n + 3), V(S, n + 3))
      /\ \A x \in 0 .. n + 2 : vals'[x] = vals[x]
  <2>1. \A x \in 0 .. n + 2 : x \in StateHeights /\ x # n + 3
    BY <1>2 DEF StateHeights
  <2> QED
    BY <1>7, <2>1
<1>9. Place'
  BY <1>1, <1>3 DEF Place, Applying
<1>10. StateIsOfChain'
  BY <1>1, <1>3, <1>6 DEF StateIsOfChain
<1>11. Lowest' = Lowest /\ Lowest \in Nat /\ start + 1 <= Lowest /\ Lowest <= n + 1
  BY <1>1, <1>2, <1>3 DEF Lowest, Place
<1>12. ASSUME NEW h \in Lowest .. n + 2 PROVE ValsKept(vals', S, h)
  <2>1. h \in Nat /\ start + 1 <= h /\ h \in 0 .. n + 2
    BY <1>2, <1>11
  <2>2. Stored(S, h) \in 0 .. n + 2
    <3>1. Stored(S, h) \in Nat /\ Stored(S, h) <= h
      BY <1>2, <2>1, StoredIs
    <3>2. \A a \in Nat, b \in 0 .. n + 2 : a <= b => a \in 0 .. n + 2
      BY <1>2
    <3> QED
      BY <2>1, <3>1, <3>2, Zenon
  <2>3. ValsKept(vals, S, h)
    BY <1>1 DEF HistoryKept, S
  <2> QED
    BY <1>8, <2>1, <2>2, <2>3 DEF ValsKept, HasSet
<1>13. ValsKept(vals', S, n + 3)
  <2>1. n + 2 \in Nat /\ (n + 2) + 1 = n + 3 /\ start + 1 <= n + 2 /\ n + 2 \in Lowest .. n + 2
    BY <1>2, <1>11
  <2>2. ValsKept(vals, S, n + 2)
    BY <1>1, <2>1 DEF HistoryKept, S
  <2> DEFINE m == n + 2
  <2>3. /\ m \in Nat /\ (\E d \in S : d <= m) /\ ValsKept(vals, S, m)
        /\ vals'[m + 1] = ValidatorsInfo(m + 1, LastChange(S, m + 1), V(S, m + 1))
        /\ \A x \in 0 .. m : vals'[x] = vals[x]
    BY <1>2, <1>8, <2>1, <2>2
  <2> HIDE DEF m
  <2>4. ValsKept(vals', S, m + 1)
    BY <1>2, <2>3, ValsWritten
  <2> QED
    BY <2>1, <2>4 DEF m
<1>14. HistoryKept'
  BY <1>1, <1>3, <1>6, <1>8, <1>11, <1>12, <1>13 DEF HistoryKept, S
<1>15. PrunedSoFar'
  <2>1. \A h \in 1 .. blockBase - 1 : vals'[h] = vals[h]
    <3>1. blockBase \in Nat /\ blockBase <= n + 1
      BY <1>1, <1>2 DEF Place
    <3>2. \A h \in 1 .. blockBase - 1 : h \in 0 .. n + 2
      BY <1>2, <3>1
    <3> QED
      BY <1>8, <3>2, Zenon
  <2>2. \A h \in 1 .. blockBase - 1 : Target(h)' <=> Target(h)
    BY <1>3, <1>6, <2>1 DEF Target
  <2> QED
    BY <1>1, <1>3, <2>2 DEF PrunedSoFar
<1> QED
  BY <1>9, <1>10, <1>14, <1>15 DEF StateStoreInv

LEMMA SaveConsensusParamsInfoKeeps ==
  ASSUME StateConstants, StateStoreInv, SaveConsensusParamsInfo
  PROVE  StateStoreInv'
<1> DEFINE n == state.height
           P == ParamsChanges
<1>1. Place /\ StateIsOfChain /\ HistoryKept /\ PrunedSoFar
  BY DEF StateStoreInv
<1>2. /\ P \in SUBSET Nat /\ start + 1 \in P
      /\ start \in Nat /\ n \in Nat /\ n >= start /\ n <= MaxBlock /\ MaxBlock \in Nat
  BY <1>1, ChangesAre
<1>3. /\ committer = "params" /\ committer' = "state"
      /\ params' = [params EXCEPT ![Updated.height + 1] =
                     ConsensusParamsInfo(Updated.height + 1, Updated.paramsChanged, Updated.params)]
      /\ UNCHANGED <<start, chain, vals, responses, state, blockBase, top, from, next, failures>>
  BY DEF SaveConsensusParamsInfo
<1>4. n < MaxBlock
  BY <1>1, <1>3 DEF Place, Applying
<1>5. /\ Updated.height + 1 = n + 2 /\ Updated.paramsChanged = LastChange(P, n + 2)
      /\ Updated.params = LastChange(P, n + 2)
  <2>1. n + 1 + 1 = n + 2
    BY <1>2
  <2> QED
    BY <1>1, <1>4, <2>1, UpdatedIsOfChain
<1>6. ValsChanges' = ValsChanges /\ ParamsChanges' = ParamsChanges
  BY <1>3 DEF ValsChanges, ParamsChanges
<1> HIDE DEF P
<1>7. /\ params' = [params EXCEPT ![n + 2] =
                     ConsensusParamsInfo(n + 2, LastChange(P, n + 2), LastChange(P, n + 2))]
      /\ DOMAIN params = StateHeights /\ n + 2 \in StateHeights
  <2>1. DOMAIN params = StateHeights
    BY <1>1 DEF HistoryKept
  <2>2. n + 2 \in StateHeights
    BY <1>2, <1>4 DEF StateHeights
  <2> QED
    BY <1>3, <1>5, <2>1, <2>2
<1>8. /\ DOMAIN params' = StateHeights
      /\ params'[n + 2] = ConsensusParamsInfo(n + 2, LastChange(P, n + 2), LastChange(P, n + 2))
      /\ \A x \in 0 .. n + 1 : params'[x] = params[x]
  <2>1. \A x \in 0 .. n + 1 : x \in StateHeights /\ x # n + 2
    BY <1>2 DEF StateHeights
  <2> QED
    BY <1>7, <2>1
<1>9. Place'
  BY <1>1, <1>3 DEF Place, Applying
<1>10. StateIsOfChain'
  BY <1>1, <1>3, <1>6 DEF StateIsOfChain
<1>11. Lowest' = Lowest /\ Lowest \in Nat /\ start + 1 <= Lowest /\ Lowest <= n + 1
  BY <1>1, <1>2, <1>3 DEF Lowest, Place
<1>12. ASSUME NEW h \in Lowest .. n + 1 PROVE ParamsKept(params', P, h)
  <2>1. h \in Nat /\ start + 1 <= h /\ h \in 0 .. n + 1
    BY <1>2, <1>11
  <2>2. LastChange(P, h) \in 0 .. n + 1
    <3>1. LastChange(P, h) \in P /\ LastChange(P, h) <= h
      BY <1>2, <2>1, LastChangeIs
    <3>2. LastChange(P, h) \in Nat
      BY <1>2, <3>1
    <3>3. \A a \in Nat, b \in 0 .. n + 1 : a <= b => a \in 0 .. n + 1
      BY <1>2
    <3> QED
      BY <2>1, <3>1, <3>2, <3>3, Zenon
  <2>3. ParamsKept(params, P, h)
    BY <1>1 DEF HistoryKept, P
  <2> QED
    BY <1>8, <2>1, <2>2, <2>3 DEF ParamsKept, HasParams
<1>13. ParamsKept(params', P, n + 2)
  <2>1. n + 1 \in Nat /\ (n + 1) + 1 = n + 2 /\ start + 1 <= n + 1 /\ n + 1 \in Lowest .. n + 1
    BY <1>2, <1>11
  <2>2. ParamsKept(params, P, n + 1)
    BY <1>1, <2>1 DEF HistoryKept, P
  <2> DEFINE m == n + 1
  <2>3. /\ m \in Nat /\ (\E d \in P : d <= m) /\ ParamsKept(params, P, m)
        /\ params'[m + 1] = ConsensusParamsInfo(m + 1, LastChange(P, m + 1), LastChange(P, m + 1))
        /\ \A x \in 0 .. m : params'[x] = params[x]
    BY <1>2, <1>8, <2>1, <2>2
  <2> HIDE DEF m
  <2>4. ParamsKept(params', P, m + 1)
    BY <1>2, <2>3, ParamsWritten
  <2> QED
    BY <2>1, <2>4 DEF m
<1>14. HistoryKept'
  BY <1>1, <1>3, <1>6, <1>8, <1>11, <1>12, <1>13 DEF HistoryKept, P
<1>15. PrunedSoFar'
  <2>1. \A h \in 1 .. blockBase - 1 : params'[h] = params[h]
    <3>1. blockBase \in Nat /\ blockBase <= n + 1
      BY <1>1, <1>2 DEF Place
    <3>2. \A h \in 1 .. blockBase - 1 : h \in 0 .. n + 1
      BY <1>2, <3>1
    <3> QED
      BY <1>8, <3>2, Zenon
  <2>2. \A h \in 1 .. blockBase - 1 : Target(h)' <=> Target(h)
    BY <1>3, <1>6, <2>1 DEF Target
  <2>3. \A h \in 0 .. start : params'[h] = params[h]
    <3>1. \A h \in 0 .. start : h \in 0 .. n + 1
      BY <1>2
    <3> QED
      BY <1>8, <3>1, Zenon
  <2> QED
    BY <1>1, <1>3, <2>2, <2>3 DEF PrunedSoFar
<1> QED
  BY <1>9, <1>10, <1>14, <1>15 DEF StateStoreInv

LEMMA SaveStateKeeps ==
  ASSUME StateConstants, StateStoreInv, SaveState
  PROVE  StateStoreInv'
<1> DEFINE n == state.height
<1>1. Place /\ StateIsOfChain /\ HistoryKept /\ PrunedSoFar
  BY DEF StateStoreInv
<1>2. start \in Nat /\ n \in Nat /\ n >= start /\ n <= MaxBlock /\ MaxBlock \in Nat
  BY <1>1, ChangesAre
<1>3. /\ committer = "state" /\ committer' = "applied" /\ state' = Updated
      /\ UNCHANGED <<start, chain, vals, params, responses, blockBase, top, from, next, failures>>
  BY DEF SaveState
<1>4. n < MaxBlock /\ top = n + 1 /\ blockBase > 0 /\ blockBase \in Nat /\ start < blockBase /\ blockBase <= n + 1
  BY <1>1, <1>2, <1>3 DEF Place, Applying
<1>5. /\ state'.height = n + 1
      /\ state'.valsChanged = LastChange(ValsChanges, n + 3)
      /\ state'.next = V(ValsChanges, n + 3)
      /\ state'.paramsChanged = LastChange(ParamsChanges, n + 2)
      /\ state'.params = LastChange(ParamsChanges, n + 2)
  BY <1>1, <1>3, <1>4, UpdatedIsOfChain
<1>6. ValsChanges' = ValsChanges /\ ParamsChanges' = ParamsChanges
  BY <1>3 DEF ValsChanges, ParamsChanges
<1>7. (n + 1) + 2 = n + 3 /\ (n + 1) + 1 = n + 2
  BY <1>2
<1>8. Place'
  <2>1. \A h \in StateHeights : h > n + 1 /\ h > top => chain[h] = "none"
    <3> SUFFICES ASSUME NEW h \in StateHeights, h > n + 1, h > top PROVE chain[h] = "none"
      OBVIOUS
    <3>1. h > n
      BY <1>2 DEF StateHeights
    <3> QED
      BY <1>1, <3>1 DEF Place
  <2>2. n + 1 \in start .. MaxBlock /\ top # n + 2
    BY <1>2, <1>4
  <2>3. blockBase <= n + 2
    BY <1>2, <1>4
  <2>4. /\ start \in SyncHeights /\ failures \in Nat /\ chain \in [StateHeights -> Changes]
        /\ from \in Int /\ next \in Int
    BY <1>1 DEF Place
  <2>5. /\ state'.height \in start .. MaxBlock /\ top' = state'.height /\ top' # state'.height + 1
        /\ blockBase <= state'.height + 1
    BY <1>2, <1>3, <1>4, <1>5, <1>7, <2>2, <2>3
  <2>6. \A h \in StateHeights : h > state'.height /\ h > top => chain[h] = "none"
    BY <1>5, <2>1
  <2> QED
    BY <1>3, <1>4, <2>4, <2>5, <2>6 DEF Place, Applying
<1>9. StateIsOfChain'
  BY <1>5, <1>6, <1>7 DEF StateIsOfChain
<1>10. HistoryKept'
  <2>1. Lowest = blockBase /\ Lowest' = blockBase
    BY <1>3, <1>4 DEF Lowest
  <2>2. \A h \in blockBase .. n + 3 : ValsKept(vals, ValsChanges, h)
    <3>1. \A h \in blockBase .. n + 3 : h \in blockBase .. n + 2 \/ h = n + 3
      BY <1>2, <1>4
    <3> QED
      BY <1>1, <1>3, <2>1, <3>1 DEF HistoryKept
  <2>3. \A h \in blockBase .. n + 2 : ParamsKept(params, ParamsChanges, h)
    <3>1. \A h \in blockBase .. n + 2 : h \in blockBase .. n + 1 \/ h = n + 2
      BY <1>2, <1>4
    <3> QED
      BY <1>1, <1>3, <2>1, <3>1 DEF HistoryKept
  <2>4. blockBase .. n + 1 \subseteq responses
    <3>1. \A h \in blockBase .. n + 1 : h \in blockBase .. n \/ h = n + 1
      BY <1>2, <1>4
    <3> QED
      BY <1>1, <1>3, <1>4, <3>1 DEF HistoryKept
  <2> QED
    BY <1>1, <1>3, <1>5, <1>6, <1>7, <2>1, <2>2, <2>3, <2>4 DEF HistoryKept
<1>11. PrunedSoFar'
  <2>1. \A h : Target(h)' <=> Target(h)
    BY <1>3, <1>6 DEF Target
  <2> QED
    BY <1>1, <1>3, <2>1 DEF PrunedSoFar
<1> QED
  BY <1>8, <1>9, <1>10, <1>11 DEF StateStoreInv

LEMMA PruneStateKeeps ==
  ASSUME StateConstants, StateStoreInv, PruneState
  PROVE  StateStoreInv'
<1> DEFINE n == state.height
           b == blockBase
           h == next
           S == ValsChanges
           P == ParamsChanges
           c == LastChange(S, b)
           d == LastChange(P, b)
<1>1. Place /\ StateIsOfChain /\ HistoryKept /\ PrunedSoFar
  BY DEF StateStoreInv
<1>2. /\ S \in SUBSET Nat /\ P \in SUBSET Nat /\ start + 1 \in S /\ start + 1 \in P
      /\ start \in Nat /\ n \in Nat /\ n >= start /\ n <= MaxBlock /\ MaxBlock \in Nat
  BY <1>1, ChangesAre
<1>3. /\ committer = "prune" /\ h >= from /\ next' = h - 1 /\ responses' = responses \ {h}
      /\ UNCHANGED <<start, chain, state, blockBase, top, committer, from, failures>>
  BY DEF PruneState
<1>4. /\ b \in Nat /\ start + 1 <= b /\ b <= n + 1 /\ b > 0 /\ from \in Int /\ h \in Int
      /\ start < from /\ h < b
  BY <1>1, <1>2, <1>3 DEF Place
<1>5. h \in Nat /\ h \in StateHeights /\ start < h /\ b \in StateHeights
  BY <1>2, <1>3, <1>4 DEF StateHeights
<1>6. DOMAIN vals = StateHeights /\ DOMAIN params = StateHeights
  BY <1>1 DEF HistoryKept
<1>7. Lowest = b /\ Lowest' = b
  BY <1>3, <1>4 DEF Lowest
<1>8. ValsChanges' = S /\ ParamsChanges' = P
  BY <1>3 DEF ValsChanges, ParamsChanges
<1>9. ValsKept(vals, S, b) /\ ParamsKept(params, P, b)
  <2>1. b \in Lowest .. n + 2 /\ b \in Lowest .. n + 1
    BY <1>2, <1>4, <1>7
  <2> QED
    BY <1>1, <2>1 DEF HistoryKept
<1>10. c \in S /\ c \in Nat /\ d \in P /\ d \in Nat /\ d <= b
  BY <1>2, <1>4, LastChangeIs
<1>11. Stored(S, b) \in Nat /\ (Stored(S, b) \in S \/ Stored(S, b) % Interval = 0)
  BY <1>2, <1>4, StoredIs
<1>12. /\ vals' = [vals EXCEPT ![h] =
                     IF h \notin KeepVals(b) THEN Nothing
                     ELSE IF @ # Nothing /\ @.set # Nothing THEN @
                     ELSE [changed |-> h, set |-> LoadValidators(h)]]
       /\ params' = [params EXCEPT ![h] =
                       IF h \notin KeepParams(b) THEN Nothing
                       ELSE IF @.params # Nothing THEN @
                       ELSE [changed |-> h, params |-> LoadConsensusParams(h)]]
  BY DEF PruneState
<1>13. KeepVals(b) = IF b = c \/ b % Interval = 0 THEN {} ELSE {c, Stored(S, b)}
  <2>1. vals[b] = ValidatorsInfo(b, c, V(S, b))
    BY <1>9 DEF ValsKept
  <2>2. vals[b].changed = c /\ vals[b].set = IF b = c \/ b % Interval = 0 THEN V(S, b) ELSE Nothing
    BY <2>1 DEF ValidatorsInfo
  <2>3. V(S, b) # Nothing
    <3>1. V(S, b) \in VSet
      BY <1>4, <1>10 DEF V, ValSet, VSet
    <3> QED
      BY <3>1 DEF StateConstants
  <2> QED
    BY <2>2, <2>3 DEF KeepVals, Stored
<1>14. KeepParams(b) = IF b = d THEN {} ELSE {d}
  <2>1. params[b] = ConsensusParamsInfo(b, d, d)
    BY <1>9 DEF ParamsKept
  <2>2. params[b].changed = d /\ params[b].params = IF b = d THEN d ELSE Nothing
    BY <2>1 DEF ConsensusParamsInfo
  <2>3. d # Nothing
    BY <1>10 DEF StateConstants
  <2> QED
    BY <2>2, <2>3 DEF KeepParams
<1> HIDE DEF b, h, S, P, c, d
<1>15. /\ DOMAIN vals' = StateHeights /\ DOMAIN params' = StateHeights
       /\ \A x \in StateHeights : x # h => vals'[x] = vals[x] /\ params'[x] = params[x]
       /\ vals'[h] = IF h \notin KeepVals(b) THEN Nothing
                     ELSE IF vals[h] # Nothing /\ vals[h].set # Nothing THEN vals[h]
                     ELSE [changed |-> h, set |-> LoadValidators(h)]
       /\ params'[h] = IF h \notin KeepParams(b) THEN Nothing
                       ELSE IF params[h].params # Nothing THEN params[h]
                       ELSE [changed |-> h, params |-> LoadConsensusParams(h)]
  BY <1>5, <1>6, <1>12
<1>16. /\ h = Stored(S, b) /\ b # c /\ b % Interval # 0 => vals'[h] = vals[h]
       /\ h = d /\ b # d => params'[h] = params[h]
  <2>1. ASSUME h = Stored(S, b), b # c, b % Interval # 0 PROVE vals'[h] = vals[h]
    <3>1. h \in KeepVals(b)
      BY <1>13, <2>1
    <3>2. vals[h] # Nothing /\ vals[h].set = V(S, h)
      BY <1>9, <2>1 DEF ValsKept, HasSet
    <3>3. V(S, h) # Nothing
      <4>1. LastChange(S, h) \in Nat /\ LastChange(S, h) <= h
        <5>1. \E x \in S : x <= h
          BY <1>2, <1>5
        <5> QED
          BY <1>2, <1>5, <5>1, LastChangeIs
      <4>2. V(S, h) \in VSet
        BY <1>5, <4>1 DEF V, ValSet, VSet
      <4> QED
        BY <4>2 DEF StateConstants
    <3> QED
      BY <1>15, <3>1, <3>2, <3>3
  <2>2. ASSUME h = d, b # d PROVE params'[h] = params[h]
    <3>1. h \in KeepParams(b)
      BY <1>14, <2>2
    <3>2. d # Nothing
      BY <1>10 DEF StateConstants
    <3>3. params[h].params = d
      BY <1>9, <2>2 DEF ParamsKept, HasParams, d
    <3> QED
      BY <1>15, <3>1, <3>2, <3>3
  <2> QED
    BY <2>1, <2>2
<1>17. \A x \in 0 .. n + 2 : x \in StateHeights /\ (x >= b => x # h)
  BY <1>2, <1>4 DEF StateHeights
<1>18. ASSUME NEW k \in b .. n + 2 PROVE ValsKept(vals', S, k)
  <2>1. k \in Nat /\ b <= k /\ 0 .. k \subseteq 0 .. n + 2
    BY <1>2, <1>4
  <2>2. ValsKept(vals, S, k)
    BY <1>1, <1>7 DEF HistoryKept, S
  <2>3. \A x \in 0 .. k : x >= b \/ (x = Stored(S, b) /\ b # c /\ b % Interval # 0) => vals'[x] = vals[x]
    BY <1>15, <1>16, <1>17, <2>1
  <2>4. \E x \in S : x <= b
    BY <1>2, <1>4
  <2> QED
    BY <1>2, <1>4, <2>1, <2>2, <2>3, <2>4, ValsPruned DEF c
<1>19. ASSUME NEW k \in b .. n + 1 PROVE ParamsKept(params', P, k)
  <2>1. k \in Nat /\ b <= k /\ 0 .. k \subseteq 0 .. n + 2
    BY <1>2, <1>4
  <2>2. ParamsKept(params, P, k)
    BY <1>1, <1>7 DEF HistoryKept, P
  <2>3. \A x \in 0 .. k : x >= b \/ (x = d /\ b # x) => params'[x] = params[x]
    BY <1>15, <1>16, <1>17, <2>1
  <2>4. \E x \in P : x <= b
    BY <1>2, <1>4
  <2> QED
    BY <1>2, <1>4, <2>1, <2>2, <2>3, <2>4, ParamsPruned DEF d
<1>20. Place'
  <2>1. next' \in Int /\ next' < b
    BY <1>3, <1>4
  <2> QED
    BY <1>1, <1>3, <2>1 DEF Place, Applying, b
<1>21. StateIsOfChain'
  BY <1>1, <1>3, <1>8 DEF StateIsOfChain, S, P
<1>22. HistoryKept'
  <2>1. b .. n \subseteq responses'
    <3>1. b .. n \subseteq responses
      BY <1>1, <1>4 DEF HistoryKept, b
    <3>2. \A x \in b .. n : x # h
      BY <1>2, <1>4
    <3> QED
      BY <1>3, <3>1, <3>2
  <2> QED
    BY <1>3, <1>7, <1>8, <1>15, <1>18, <1>19, <2>1 DEF HistoryKept, b
<1>23. PrunedSoFar'
  <2>1. ASSUME NEW x \in 0 .. start PROVE params'[x] = Nothing
    <3>1. x # h /\ x \in StateHeights
      BY <1>2, <1>5 DEF StateHeights
    <3> QED
      BY <1>1, <1>15, <3>1 DEF PrunedSoFar
  <2>2. ASSUME failures = 0, NEW x \in 1 .. b - 1
        PROVE  x \in from .. next' \/ Target(x)'
    <3>1. x \in StateHeights /\ x \in Int
      BY <1>2, <1>4 DEF StateHeights
    <3>2. CASE x = h
      <4>1. vals'[h] # Nothing => h \in S \/ h % Interval = 0
        BY <1>10, <1>11, <1>13, <1>15
      <4>2. params'[h] # Nothing => h \in P
        BY <1>10, <1>14, <1>15
      <4> QED
        BY <1>3, <1>8, <3>2, <4>1, <4>2 DEF Target
    <3>3. CASE x # h
      <4>1. x \in from .. h \/ Target(x)
        BY <1>1, <2>2 DEF PrunedSoFar, b, h
      <4>2. x \in from .. h => x \in from .. next'
        BY <1>3, <1>4, <3>1, <3>3
      <4>3. Target(x) => Target(x)'
        BY <1>3, <1>8, <1>15, <3>1, <3>3 DEF Target, S, P
      <4> QED
        BY <4>1, <4>2, <4>3
    <3> QED
      BY <3>2, <3>3
  <2> QED
    BY <1>3, <2>1, <2>2 DEF PrunedSoFar, b
<1> QED
  BY <1>20, <1>21, <1>22, <1>23 DEF StateStoreInv

-----------------------------------------------------------------------------
LEMMA StateStoreStep ==
  ASSUME StateConstants, StateStoreInv, [StateStoreNext]_stateVars
  PROVE  StateStoreInv'
<1>1. CASE StateStoreNext
  BY <1>1, StoreBlockKeeps, QuietKeeps, SaveValidatorsInfoKeeps, SaveConsensusParamsInfoKeeps,
     SaveStateKeeps, PruneStateKeeps DEF StateStoreNext
<1>2. CASE UNCHANGED stateVars
  <2>1. UNCHANGED <<start, chain, vals, params, responses, state, blockBase, top, committer, from, next, failures>>
    BY <1>2 DEF stateVars
  <2>2. ValsChanges' = ValsChanges /\ ParamsChanges' = ParamsChanges /\ Lowest' = Lowest
    BY <2>1 DEF ValsChanges, ParamsChanges, Lowest
  <2>3. Place' /\ StateIsOfChain'
    BY <2>1, <2>2 DEF StateStoreInv, Place, Applying, StateIsOfChain
  <2>4. HistoryKept'
    BY <2>1, <2>2 DEF StateStoreInv, HistoryKept
  <2>5. PrunedSoFar'
    BY <2>1, <2>2 DEF StateStoreInv, PrunedSoFar, Target
  <2> QED
    BY <2>3, <2>4, <2>5 DEF StateStoreInv
<1> QED
  BY <1>1, <1>2

(***************************************************************************)
(* StateStoreInv is an invariant, for any chain, checkpoint interval, state *)
(* synced height and number of crashes.                                     *)
(***************************************************************************)
THEOREM StateStoreInvariant ==
  ASSUME StateConstants
  PROVE  StateStoreSpec => []StateStoreInv
<1>1. StateStoreInit => StateStoreInv
  BY InitStateStoreInv
<1>2. StateStoreInv /\ [StateStoreNext]_stateVars => StateStoreInv'
  BY StateStoreStep
<1> QED
  BY <1>1, <1>2, PTL DEF StateStoreSpec

(***************************************************************************)
(* Whatever ApplyBlock, pruneBlocks and crashes between their writes have   *)
(* done, LoadValidators, LoadConsensusParams and the responses give what    *)
(* the chain agreed on, at every height the block store has.                *)
(***************************************************************************)
THEOREM StateHistory ==
  ASSUME StateConstants
  PROVE  StateStoreSpec => []HistoryLoads
<1>1. StateStoreInv => HistoryLoads
  BY InvGivesProperties
<1> QED
  BY <1>1, StateStoreInvariant, PTL

(***************************************************************************)
(* Without a crash PruneStates leaves below the base only the heights of    *)
(* changes and checkpoints.                                                 *)
(***************************************************************************)
THEOREM StatesPruned ==
  ASSUME StateConstants
  PROVE  StateStoreSpec => []PrunedToTargets
<1>1. StateStoreInv => PrunedToTargets
  BY InvGivesProperties
<1> QED
  BY <1>1, StateStoreInvariant, PTL
=============================================================================

------------------------------ MODULE Mempool ------------------------------
(***************************************************************************)
(* mempool/clist_mempool.go: CheckTx, its two response callbacks, Update    *)
(* with the recheck of what is left, and the cache of seen transactions.    *)
(*                                                                          *)
(* Two clients connect the mempool to the application.  The socket client   *)
(* queues requests and runs the callbacks of the responses serially, in     *)
(* request order, in its receive routine; a response may be delivered       *)
(* before the caller has set its callback, which then never runs.  The      *)
(* local client runs everything in the calling goroutine, so the callbacks  *)
(* of concurrent CheckTx calls interleave.  updateMtx is held for reading   *)
(* by CheckTx and for writing from Lock to Unlock around Update.            *)
(*                                                                          *)
(* Abstraction: the application answers a check as it likes; a transaction  *)
(* is its key; senders, gas, pre and post checks are left out (a failing    *)
(* post check is a failing check).                                          *)
(***************************************************************************)
EXTENDS Integers, Sequences, FiniteSets

CONSTANTS Txs,            \* transactions that are submitted
          TxBytes,        \* transaction -> its length
          MaxTxsBytes,    \* config.MaxTxsBytes
          Configs,        \* the configurations a node may run with
          Callers,        \* goroutines that call CheckTx
          MaxHeight,      \* bound on the number of Updates
          MaxPending,     \* bound on the first checks waiting for an answer
          None            \* nil

(***************************************************************************)
(* config.Size, config.CacheSize (0 is nopTxCache), config.Recheck and      *)
(* config.KeepInvalidTxsInCache, and the ABCI client behind the mempool.    *)
(***************************************************************************)
ASSUME ConfigAssumption ==
  Configs \subseteq [client: {"socket", "local"}, size: Nat \ {0}, cacheSize: Nat,
                     recheck: BOOLEAN, keepInvalid: BOOLEAN]
ASSUME SizesAssumption == MaxTxsBytes \in Nat /\ TxBytes \in [Txs -> Nat \ {0}]
ASSUME BoundsAssumption ==
  MaxHeight \in Nat /\ MaxPending \in Nat

VARIABLES
  config,    \* mem.config and the client, chosen at start
  pool,      \* the fields of CListMempool, a record
  cursor,    \* recheckCursor: the list element whose answer is expected next
  end,       \* recheckEnd
  conn,      \* requests the application has not answered, in order
  caller,    \* caller -> where it is in CheckTx, and with which transaction
  writer,    \* who holds updateMtx for writing, and where it is
  toRecheck, \* elements recheckTxs has not sent yet
  height,    \* mem.height
  panicked,  \* one of the mempool's panics was reached
  done       \* history: transactions whose last delivery in a block was OK

mempoolVars == <<config, pool, cursor, end, conn, caller, writer, toRecheck, height,
          panicked, done>>

(***************************************************************************)
(* NewCListMempool.  A list element is a transaction and a number that      *)
(* tells apart elements that hold the same transaction.                     *)
(***************************************************************************)
MempoolInit ==
  /\ config \in Configs
  /\ pool = [txs |-> <<>>, txsMap |-> [t \in Txs |-> None], txsBytes |-> 0,
             cache |-> <<>>, notified |-> FALSE, chan |-> FALSE]
  /\ cursor = None /\ end = None
  /\ conn = <<>>
  /\ caller = [c \in Callers |-> [pc |-> "idle", tx |-> None]]
  /\ writer = "none"
  /\ toRecheck = <<>>
  /\ height = 0
  /\ panicked = FALSE
  /\ done = {}

-----------------------------------------------------------------------------
(***************************************************************************)
(* The lists of the pool and of the cache: no element is in one twice.      *)
(***************************************************************************)
Elements(s) == {s[i] : i \in DOMAIN s}
Position(s, e) == CHOOSE i \in DOMAIN s : s[i] = e
Without(s, i) == [k \in 1..Len(s) - 1 |-> IF k < i THEN s[k] ELSE s[k + 1]]
Remove(s, e) == IF e \in Elements(s) THEN Without(s, Position(s, e)) ELSE s

(***************************************************************************)
(* mapTxCache: least recently pushed first.                                 *)
(***************************************************************************)
CachePush(cache, t) ==
  CASE config.cacheSize = 0 -> cache
    [] config.cacheSize > 0 /\ t \in Elements(cache) -> Append(Remove(cache, t), t)
    [] config.cacheSize > 0 /\ t \notin Elements(cache) ->
         Append(IF Len(cache) >= config.cacheSize THEN Tail(cache) ELSE cache, t)

CacheRemove(cache, t) == Remove(cache, t)

(***************************************************************************)
(* isFull: the limits a new transaction t would exceed.                     *)
(***************************************************************************)
IsFull(p, t) ==
  \/ Len(p.txs) >= config.size
  \/ TxBytes[t] + p.txsBytes > MaxTxsBytes

NewElement(p, t) ==
  [tx |-> t,
   copy |-> CHOOSE n \in 0..Len(p.txs) : [tx |-> t, copy |-> n] \notin Elements(p.txs)]

AddTx(p, t) ==
  LET e == NewElement(p, t)
  IN  [p EXCEPT !.txs = Append(@, e),
                !.txsMap[t] = e,
                !.txsBytes = @ + TxBytes[t]]

(***************************************************************************)
(* Mutant: the byte counter is not lowered.                                 *)
(***************************************************************************)
RemoveTxKeepingBytes(p, e, fromCache) ==
  [p EXCEPT !.txs = Remove(@, e),
            !.txsMap[e.tx] = None,
            !.cache = IF fromCache THEN CacheRemove(@, e.tx) ELSE @]

(***************************************************************************)
(* removeTx: the element leaves the list, the map forgets the transaction.  *)
(***************************************************************************)
RemoveTx(p, e, fromCache) ==
  [p EXCEPT !.txs = Remove(@, e),
            !.txsMap[e.tx] = None,
            !.txsBytes = @ - TxBytes[e.tx],
            !.cache = IF fromCache THEN CacheRemove(@, e.tx) ELSE @]

(***************************************************************************)
(* notifyTxsAvailable after its emptiness check: once per height, with a    *)
(* send on a channel of capacity one that is dropped when it is full.       *)
(***************************************************************************)
SendTxsAvailable(p) ==
  [p EXCEPT !.notified = TRUE, !.chan = TRUE]

NotifyTxsAvailable(p) == IF p.notified THEN p ELSE SendTxsAvailable(p)

-----------------------------------------------------------------------------
(***************************************************************************)
(* CheckTx up to the asynchronous request.                                  *)
(***************************************************************************)
CheckTx(c, t) ==
  /\ writer = "none"
  /\ caller[c].pc = "idle"
  /\ Len(conn) < MaxPending
  /\ ~ IsFull(pool, t)
  /\ \/ /\ t \in Elements(pool.cache)     \* ErrTxInCache, after Push moved it
        /\ pool' = [pool EXCEPT !.cache = CachePush(@, t)]
        /\ UNCHANGED <<conn, caller>>
     \/ /\ t \notin Elements(pool.cache)
        /\ pool' = [pool EXCEPT !.cache = CachePush(@, t)]
        /\ \/ /\ config.client = "socket"
              /\ conn' = Append(conn, [tx |-> t, from |-> c, cb |-> FALSE])
              /\ caller' = [caller EXCEPT ![c] = [pc |-> "setCallback", tx |-> t]]
           \/ /\ config.client = "local"
              /\ caller' = [caller EXCEPT ![c] = [pc |-> "response", tx |-> t]]
              /\ UNCHANGED conn
  /\ UNCHANGED <<cursor, end, writer, toRecheck, height, panicked, done, config>>

(***************************************************************************)
(* SetCallback on the request of the socket client, if it is still queued.  *)
(***************************************************************************)
SetCallback(c) ==
  /\ caller[c].pc = "setCallback"
  /\ conn' = [i \in DOMAIN conn |->
                IF conn[i].from = c THEN [conn[i] EXCEPT !.cb = TRUE] ELSE conn[i]]
  /\ caller' = [caller EXCEPT ![c] = [pc |-> "idle", tx |-> None]]
  /\ UNCHANGED <<pool, cursor, end, writer, toRecheck, height, panicked, done, config>>

(***************************************************************************)
(* The failing branch of resCbFirstTime.                                    *)
(***************************************************************************)
Reject(p, t) ==
  IF config.keepInvalid THEN p ELSE [p EXCEPT !.cache = CacheRemove(@, t)]

(***************************************************************************)
(* resCbFirstTime as the serial callback of the socket client.              *)
(***************************************************************************)
ResCbFirstTime(p, t, ok) ==
  CASE ~ ok -> Reject(p, t)
    [] ok /\ IsFull(p, t) -> [p EXCEPT !.cache = CacheRemove(@, t)]
    [] OTHER -> NotifyTxsAvailable(AddTx(p, t))

(***************************************************************************)
(* The element after e in the list, nil at the end.                         *)
(***************************************************************************)
NextElement(s, e) ==
  LET i == Position(s, e) IN IF i = Len(s) THEN None ELSE s[i + 1]

(***************************************************************************)
(* Mutant: the cursor does not move on.                                     *)
(***************************************************************************)
NextCursorStuck == IF cursor = end THEN None ELSE cursor

(***************************************************************************)
(* resCbRecheck: an invalidated transaction leaves the list; the cursor     *)
(* moves on, and at the end listeners hear of what is left.                 *)
(***************************************************************************)
NextCursor == IF cursor = end THEN None ELSE NextElement(pool.txs, cursor)

(***************************************************************************)
(* Mutant: the end of a recheck is not announced.                           *)
(***************************************************************************)
ResCbRecheckSilent(p, ok) ==
  IF ok THEN p ELSE RemoveTx(p, cursor, ~ config.keepInvalid)

ResCbRecheck(p, ok) ==
  LET checked == IF ok THEN p ELSE RemoveTx(p, cursor, ~ config.keepInvalid)
  IN  IF NextCursor = None /\ Len(checked.txs) > 0
      THEN NotifyTxsAvailable(checked)
      ELSE checked

(***************************************************************************)
(* The panics of reqResCb (a first check answered during a recheck) and of  *)
(* resCbRecheck (an answer for another transaction than the cursor's).      *)
(***************************************************************************)
RecheckPanics(r) == cursor # None /\ (r.cb \/ r.tx # cursor.tx)

(***************************************************************************)
(* The receive routine handles the answer to the oldest request: globalCb   *)
(* during a recheck, otherwise the request's own callback if it is set.     *)
(***************************************************************************)
Response ==
  /\ conn # <<>>
  /\ conn' = Tail(conn)
  /\ LET r == Head(conn)
     IN  /\ panicked' = (panicked \/ RecheckPanics(r))
         /\ \E ok \in BOOLEAN :
              pool' = CASE RecheckPanics(r) -> pool
                        [] cursor # None /\ ~ RecheckPanics(r) -> ResCbRecheck(pool, ok)
                        [] cursor = None /\ r.cb -> ResCbFirstTime(pool, r.tx, ok)
                        [] OTHER -> pool
         /\ cursor' = IF cursor = None \/ RecheckPanics(r) THEN cursor ELSE NextCursor
  /\ UNCHANGED <<end, caller, writer, toRecheck, height, done, config>>

-----------------------------------------------------------------------------
(***************************************************************************)
(* resCbFirstTime in the calling goroutine, for the local client: the       *)
(* answer, the test of the limits, addTx and the two halves of              *)
(* notifyTxsAvailable are separate steps of concurrent callers.             *)
(***************************************************************************)
LocalStep(c, from, to) ==
  /\ caller[c].pc = from
  /\ caller' = [caller EXCEPT ![c] = [pc |-> to, tx |-> IF to = "idle" THEN None ELSE @.tx]]
  /\ UNCHANGED <<cursor, end, conn, writer, toRecheck, height, panicked, done, config>>

LocalRejected(c) ==
  /\ LocalStep(c, "response", "idle")
  /\ pool' = Reject(pool, caller[c].tx)

LocalFull(c) ==
  /\ LocalStep(c, "response", "idle")
  /\ IsFull(pool, caller[c].tx)
  /\ pool' = [pool EXCEPT !.cache = CacheRemove(@, caller[c].tx)]

LocalRoom(c) ==
  /\ LocalStep(c, "response", "add")
  /\ ~ IsFull(pool, caller[c].tx)
  /\ UNCHANGED pool

LocalAdd(c) ==
  /\ LocalStep(c, "add", "notify")
  /\ pool' = AddTx(pool, caller[c].tx)

LocalNotify(c) ==
  /\ LocalStep(c, "notify", IF pool.notified THEN "idle" ELSE "send")
  /\ UNCHANGED pool

LocalSend(c) ==
  /\ LocalStep(c, "send", "idle")
  /\ pool' = SendTxsAvailable(pool)

-----------------------------------------------------------------------------
(***************************************************************************)
(* The block executor: Lock, FlushAppConn, Update, Unlock.                  *)
(***************************************************************************)
Lock ==
  /\ writer = "none"
  /\ height < MaxHeight
  /\ \A c \in Callers : caller[c].pc = "idle"
  /\ writer' = "flush"
  /\ UNCHANGED <<pool, cursor, end, conn, caller, toRecheck, height, panicked, done, config>>

(***************************************************************************)
(* Mutant: Update does not wait for the answers in flight.                  *)
(***************************************************************************)
FlushNothing ==
  /\ writer = "flush"
  /\ writer' = "update"
  /\ UNCHANGED <<pool, cursor, end, conn, caller, toRecheck, height, panicked, done, config>>

(***************************************************************************)
(* FlushAppConn returns when every queued request has been answered         *)
(* (FlushBarrier of SocketClient).                                          *)
(***************************************************************************)
FlushAppConn ==
  /\ writer = "flush"
  /\ conn = <<>>
  /\ writer' = "update"
  /\ UNCHANGED <<pool, cursor, end, conn, caller, toRecheck, height, panicked, done, config>>

(***************************************************************************)
(* Mutant: a committed transaction is not put into the cache.               *)
(***************************************************************************)
CommittedNotCached(p, t, ok) ==
  IF p.txsMap[t] = None THEN p ELSE RemoveTx(p, p.txsMap[t], FALSE)

(***************************************************************************)
(* What Update does for one transaction of the block.                       *)
(***************************************************************************)
Committed(p, t, ok) ==
  LET cached == CASE ok -> [p EXCEPT !.cache = CachePush(@, t)]
                  [] ~ ok /\ ~ config.keepInvalid -> [p EXCEPT !.cache = CacheRemove(@, t)]
                  [] OTHER -> p
  IN  IF cached.txsMap[t] = None THEN cached
      ELSE RemoveTx(cached, cached.txsMap[t], FALSE)

(***************************************************************************)
(* Update: the transactions of the block are dropped one by one, then the   *)
(* rest is rechecked or announced.  A block may have any length.            *)
(***************************************************************************)
Update ==
  /\ writer = "update"
  /\ height' = height + 1
  /\ pool' = [pool EXCEPT !.notified = FALSE]
  /\ writer' = "commit"
  /\ UNCHANGED <<cursor, end, conn, caller, toRecheck, panicked, done, config>>

UpdateTx(t, ok) ==
  /\ writer = "commit"
  /\ pool' = Committed(pool, t, ok)
  /\ done' = IF ok THEN done \cup {t} ELSE done \ {t}
  /\ UNCHANGED <<cursor, end, conn, caller, writer, toRecheck, height, panicked, config>>

RecheckOrNotify ==
  /\ writer = "commit"
  /\ \/ /\ Len(pool.txs) > 0 /\ config.recheck
        /\ cursor' = Head(pool.txs)
        /\ end' = pool.txs[Len(pool.txs)]
        /\ toRecheck' = pool.txs
        /\ writer' = "recheck"
        /\ UNCHANGED pool
     \/ /\ ~ (Len(pool.txs) > 0 /\ config.recheck)
        /\ pool' = IF Len(pool.txs) > 0 THEN NotifyTxsAvailable(pool) ELSE pool
        /\ writer' = "unlock"
        /\ UNCHANGED <<cursor, end, toRecheck>>
  /\ UNCHANGED <<conn, caller, height, panicked, done, config>>

(***************************************************************************)
(* recheckTxs walks the list while answers may already come in; the local   *)
(* client answers each request before the next one.                         *)
(***************************************************************************)
RecheckTx ==
  /\ writer = "recheck"
  /\ config.client = "local" => conn = <<>>
  /\ IF toRecheck = <<>>
     THEN writer' = "unlock" /\ UNCHANGED <<conn, toRecheck>>
     ELSE /\ conn' = Append(conn, [tx |-> Head(toRecheck).tx, from |-> "recheck",
                                   cb |-> FALSE])
          /\ toRecheck' = Tail(toRecheck)
          /\ UNCHANGED writer
  /\ UNCHANGED <<pool, cursor, end, caller, height, panicked, done, config>>

Unlock ==
  /\ writer = "unlock"
  /\ writer' = "none"
  /\ UNCHANGED <<pool, cursor, end, conn, caller, toRecheck, height, panicked, done, config>>

(***************************************************************************)
(* The consensus state receives from TxsAvailable().                        *)
(***************************************************************************)
ReceiveTxsAvailable ==
  /\ pool.chan
  /\ pool' = [pool EXCEPT !.chan = FALSE]
  /\ UNCHANGED <<cursor, end, conn, caller, writer, toRecheck, height, panicked, done, config>>

MempoolNext ==
  \/ \E c \in Callers, t \in Txs : CheckTx(c, t)
  \/ \E c \in Callers : SetCallback(c)
  \/ Response
  \/ \E c \in Callers :
       \/ LocalRejected(c)
       \/ LocalFull(c)
       \/ LocalRoom(c)
       \/ LocalAdd(c)
       \/ LocalNotify(c)
       \/ LocalSend(c)
  \/ Lock
  \/ FlushAppConn
  \/ Update
  \/ \E t \in Txs, ok \in BOOLEAN : UpdateTx(t, ok)
  \/ RecheckOrNotify
  \/ RecheckTx
  \/ Unlock
  \/ ReceiveTxsAvailable

MempoolSpec == MempoolInit /\ [][MempoolNext]_mempoolVars

(***************************************************************************)
(* The application answers and the executor finishes an Update it started.  *)
(***************************************************************************)
MempoolFairSpec ==
  /\ MempoolSpec
  /\ WF_mempoolVars(Response)
  /\ WF_mempoolVars(FlushAppConn)
  /\ WF_mempoolVars(Update)
  /\ WF_mempoolVars(RecheckOrNotify)
  /\ WF_mempoolVars(RecheckTx)
  /\ WF_mempoolVars(Unlock)
-----------------------------------------------------------------------------
(***************************************************************************)
(* Properties.                                                              *)
(***************************************************************************)
CacheHolds == config.cacheSize >= Cardinality(Txs)   \* the cache never evicts

InPool == {e.tx : e \in Elements(pool.txs)}

(***************************************************************************)
(* The panics of reqResCb and resCbRecheck are unreachable: no first-time   *)
(* answer arrives during a recheck and recheck answers match the cursor,    *)
(* although the cursor moves while recheckTxs is still sending.             *)
(***************************************************************************)
NoRecheckPanic == ~ panicked

(***************************************************************************)
(* The byte counter, the map and the list tell the same story: txsBytes is  *)
(* the sum over the list and every map entry is an element of the list.     *)
(***************************************************************************)
ByteUnits(es) == UNION {{e} \X (1..TxBytes[e.tx]) : e \in es}
Bytes(es) == Cardinality(ByteUnits(es))

Accounting ==
  /\ pool.txsBytes = Bytes(Elements(pool.txs))
  /\ \A t \in Txs : pool.txsMap[t] # None => pool.txsMap[t] \in Elements(pool.txs)

(***************************************************************************)
(* With a cache that never evicts, a transaction a block delivered with     *)
(* success does not come back, even if its first check was still on its way *)
(* when the block was committed.                                            *)
(***************************************************************************)
CommittedStaysOut == CacheHolds => done \cap InPool = {}

(***************************************************************************)
(* While transactions wait and no recheck runs, listeners of TxsAvailable   *)
(* have been told at this height.                                           *)
(***************************************************************************)
WaitingIsAnnounced ==
  Len(pool.txs) > 0 /\ cursor = None /\ writer = "none"
    /\ (\A c \in Callers : caller[c].pc \in {"idle", "setCallback"})
  => pool.notified

(***************************************************************************)
(* A recheck ends: the cursor reaches the end whatever is removed under it. *)
(***************************************************************************)
RecheckEnds == cursor # None ~> cursor = None
=============================================================================

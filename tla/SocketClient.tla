---------------------------- MODULE SocketClient ----------------------------
(***************************************************************************)
(* abci/client/socket_client.go with ReqRes of abci/client/client.go, the   *)
(* throttle timer of libs/timer and the far end in abci/server.             *)
(*                                                                          *)
(* A request is put on reqQueue by its caller, written by                   *)
(* sendRequestsRoutine, answered by the server in order and delivered by    *)
(* recvResponseRoutine, which runs the callbacks.  The callers are those of *)
(* the mempool connection: CheckTx calls under the read lock, each of which *)
(* sets its callback after the request is queued, and one Update under the  *)
(* write lock, which waits for FlushSync, queues a recheck and flushes.     *)
(*                                                                          *)
(* Abstraction: a request is its name, and its response carries the same    *)
(* name.  A buffered writer hands over what it holds when it is flushed and *)
(* may do so at any write (its buffer is full).                             *)
(***************************************************************************)
EXTENDS Integers, Sequences, FiniteSets, Functions

CONSTANTS Callers,      \* concurrent CheckTx calls, one request each
          QueueSize     \* reqQueueSize

ASSUME QueueSizeAssumption == QueueSize \in Nat \ {0}

VARIABLES
  callerPc,   \* caller -> where it is in CheckTx
  updatePc,   \* where Update is
  reqQueue,   \* the channel of requests not yet taken by the send routine
  timer,      \* the throttle timer is armed (isSet)
  sendPc,     \* sendRequestsRoutine
  taken,      \* the request it holds
  wbuf,       \* its buffered writer
  wire,       \* bytes on the way to the server
  sbuf,       \* responses in the server's buffered writer
  back,       \* bytes on the way to the client
  reqSent,    \* requests sent, waiting for their response
  recvPc,     \* recvResponseRoutine
  recvd,      \* the response it holds
  resolved,   \* requests whose WaitGroup is released
  drained,    \* how many elements of reqSent flushQueue has released
  delivered,  \* history: requests whose response reached the global callback
  mismatch,   \* history: some request was given another one's response
  cb,         \* requests whose callback is set
  conn,       \* the connection: open, broken or closed by the client
  err,        \* cli.err is set
  stopped, quit, \* BaseService: stopped flag, quit channel closed
  userPc,     \* somebody calling Stop
  fault,      \* what may happen: "none", "break" of the connection, "stop" by the user
  panicked    \* the process died

callers == <<callerPc, updatePc>>
sendRtn == <<sendPc, taken, wbuf>>
server == <<wire, sbuf>>
recvRtn == <<recvPc, recvd>>
results == <<resolved, delivered, mismatch>>
service == <<conn, err, stopped, quit, userPc, fault, panicked>>
vars == <<callers, reqQueue, timer, sendRtn, server, back, reqSent, recvRtn,
          results, drained, cb, service>>

Flushes == {"flushSync", "flushAsync", "timerFlush"}

(***************************************************************************)
(* NewSocketClient and a successful OnStart; callers or the Update may be   *)
(* missing.                                                                 *)
(***************************************************************************)
Init ==
  /\ callerPc \in [Callers -> {"start", "done"}]
  /\ updatePc \in {"start", "done"}
  /\ reqQueue = <<>> /\ timer = FALSE
  /\ sendPc = "select" /\ taken = "none" /\ wbuf = <<>>
  /\ wire = <<>> /\ sbuf = <<>> /\ back = <<>>
  /\ reqSent = <<>> /\ recvPc = "read" /\ recvd = "none"
  /\ resolved = {} /\ drained = 0 /\ delivered = {} /\ mismatch = FALSE
  /\ cb = {}
  /\ conn = "open" /\ err = FALSE /\ stopped = FALSE /\ quit = FALSE
  /\ userPc = "idle" /\ fault \in {"none", "break", "stop"} /\ panicked = FALSE

-----------------------------------------------------------------------------
(***************************************************************************)
(* Callers.                                                                 *)
(***************************************************************************)
(***************************************************************************)
(* updateMtx of the mempool: CheckTx holds it for reading from its start to *)
(* its return, Update for writing.                                          *)
(***************************************************************************)
ReadLockFree == updatePc \in {"start", "failed", "done"}
WriteLockFree == \A c \in Callers : callerPc[c] \in {"start", "done"}

Enqueue(r) ==
  /\ Len(reqQueue) < QueueSize
  /\ reqQueue' = Append(reqQueue, r)

(***************************************************************************)
(* CheckTx takes the lock and gives up when the connection has an error.    *)
(***************************************************************************)
CheckTxStart(c) ==
  /\ callerPc[c] = "start"
  /\ ReadLockFree
  /\ callerPc' = [callerPc EXCEPT ![c] = IF err THEN "done" ELSE "queue"]
  /\ UNCHANGED <<updatePc, reqQueue, timer, sendRtn, server, back, reqSent,
                 recvRtn, results, drained, cb, service>>

(***************************************************************************)
(* queueRequest: the send on reqQueue, which blocks while it is full, ...   *)
(***************************************************************************)
QueueRequest(c) ==
  /\ callerPc[c] = "queue"
  /\ Enqueue(c)
  /\ callerPc' = [callerPc EXCEPT ![c] = "arm"]
  /\ UNCHANGED <<updatePc, timer, sendRtn, server, back, reqSent, recvRtn,
                 results, drained, cb, service>>

(***************************************************************************)
(* Mutant: the request is queued and the flush timer is not set.            *)
(***************************************************************************)
ForgetTimer(c) ==
  /\ callerPc[c] = "arm"
  /\ callerPc' = [callerPc EXCEPT ![c] = "setCallback"]
  /\ UNCHANGED <<updatePc, reqQueue, timer, sendRtn, server, back, reqSent,
                 recvRtn, results, drained, cb, service>>

(***************************************************************************)
(* ... and then flushTimer.Set.                                             *)
(***************************************************************************)
ArmTimer(c) ==
  /\ callerPc[c] = "arm"
  /\ timer' = TRUE
  /\ callerPc' = [callerPc EXCEPT ![c] = "setCallback"]
  /\ UNCHANGED <<updatePc, reqQueue, sendRtn, server, back, reqSent, recvRtn,
                 results, drained, cb, service>>

(***************************************************************************)
(* ReqRes.SetCallback.  It would run the callback at once if the ReqRes     *)
(* were done, but nothing in this client calls SetDone.                     *)
(***************************************************************************)
SetCallback(c) ==
  /\ callerPc[c] = "setCallback"
  /\ cb' = cb \cup {c}
  /\ callerPc' = [callerPc EXCEPT ![c] = "done"]
  /\ UNCHANGED <<updatePc, reqQueue, timer, sendRtn, server, back, reqSent,
                 recvRtn, results, drained, service>>

(***************************************************************************)
(* Update: FlushSync is a flush request, Unset of the timer, a check of     *)
(* cli.err, a wait for the WaitGroup and a last check of cli.err.           *)
(***************************************************************************)
UpdateLock ==
  /\ updatePc = "start"
  /\ WriteLockFree
  /\ updatePc' = "queueFlush"
  /\ UNCHANGED <<callerPc, reqQueue, timer, sendRtn, server, back, reqSent,
                 recvRtn, results, drained, cb, service>>

UpdateQueue(from, r, to) ==
  /\ updatePc = from
  /\ Enqueue(r)
  /\ updatePc' = to
  /\ UNCHANGED <<callerPc, timer, sendRtn, server, back, reqSent, recvRtn,
                 results, drained, cb, service>>

UpdateTimer(from, set, to) ==
  /\ updatePc = from
  /\ timer' = set
  /\ updatePc' = to
  /\ UNCHANGED <<callerPc, reqQueue, sendRtn, server, back, reqSent, recvRtn,
                 results, drained, cb, service>>

FlushSyncCheck ==
  /\ updatePc = "checkErr"
  /\ updatePc' = IF err THEN "failed" ELSE "wait"
  /\ UNCHANGED <<callerPc, reqQueue, timer, sendRtn, server, back, reqSent,
                 recvRtn, results, drained, cb, service>>

(***************************************************************************)
(* Mutant: FlushSync returns without waiting.                               *)
(***************************************************************************)
FlushSyncNoWait ==
  /\ updatePc = "wait"
  /\ updatePc' = IF err THEN "failed" ELSE "returned"
  /\ UNCHANGED <<callerPc, reqQueue, timer, sendRtn, server, back, reqSent,
                 recvRtn, results, drained, cb, service>>

FlushSyncReturn ==
  /\ updatePc = "wait"
  /\ "flushSync" \in resolved
  /\ updatePc' = IF err THEN "failed" ELSE "returned"
  /\ UNCHANGED <<callerPc, reqQueue, timer, sendRtn, server, back, reqSent,
                 recvRtn, results, drained, cb, service>>

(***************************************************************************)
(* After FlushSync: recheckTxs is CheckTxAsync and FlushAsync.              *)
(***************************************************************************)
Update ==
  \/ UpdateLock
  \/ UpdateQueue("queueFlush", "flushSync", "unset")
  \/ UpdateTimer("unset", FALSE, "checkErr")
  \/ FlushSyncCheck
  \/ FlushSyncReturn
  \/ UpdateQueue("returned", "recheck", "arm")
  \/ UpdateTimer("arm", TRUE, "queueAsync")
  \/ UpdateQueue("queueAsync", "flushAsync", "unsetAsync")
  \/ UpdateTimer("unsetAsync", FALSE, "done")

-----------------------------------------------------------------------------
(***************************************************************************)
(* sendRequestsRoutine.                                                     *)
(***************************************************************************)
TakeRequest ==
  /\ sendPc = "select"
  /\ reqQueue # <<>>
  /\ taken' = Head(reqQueue)
  /\ reqQueue' = Tail(reqQueue)
  /\ sendPc' = "willSend"
  /\ UNCHANGED <<callers, timer, wbuf, server, back, reqSent, recvRtn, results,
                 drained, cb, service>>

(***************************************************************************)
(* fireRoutine of the throttle timer: its send on the unbuffered channel    *)
(* succeeds only when the send routine is parked in its select, which it is *)
(* only while reqQueue is empty; otherwise the timer is reset and fires     *)
(* again.                                                                   *)
(***************************************************************************)
TimerFires ==
  /\ timer /\ ~ stopped
  /\ sendPc = "select" /\ reqQueue = <<>>
  /\ timer' = FALSE
  /\ sendPc' = "flushTimer"
  /\ UNCHANGED <<callers, reqQueue, taken, wbuf, server, back, reqSent, recvRtn,
                 results, drained, cb, service>>

(***************************************************************************)
(* The send of a flush request to itself is dropped when the queue is full. *)
(***************************************************************************)
QueueTimerFlush ==
  /\ sendPc = "flushTimer"
  /\ \/ Enqueue("timerFlush")
     \/ Len(reqQueue) = QueueSize /\ UNCHANGED reqQueue
  /\ sendPc' = "select"
  /\ UNCHANGED <<callers, timer, taken, wbuf, server, back, reqSent, recvRtn,
                 results, drained, cb, service>>

(***************************************************************************)
(* Mutant: reqSent is used as a stack.                                      *)
(***************************************************************************)
WillSendReqFront ==
  /\ sendPc = "willSend"
  /\ reqSent' = <<taken>> \o reqSent
  /\ sendPc' = "write"
  /\ UNCHANGED <<callers, reqQueue, timer, taken, wbuf, server, back, recvRtn,
                 results, drained, cb, service>>

WillSendReq ==
  /\ sendPc = "willSend"
  /\ reqSent' = Append(reqSent, taken)
  /\ sendPc' = "write"
  /\ UNCHANGED <<callers, reqQueue, timer, taken, wbuf, server, back, recvRtn,
                 results, drained, cb, service>>

(***************************************************************************)
(* WriteMessage fills the buffer; a flush request, or a full buffer, sends  *)
(* it, and that fails on a connection that is not open.                     *)
(***************************************************************************)
WriteBuffered ==
  /\ sendPc = "write"
  /\ taken \notin Flushes
  /\ wbuf' = Append(wbuf, taken)
  /\ taken' = "none"
  /\ sendPc' = "select"
  /\ UNCHANGED <<callers, reqQueue, timer, server, back, reqSent, recvRtn,
                 results, drained, cb, service>>

WriteThrough ==
  /\ sendPc = "write"
  /\ IF conn = "open"
     THEN /\ wire' = Append(wire \o wbuf, taken)
          /\ wbuf' = <<>>
          /\ sendPc' = "select"
     ELSE /\ sendPc' = "stopErr"
          /\ UNCHANGED <<wire, wbuf>>
  /\ taken' = "none"
  /\ UNCHANGED <<callers, reqQueue, timer, sbuf, back, reqSent, recvRtn,
                 results, drained, cb, service>>

SendQuits ==
  /\ sendPc = "select"
  /\ quit
  /\ sendPc' = "gone"
  /\ UNCHANGED <<callers, reqQueue, timer, taken, wbuf, server, back, reqSent,
                 recvRtn, results, drained, cb, service>>

-----------------------------------------------------------------------------
(***************************************************************************)
(* The server: handleRequests and handleResponses answer in order; the      *)
(* response to a flush, or a full buffer, sends what is buffered.           *)
(***************************************************************************)
ServerHandle ==
  /\ conn = "open"
  /\ wire # <<>>
  /\ wire' = Tail(wire)
  /\ \/ /\ Head(wire) \notin Flushes
        /\ sbuf' = Append(sbuf, Head(wire))
        /\ UNCHANGED back
     \/ /\ sbuf' = <<>>
        /\ back' = Append(back \o sbuf, Head(wire))
  /\ UNCHANGED <<callers, reqQueue, timer, sendRtn, reqSent, recvRtn, results,
                 drained, cb, service>>

(***************************************************************************)
(* The connection breaks: what is on its way to the server is lost.         *)
(***************************************************************************)
ConnectionBreaks ==
  /\ fault = "break"
  /\ conn = "open"
  /\ conn' = "broken"
  /\ UNCHANGED <<callers, reqQueue, timer, sendRtn, server, back, reqSent,
                 recvRtn, results, drained, cb, err, stopped, quit, userPc,
                 fault, panicked>>

-----------------------------------------------------------------------------
(***************************************************************************)
(* recvResponseRoutine.  Responses already read into the client's buffer    *)
(* can be taken from it even when the connection is gone.                   *)
(***************************************************************************)
ReadResponse ==
  /\ recvPc = "read"
  /\ back # <<>>
  /\ recvd' = Head(back)
  /\ back' = Tail(back)
  /\ recvPc' = "deliver"
  /\ UNCHANGED <<callers, reqQueue, timer, sendRtn, server, reqSent, results,
                 drained, cb, service>>

ReadFails ==
  /\ recvPc = "read"
  /\ conn # "open"
  /\ recvPc' = "stopErr"
  /\ UNCHANGED <<callers, reqQueue, timer, sendRtn, server, back, reqSent, recvd,
                 results, drained, cb, service>>

(***************************************************************************)
(* didRecvResponse, under cli.mtx: the response goes to the first request   *)
(* of reqSent, whose waiters are released; then the global callback and the *)
(* request's own callback, if it is set, run.  Releasing a WaitGroup that   *)
(* flushQueue has released panics.                                          *)
(***************************************************************************)
DidRecvResponse ==
  /\ recvPc = "deliver"
  /\ recvd' = "none"
  /\ LET r == Head(reqSent)
     IN  \/ /\ reqSent = <<>>
            /\ recvPc' = "stopErr"
            /\ UNCHANGED <<reqSent, results, drained, panicked>>
         \/ /\ reqSent # <<>> /\ drained > 0
            /\ panicked' = TRUE
            /\ recvPc' = "gone"
            /\ UNCHANGED <<reqSent, results, drained>>
         \/ /\ reqSent # <<>> /\ drained = 0
            /\ reqSent' = Tail(reqSent)
            /\ resolved' = resolved \cup {r}
            /\ delivered' = delivered \cup {r}
            /\ mismatch' = (mismatch \/ r # recvd)
            /\ recvPc' = "read"
            /\ UNCHANGED <<drained, panicked>>
  /\ UNCHANGED <<callers, reqQueue, timer, sendRtn, server, back, cb, conn, err,
                 stopped, quit, userPc, fault>>

-----------------------------------------------------------------------------
(***************************************************************************)
(* stopForError and BaseService.Stop, run by a routine or by the user.      *)
(* "from" and "to" are the places of whoever runs it.                       *)
(***************************************************************************)
StopForError(from, to) ==
  /\ from = "stopErr"
  /\ err' = (err \/ ~ stopped)
  /\ to = IF stopped THEN "gone" ELSE "stopClose"
  /\ UNCHANGED <<conn, stopped, quit, reqQueue, resolved, drained, timer>>

StopClose(from, to) ==
  /\ from = "stopClose"
  /\ to = IF stopped THEN "gone" ELSE "stopFlush"
  /\ stopped' = TRUE
  /\ conn' = IF stopped THEN conn ELSE "closed"
  /\ UNCHANGED <<err, quit, reqQueue, resolved, drained, timer>>

(***************************************************************************)
(* flushQueue, under cli.mtx: everything in reqSent and in reqQueue is      *)
(* released; reqSent keeps its elements.                                    *)
(***************************************************************************)
FlushQueue(from, to) ==
  /\ from = "stopFlush"
  /\ to = "stopQuit"
  /\ resolved' = resolved \cup Range(reqSent) \cup Range(reqQueue)
  /\ drained' = Len(reqSent)
  /\ reqQueue' = <<>>
  /\ UNCHANGED <<err, conn, stopped, quit, timer>>

StopQuit(from, to) ==
  /\ from = "stopQuit"
  /\ to = "gone"
  /\ timer' = FALSE
  /\ quit' = TRUE
  /\ UNCHANGED <<err, conn, stopped, reqQueue, resolved, drained>>

Stopping(from, to) ==
  /\ \/ StopForError(from, to)
     \/ StopClose(from, to)
     \/ FlushQueue(from, to)
     \/ StopQuit(from, to)
  /\ UNCHANGED <<callers, taken, wbuf, server, back, reqSent, recvd, delivered,
                 mismatch, cb, fault, panicked>>

SendStops == Stopping(sendPc, sendPc') /\ UNCHANGED <<recvPc, userPc>>
RecvStops == Stopping(recvPc, recvPc') /\ UNCHANGED <<sendPc, userPc>>
UserStops == Stopping(userPc, userPc') /\ UNCHANGED <<sendPc, recvPc>>

UserCallsStop ==
  /\ fault = "stop"
  /\ userPc = "idle"
  /\ userPc' = "stopClose"
  /\ UNCHANGED <<callers, reqQueue, timer, sendRtn, server, back, reqSent,
                 recvRtn, results, drained, cb, conn, err, stopped, quit, fault, panicked>>

-----------------------------------------------------------------------------
Caller(c) ==
  /\ ~ panicked
  /\ CheckTxStart(c) \/ QueueRequest(c) \/ ArmTimer(c) \/ SetCallback(c)

Updater == ~ panicked /\ Update

Send ==
  /\ ~ panicked
  /\ \/ TakeRequest
     \/ QueueTimerFlush
     \/ WillSendReq
     \/ WriteBuffered
     \/ WriteThrough
     \/ SendQuits
     \/ SendStops

Timer == ~ panicked /\ TimerFires

Server == ~ panicked /\ ServerHandle

Network == ~ panicked /\ ConnectionBreaks

Recv ==
  /\ ~ panicked
  /\ \/ ReadResponse
     \/ ReadFails
     \/ DidRecvResponse
     \/ RecvStops

User == ~ panicked /\ (UserCallsStop \/ UserStops)

Next ==
  \/ \E c \in Callers : Caller(c)
  \/ Updater
  \/ Send
  \/ Timer
  \/ Server
  \/ Network
  \/ Recv
  \/ User

Spec == Init /\ [][Next]_vars

(***************************************************************************)
(* Goroutines are scheduled, timers fire and the server answers.  Nothing   *)
(* makes the connection break or the user call Stop.  The timer is retried  *)
(* every flush interval, so it gets in whenever the send routine keeps      *)
(* coming back to its select.                                               *)
(***************************************************************************)
Fairness ==
  /\ \A c \in Callers : WF_vars(Caller(c))
  /\ WF_vars(Updater)
  /\ WF_vars(Send)
  /\ SF_vars(Timer)
  /\ WF_vars(Server)
  /\ WF_vars(Recv)
  /\ WF_vars(~ panicked /\ UserStops)
-----------------------------------------------------------------------------
(***************************************************************************)
(* Properties.                                                              *)
(***************************************************************************)
Queued(c) == callerPc[c] \in {"arm", "setCallback"} \/ c \in cb

(***************************************************************************)
(* What the mempool takes FlushAppConn for: once FlushSync has returned     *)
(* without an error, every CheckTx queued before has had its response       *)
(* delivered to the global callback, so none comes back during Update.  It  *)
(* holds on a connection that breaks, as long as nobody calls Stop.         *)
(***************************************************************************)
FlushBarrier ==
  /\ userPc = "idle"
  /\ updatePc \in {"returned", "arm", "queueAsync", "unsetAsync"}
  => cb \subseteq delivered

(***************************************************************************)
(* Responses carry no request identifier: the order of reqSent alone gives  *)
(* each request its own response, although the two routines, the callers    *)
(* and a stopping client interleave.                                        *)
(***************************************************************************)
OwnResponse == ~ mismatch

(***************************************************************************)
(* With the flush timer, every queued CheckTx is answered without anybody   *)
(* asking for a flush, while the connection stands: no race of Set, Unset   *)
(* and the timer's own flush leaves a request in the buffered writer for    *)
(* good.                                                                    *)
(***************************************************************************)
EventuallyAnswered ==
  \A c \in Callers : Queued(c) ~> c \in delivered \/ conn # "open"

=============================================================================

---------------------------- MODULE MConnection ----------------------------
(***************************************************************************)
(* A multiplexed connection between two peers (p2p/conn/connection.go):    *)
(* messages queued on several channels are cut into packets by             *)
(* sendRoutine, written through a buffer that a throttled timer flushes,   *)
(* and put together again by the recvRoutine of the other side.            *)
(*                                                                         *)
(* One direction is modelled.  A message is its number, its channel and    *)
(* how many packets it takes.  Which of the channels with something to     *)
(* send goes next, by what each has sent recently, is any of them.  Pings, *)
(* pongs, statistics and the limit on the rate are left out.               *)
(***************************************************************************)
EXTENDS Integers, Sequences, FiniteSets, SequencesExt

CONSTANTS
  Messages, ChannelOf(_), PacketsOf(_),
  Channels,
  QueueCap,       \* SendQueueCapacity
  Batch,          \* numBatchPacketMsgs
  NoMessage

VARIABLES
  caller,       \* Send of each message: "idle", "queued" (not yet signalled), "sent", "failed"
  queue,        \* sendQueue of every channel
  sending,      \* what is left of the message each channel is sending: [msg, left]
  signal,       \* the send channel holds a signal
  routine,      \* sendRoutine: "select", "batch", "done"
  batch,        \* packets the current batch may still send
  buffer,       \* bufConnWriter
  timer,        \* flushTimer is set
  wire,         \* packets on the connection
  recving,      \* packets of the message each channel is receiving
  received,     \* messages passed to onReceive, by channel
  running,      \* the service is running
  stop,         \* "no", "flushing" (FlushStop), "closed"
  accepted,     \* history: messages queued, by channel
  promised      \* history: messages whose Send had returned when FlushStop was called

connVars == <<caller, queue, sending, signal, routine, batch, buffer, timer, wire, recving, received,
          running, stop, accepted, promised>>
Nothing == [msg |-> NoMessage, left |-> 0]

ConnInit ==
  /\ caller = [m \in Messages |-> "idle"]
  /\ queue = [ch \in Channels |-> <<>>] /\ sending = [ch \in Channels |-> Nothing]
  /\ signal = FALSE /\ routine = "select" /\ batch = 0
  /\ buffer = <<>> /\ timer = FALSE /\ wire = <<>>
  /\ recving = [ch \in Channels |-> <<>>] /\ received = [ch \in Channels |-> <<>>]
  /\ running = TRUE /\ stop = "no"
  /\ accepted = [ch \in Channels |-> <<>>] /\ promised = {}

----------------------------------------------------------------------------
(* Send and TrySend: queue the message, then wake up sendRoutine *)

Queue(m) ==
  /\ caller[m] = "idle" /\ running /\ Len(queue[ChannelOf(m)]) < QueueCap
  /\ queue' = [queue EXCEPT ![ChannelOf(m)] = Append(@, m)]
  /\ accepted' = [accepted EXCEPT ![ChannelOf(m)] = Append(@, m)]
  /\ caller' = [caller EXCEPT ![m] = "queued"]
  /\ UNCHANGED <<sending, signal, routine, batch, buffer, timer, wire, recving, received, running, stop, promised>>

\* the queue is full: at once for TrySend, after a time for Send
Fail(m) ==
  /\ caller[m] = "idle" /\ running /\ Len(queue[ChannelOf(m)]) = QueueCap
  /\ caller' = [caller EXCEPT ![m] = "failed"]
  /\ UNCHANGED <<queue, sending, signal, routine, batch, buffer, timer, wire, recving, received, running, stop,
                 accepted, promised>>

Signal(m) ==
  /\ caller[m] = "queued"
  /\ signal' = TRUE
  /\ caller' = [caller EXCEPT ![m] = "sent"]
  /\ UNCHANGED <<queue, sending, routine, batch, buffer, timer, wire, recving, received, running, stop,
                 accepted, promised>>

----------------------------------------------------------------------------
(* sendRoutine *)

TakeSignal ==
  /\ routine = "select" /\ signal /\ stop # "closed"
  /\ signal' = FALSE /\ routine' = "batch" /\ batch' = Batch
  /\ UNCHANGED <<caller, queue, sending, buffer, timer, wire, recving, received, running, stop, accepted, promised>>

\* isSendPending, of every channel, takes the next message of the queue
Pending(ch) == sending[ch] # Nothing \/ queue[ch] # <<>>
Loaded(ch) == IF sending[ch] # Nothing THEN sending[ch]
              ELSE [msg |-> Head(queue[ch]), left |-> PacketsOf(Head(queue[ch]))]

\* sendPacketMsg: a packet of one of the channels that have something to send
SendPacketMsg ==
  \E ch \in Channels :
    /\ Pending(ch)
    /\ LET cur == Loaded(ch)
           packet == [ch |-> ch, msg |-> cur.msg, eof |-> cur.left = 1]
       IN  /\ buffer' = Append(buffer, packet)
           /\ sending' = [c \in Channels |->
                CASE c = ch /\ cur.left = 1 -> Nothing
                  [] c = ch /\ cur.left > 1 -> [cur EXCEPT !.left = @ - 1]
                  [] c # ch /\ Pending(c) -> Loaded(c)
                  [] c # ch /\ ~Pending(c) -> Nothing]
    /\ queue' = [c \in Channels |-> IF sending[c] = Nothing /\ queue[c] # <<>> THEN Tail(queue[c]) ELSE queue[c]]
    /\ timer' = TRUE

(***************************************************************************)
(* Mutant: sendRoutine does not keep itself awake after a full batch.      *)
(***************************************************************************)
AwakeNever(eof) == FALSE

Awake(eof) == ~eof

SendSomePacketMsgs ==
  /\ routine = "batch" /\ stop # "closed"
  /\ \/ /\ batch > 0 /\ SendPacketMsg
        /\ batch' = batch - 1
        /\ UNCHANGED <<signal, routine>>
     \/ /\ batch = 0 \/ ~\E ch \in Channels : Pending(ch)
        /\ signal' = (signal \/ Awake(batch > 0))
        /\ routine' = "select"
        /\ UNCHANGED <<queue, sending, buffer, timer, batch>>
  /\ UNCHANGED <<caller, wire, recving, received, running, stop, accepted, promised>>

Flush ==
  /\ routine = "select" /\ timer /\ stop = "no"
  /\ wire' = wire \o buffer /\ buffer' = <<>> /\ timer' = FALSE
  /\ UNCHANGED <<caller, queue, sending, signal, routine, batch, recving, received, running, stop, accepted, promised>>

----------------------------------------------------------------------------
(* recvRoutine of the other side *)

Receive ==
  /\ wire # <<>>
  /\ wire' = Tail(wire)
  /\ LET packet == Head(wire)
         ch == packet.ch
         all == Append(recving[ch], packet.msg)
     IN  /\ recving' = [recving EXCEPT ![ch] = IF packet.eof THEN <<>> ELSE all]
         /\ received' = IF packet.eof THEN [received EXCEPT ![ch] = Append(@, all)] ELSE received
  /\ UNCHANGED <<caller, queue, sending, signal, routine, batch, buffer, timer, running, stop, accepted, promised>>

----------------------------------------------------------------------------
(* Stopping *)

\* Stop, for an error or by the node; after FlushStop, OnStop finds the services stopped
Stop ==
  /\ running /\ running' = FALSE
  /\ IF stop = "no" THEN stop' = "closed" /\ buffer' = <<>> ELSE UNCHANGED <<stop, buffer>>
  /\ UNCHANGED <<caller, queue, sending, signal, routine, batch, timer, wire, recving, received,
                 accepted, promised>>

\* stopServices: quitSendRoutine is closed; the service itself still counts as running
FlushStop ==
  /\ stop = "no" /\ stop' = "flushing"
  /\ promised' = {m \in Messages : caller[m] = "sent"}
  /\ UNCHANGED <<caller, queue, sending, signal, routine, batch, buffer, timer, wire, recving, received,
                 running, accepted>>

QuitSendRoutine ==
  /\ stop = "flushing" /\ routine = "select"
  /\ routine' = "done" /\ batch' = 0
  /\ UNCHANGED <<caller, queue, sending, signal, buffer, timer, wire, recving, received, running, stop,
                 accepted, promised>>

(***************************************************************************)
(* Mutant: FlushStop sends what is being sent and leaves the queues.       *)
(***************************************************************************)
DrainedSending == \A ch \in Channels : sending[ch] = Nothing

Drained == ~\E ch \in Channels : Pending(ch)

\* FlushStop, once sendRoutine is done: sendSomePacketMsgs until nothing is left, flush, close
Drain ==
  /\ stop = "flushing" /\ routine = "done"
  /\ \/ ~Drained /\ SendPacketMsg /\ UNCHANGED <<wire, stop>>
     \/ /\ Drained
        /\ wire' = wire \o buffer /\ buffer' = <<>> /\ stop' = "closed"
        /\ UNCHANGED <<queue, sending, timer>>
  /\ UNCHANGED <<caller, signal, routine, batch, recving, received, running, accepted, promised>>

ConnNext ==
  \/ \E m \in Messages : Queue(m) \/ Fail(m) \/ Signal(m)
  \/ TakeSignal \/ SendSomePacketMsgs \/ Flush \/ Receive
  \/ Stop \/ FlushStop \/ QuitSendRoutine \/ Drain

ConnSpec == ConnInit /\ [][ConnNext]_connVars

----------------------------------------------------------------------------
Whole(m) == [i \in 1 .. PacketsOf(m) |-> m]

(***************************************************************************)
(* On every channel the messages arrive whole and in the order in which    *)
(* they were queued, none lost in between, with packets of other channels  *)
(* between theirs; and FlushStop delivers every message whose Send had     *)
(* returned: none of it is left behind when the connection is closed.      *)
(***************************************************************************)
InOrderAndFlushed ==
  /\ \A ch \in Channels :
       IsPrefix(received[ch], [i \in DOMAIN accepted[ch] |-> Whole(accepted[ch][i])])
  /\ stop = "closed" /\ wire = <<>> =>
       \A m \in promised : \E i \in DOMAIN received[ChannelOf(m)] : received[ChannelOf(m)][i] = Whole(m)

(***************************************************************************)
(* No wake-up of sendRoutine is lost: while a message waits, in a queue or *)
(* half sent, a signal is there, or sendRoutine is at work and looks again *)
(* before it sleeps, or the caller has yet to signal; and nothing stays in *)
(* the buffer without the flush timer.                                     *)
(***************************************************************************)
NoLostWakeUp ==
  stop = "no" =>
    /\ (\E ch \in Channels : Pending(ch)) =>
         signal \/ routine = "batch" \/ \E m \in Messages : caller[m] = "queued"
    /\ buffer # <<>> => timer
=============================================================================

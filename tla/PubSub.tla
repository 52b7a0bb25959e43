------------------------------- MODULE PubSub -------------------------------
(***************************************************************************)
(* The publish-subscribe server behind the event bus                       *)
(* (libs/pubsub/pubsub.go and subscription.go): clients subscribe and      *)
(* unsubscribe, events are published, and one goroutine handles the        *)
(* commands of all of them in the order of a channel.                      *)
(*                                                                         *)
(* A client makes one call at a time.  A call first looks at the record of *)
(* who has subscribed, under the lock; sends its command; and then, under  *)
(* the lock again, changes the record: the server may have handled the     *)
(* command before.  An event is its number and the queries it matches.     *)
(***************************************************************************)
EXTENDS Integers, Sequences, FiniteSets, SequencesExt

CONSTANTS
  Clients, Queries,
  CmdsCap,        \* BufferCapacity of the server
  OutCap,         \* capacity of a subscription's channel
  MaxCmds,        \* bound: commands sent
  NoQuery, All       \* no query; every query of a client

VARIABLES
  known,     \* Server.subscriptions: the queries each client has subscribed to
  cmds,      \* Server.cmds
  active,    \* state.subscriptions: query and client -> subscription
  refs,      \* state.queries: reference counts
  subs,      \* all subscriptions made: [client, query, out, got, canceled]
  call,      \* what every client has sent and not yet recorded
  server,    \* "running", "stopping" or "stopped"
  sent,      \* commands sent so far
  log        \* history: the commands handled

pubSubVars == <<known, cmds, active, refs, subs, call, server, sent, log>>
Pairs == Queries \X Clients
NoCall == [op |-> "none", query |-> NoQuery]

PubSubInit ==
  /\ known = [c \in Clients |-> {}]
  /\ cmds = <<>> /\ subs = <<>> /\ log = <<>> /\ sent = 0 /\ server = "running"
  /\ active = [p \in Pairs |-> 0]         \* 0: none
  /\ refs = [q \in Queries |-> 0]
  /\ call = [c \in Clients |-> NoCall]

----------------------------------------------------------------------------
(* The callers *)

MaySend == sent < MaxCmds /\ Len(cmds) < CmdsCap /\ server # "stopped"

SendCmd(cmd) == cmds' = Append(cmds, cmd) /\ sent' = sent + 1

Subscribe(c, q) ==
  /\ call[c] = NoCall /\ q \notin known[c] /\ MaySend
  /\ subs' = Append(subs, [client |-> c, query |-> q, out |-> <<>>, got |-> <<>>, canceled |-> "no"])
  /\ SendCmd([op |-> "sub", client |-> c, query |-> q, sub |-> Len(subs) + 1, matches |-> {}])
  /\ call' = [call EXCEPT ![c] = [op |-> "sub", query |-> q]]
  /\ UNCHANGED <<known, active, refs, server, log>>

Unsubscribe(c, q) ==
  /\ call[c] = NoCall /\ q \in known[c] /\ MaySend
  /\ SendCmd([op |-> "unsub", client |-> c, query |-> q, sub |-> 0, matches |-> {}])
  /\ call' = [call EXCEPT ![c] = [op |-> "unsub", query |-> q]]
  /\ UNCHANGED <<known, active, refs, subs, server, log>>

UnsubscribeAll(c) ==
  /\ call[c] = NoCall /\ known[c] # {} /\ MaySend
  /\ SendCmd([op |-> "unsub", client |-> c, query |-> All, sub |-> 0, matches |-> {}])
  /\ call' = [call EXCEPT ![c] = [op |-> "unsub", query |-> All]]
  /\ UNCHANGED <<known, active, refs, subs, server, log>>

\* the second half of the calls
Record(c) ==
  /\ call[c] # NoCall
  /\ known' = [known EXCEPT ![c] = CASE call[c].op = "sub" -> @ \cup {call[c].query}
                                     [] call[c].op = "unsub" /\ call[c].query = All -> {}
                                     [] call[c].op = "unsub" /\ call[c].query # All -> @ \ {call[c].query}]
  /\ call' = [call EXCEPT ![c] = NoCall]
  /\ UNCHANGED <<cmds, active, refs, subs, server, sent, log>>

PublishWithEvents(qs) ==
  /\ MaySend
  /\ SendCmd([op |-> "pub", client |-> NoQuery, query |-> NoQuery, sub |-> sent + 1, matches |-> qs])
  /\ UNCHANGED <<known, active, refs, subs, call, server, log>>

OnStop ==
  /\ server = "running" /\ Len(cmds) < CmdsCap
  /\ cmds' = Append(cmds, [op |-> "shutdown", client |-> NoQuery, query |-> NoQuery, sub |-> 0, matches |-> {}])
  /\ server' = "stopping"
  /\ UNCHANGED <<known, active, refs, subs, call, sent, log>>

\* a subscriber takes a message of its channel
Take(i) ==
  /\ subs[i].out # <<>>
  /\ subs' = [subs EXCEPT ![i].got = Append(@, Head(subs[i].out)), ![i].out = Tail(@)]
  /\ UNCHANGED <<known, cmds, active, refs, call, server, sent, log>>

----------------------------------------------------------------------------
(* Server.loop *)

\* state.remove for the pairs in ps, with the given reason
RemoveSubs(ps, reason) ==
  LET gone == {p \in ps : active[p] # 0}
  IN  /\ active' = [p \in Pairs |-> IF p \in gone THEN 0 ELSE active[p]]
      /\ refs' = [q \in Queries |-> refs[q] - Cardinality({p \in gone : p[1] = q})]
      /\ subs' = [i \in DOMAIN subs |-> IF \E p \in gone : active[p] = i
                                        THEN [subs[i] EXCEPT !.canceled = reason] ELSE subs[i]]

Unsub(cmd) ==
  /\ cmd.op = "unsub"
  /\ RemoveSubs({p \in Pairs : p[2] = cmd.client /\ cmd.query \in {All, p[1]}}, "unsubscribed")
  /\ UNCHANGED server

Shutdown(cmd) ==
  /\ cmd.op = "shutdown"
  /\ RemoveSubs(Pairs, "nil")
  /\ server' = "stopped"

Add(cmd) ==
  /\ cmd.op = "sub"
  /\ active' = [active EXCEPT ![<<cmd.query, cmd.client>>] = cmd.sub]
  /\ refs' = [refs EXCEPT ![cmd.query] = @ + 1]
  /\ UNCHANGED <<subs, server>>

(***************************************************************************)
(* Mutant: a message is dropped when the channel of a subscription is      *)
(* full, and the subscription goes on.                                     *)
(***************************************************************************)
SendDropping(cmd) ==
  /\ cmd.op = "pub"
  /\ LET to == {p \in Pairs : active[p] # 0 /\ p[1] \in cmd.matches /\ Len(subs[active[p]].out) < OutCap}
     IN  subs' = [i \in DOMAIN subs |-> IF \E p \in to : active[p] = i
                                        THEN [subs[i] EXCEPT !.out = Append(@, cmd.sub)] ELSE subs[i]]
  /\ UNCHANGED <<active, refs, server>>

\* the subscriptions whose channel is full are removed
Send(cmd) ==
  /\ cmd.op = "pub"
  /\ LET to == {p \in Pairs : active[p] # 0 /\ p[1] \in cmd.matches}
         full == {p \in to : Len(subs[active[p]].out) = OutCap}
     IN  /\ active' = [p \in Pairs |-> IF p \in full THEN 0 ELSE active[p]]
         /\ refs' = [q \in Queries |-> refs[q] - Cardinality({p \in full : p[1] = q})]
         /\ subs' = [i \in DOMAIN subs |->
                       CASE \E p \in full : active[p] = i -> [subs[i] EXCEPT !.canceled = "outOfCapacity"]
                         [] \E p \in to \ full : active[p] = i -> [subs[i] EXCEPT !.out = Append(@, cmd.sub)]
                         [] ~\E p \in to : active[p] = i -> subs[i]]
  /\ UNCHANGED server

Handle ==
  /\ cmds # <<>> /\ server # "stopped"
  /\ LET cmd == Head(cmds)
     IN  Unsub(cmd) \/ Shutdown(cmd) \/ Add(cmd) \/ Send(cmd)
  /\ cmds' = Tail(cmds) /\ log' = Append(log, Head(cmds))
  /\ UNCHANGED <<known, call, sent>>

PubSubNext ==
  \/ \E c \in Clients : \/ \E q \in Queries : Subscribe(c, q) \/ Unsubscribe(c, q)
                        \/ UnsubscribeAll(c) \/ Record(c)
  \/ \E qs \in (SUBSET Queries) \ {{}} : PublishWithEvents(qs)
  \/ \E i \in DOMAIN subs : Take(i)
  \/ OnStop \/ Handle

PubSubSpec == PubSubInit /\ [][PubSubNext]_pubSubVars

----------------------------------------------------------------------------
\* the events a subscription is due, by the order of the commands alone
Ends(cmd, s) ==
  \/ cmd.op = "unsub" /\ cmd.client = s.client /\ cmd.query \in {All, s.query}
  \/ cmd.op = "shutdown"
Due(i) ==
  LET s == subs[i]
      from == CHOOSE k \in DOMAIN log : log[k].op = "sub" /\ log[k].sub = i
      wanted == {k \in DOMAIN log : /\ k > from /\ log[k].op = "pub" /\ s.query \in log[k].matches
                                    /\ ~\E j \in from .. k : Ends(log[j], s)}
  IN  [n \in 1 .. Cardinality(wanted) |->
         log[CHOOSE k \in wanted : Cardinality({j \in wanted : j <= k}) = n].sub]

(***************************************************************************)
(* A subscriber sees every event that matches its query, in order and      *)
(* without a gap, from its subscription to its end; and a subscription     *)
(* that could not keep up is told so: until it is cancelled it has all it  *)
(* is due, and what it has when it is cancelled is a beginning of it.      *)
(***************************************************************************)
NoGap ==
  \A i \in DOMAIN subs : (\E k \in DOMAIN log : log[k].op = "sub" /\ log[k].sub = i) =>
    LET has == subs[i].got \o subs[i].out
    IN  IF subs[i].canceled \in {"no", "unsubscribed", "nil"} THEN has = Due(i) ELSE IsStrictPrefix(has, Due(i))
=============================================================================

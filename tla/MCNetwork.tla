------------------------------ MODULE MCNetwork -----------------------------
(***************************************************************************)
(* What the node does with its peers and clients, for TLC: the peer set of *)
(* the switch (two IDs, a limit of one inbound peer), a multiplexed        *)
(* connection (three messages of one or two packets, two channels with     *)
(* queues of one), the server of event subscriptions (two clients of one   *)
(* query), the syncer of state sync with its queue of chunks (two          *)
(* snapshots of two chunks from two peers) and the light client (one       *)
(* correct and two faulty providers).  The parts share no state: one runs  *)
(* and the others stay in an initial state.                                *)
(***************************************************************************)
EXTENDS Switch, MConnection, PubSub, StateSync, LightClient

CONSTANTS s1, s2, c1

VARIABLE part   \* the part that runs

MCMessages == 1 .. 3
MCChannelOf(m) == IF m <= 2 THEN "x" ELSE "y"
MCPacketsOf(m) == IF m \in {1, 3} THEN 2 ELSE 1
MCFormat == [s \in {s1, s2} |-> IF s = s1 THEN 2 ELSE 1]

MCInit ==
  /\ part \in {"switch", "connection", "pubsub", "state_sync", "light"}
  /\ Init /\ ConnInit /\ PubSubInit /\ SyncInit /\ LightInit
  /\ part # "light" =>
       primary = c1 /\ env = [mode |-> "sequential", fork |-> "badSigs", reach |-> 1]

MCNext ==
  /\ UNCHANGED part
  /\ \/ part = "switch" /\ Next /\ UNCHANGED <<connVars, pubSubVars, syncVars, lightVars>>
     \/ part = "connection" /\ ConnNext /\ UNCHANGED <<vars, pubSubVars, syncVars, lightVars>>
     \/ part = "pubsub" /\ PubSubNext /\ UNCHANGED <<vars, connVars, syncVars, lightVars>>
     \/ part = "state_sync" /\ SyncNext /\ UNCHANGED <<vars, connVars, pubSubVars, lightVars>>
     \/ part = "light" /\ LightNext /\ UNCHANGED <<vars, connVars, pubSubVars, syncVars>>

MCSpec == MCInit /\ [][MCNext]_<<part, vars, connVars, pubSubVars, syncVars, lightVars>>
=============================================================================

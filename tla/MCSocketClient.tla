--------------------------- MODULE MCSocketClient ---------------------------
(***************************************************************************)
(* An instance of SocketClient for TLC.  Two CheckTx calls and one Update   *)
(* make seven requests with the timer's.  With faults there is one CheckTx: *)
(* the timer's flushes and the Update's three requests already cross it.    *)
(***************************************************************************)
EXTENDS SocketClient

CONSTANTS c1, c2

MCCallers == {c1, c2}

(***************************************************************************)
(* Two CheckTx calls alone, or one and an Update with each of the faults.   *)
(***************************************************************************)
MCInit ==
  /\ Init
  /\ IF fault = "none"
     THEN updatePc = "done" /\ callerPc = [c \in Callers |-> "start"]
     ELSE updatePc = "start" /\ {c \in Callers : callerPc[c] = "start"} = {c1}

MCSpec == MCInit /\ [][Next]_vars /\ Fairness
=============================================================================

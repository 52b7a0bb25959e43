----------------------------- MODULE MCRecovery -----------------------------
(***************************************************************************)
(* Instances of Recovery for TLC.  Three blocks let the state, the store    *)
(* and the application be at three different heights.                       *)
(***************************************************************************)
EXTENDS Recovery

Kind(order, persists, hashes, prunes) ==
  [order |-> order, persists |-> persists, hashes |-> hashes, prunes |-> prunes]

AllKinds ==
  {Kind(o, p, h, r) : o \in {"node"}, p \in {TRUE}, h \in BOOLEAN, r \in BOOLEAN}
  \cup {Kind("node", FALSE, h, FALSE) : h \in BOOLEAN}
  \cup {Kind("vm", p, h, FALSE) : p \in BOOLEAN, h \in BOOLEAN}

(* A VM whose application keeps nothing and has no app hash.                *)
PlainVM == {Kind("vm", FALSE, FALSE, FALSE)}
=============================================================================

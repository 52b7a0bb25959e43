-------------------------- MODULE CorrectValidator ---------------------------
(***************************************************************************)
(* What one correct validator promises to the others in one height: it      *)
(* signs by the rules of VotingRules, whatever it hears, and decides a      *)
(* block only if it heard a commit for it.  The promise has no crash in it: *)
(* a validator that restarts is bound by what it said before.               *)
(***************************************************************************)
EXTENDS VotingRules

CONSTANTS Self,  \* the validator
          None   \* no decision

VARIABLES said,     \* votes it has signed
          heard,    \* votes it has received, its own included
          decision  \* the block it has decided, or None

Init ==
  /\ said = {}
  /\ heard = {}
  /\ decision = None

(***************************************************************************)
(* One step of the validator: votes come in, and it may sign several.  Each *)
(* is allowed given the ones before it.                                     *)
(***************************************************************************)
Signs ==
  /\ said \subseteq said'
  /\ \A w \in said' \ said :
       /\ w.val = Self
       /\ May(said \cup {x \in said' : Before(x, w)}, heard', w)

Decides ==
  \/ decision' = decision
  \/ decision = None /\ decision' \in Blocks /\ \E r \in Rounds : Commit(heard', r, decision')

Step ==
  /\ heard \subseteq heard'
  /\ Signs
  /\ Decides

Spec == Init /\ [][Step]_<<said, heard, decision>>
=============================================================================

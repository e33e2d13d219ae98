---------------------------- MODULE CommandRegister ----------------------------
(***************************************************************************)
(* What the owner may expect of the app's ARM and DISARM, without network, *)
(* polls, mailbox, acknowledgements or restarts: the hub comes to know the *)
(* commands in the order in which they were given, perhaps not all of      *)
(* them, what it applies is the newest it knows, and a command is shown as *)
(* pending until the newest one was applied.                               *)
(*                                                                         *)
(* A command is its number; applying the same one again changes nothing.   *)
(***************************************************************************)
EXTENDS Naturals

VARIABLES
  given,     \* commands given
  known,     \* the newest the hub has heard of, 0 for none
  applied,   \* the last command applied, 0 for none
  pending    \* a command is shown as pending

vars == <<given, known, applied, pending>>

Init == given = 0 /\ known = 0 /\ applied = 0 /\ pending = FALSE

Give == given' = given + 1 /\ pending' = TRUE /\ UNCHANGED <<known, applied>>

Learn == known' \in known + 1 .. given /\ UNCHANGED <<given, applied, pending>>

\* One given and never known, or known and replaced before its turn, is skipped.
Apply ==
  /\ applied # known
  /\ applied' = known
  /\ UNCHANGED <<given, known, pending>>

Forget ==
  /\ pending /\ applied = given
  /\ pending' = FALSE
  /\ UNCHANGED <<given, known, applied>>

Next == Give \/ Learn \/ Apply \/ Forget

Spec == Init /\ [][Next]_vars
=============================================================================

----------------------------- MODULE CallSequence -----------------------------
(***************************************************************************)
(* What the call escalation of alert_dispatch.c promises, without modem,   *)
(* clocks, mutexes or threads: the contacts of an alarm are dialled in     *)
(* order of priority, each up to ATTEMPTS times, with a pause after every  *)
(* unanswered attempt, until somebody answers, nobody is left, or the      *)
(* alarm is stopped.  A running sequence is never restarted.               *)
(***************************************************************************)
EXTENDS Naturals

CONSTANTS
  N,         \* AMTECH_ALERT_CONTACT_COUNT
  ATTEMPTS   \* ALERT_CALL_ATTEMPTS_PER_CONTACT

VARIABLES
  phase,     \* "idle", "calling", "pause", "answered" or "exhausted"
  left       \* attempts left for each contact slot

vars == <<phase, left>>

Slots   == 1 .. N
Running == phase \in {"calling", "pause"}

\* Dial the first contact of todo with an attempt left; an attempt that does
\* not even start counts as unanswered.
Dial(todo) ==
  \/ /\ \A c \in Slots : todo[c] = 0
     /\ left' = todo
     /\ phase' = "exhausted"
  \/ \E c \in Slots :
       /\ todo[c] > 0
       /\ \A d \in Slots : d < c => todo[d] = 0
       /\ left' = [todo EXCEPT ![c] = @ - 1]
       /\ phase' \in {"calling", "pause"}

Start ==
  /\ ~Running
  /\ \E contacts \in SUBSET Slots :
       Dial([c \in Slots |-> IF c \in contacts THEN ATTEMPTS ELSE 0])

Unanswered == phase = "calling" /\ phase' = "pause" /\ UNCHANGED left

Retry == phase = "pause" /\ Dial(left)

Answer == phase = "calling" /\ phase' = "answered" /\ UNCHANGED left

Cancel == phase' = "idle" /\ left' = [c \in Slots |-> 0]

Init == phase = "idle" /\ left = [c \in Slots |-> 0]

Next == Start \/ Unanswered \/ Retry \/ Answer \/ Cancel

Spec == Init /\ [][Next]_vars
=============================================================================

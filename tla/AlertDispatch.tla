---------------------------- MODULE AlertDispatch ----------------------------
(***************************************************************************)
(* The alert path of the hub: alert_dispatch.c, with the dispatch cooldown *)
(* of alarm_logic.c in front of it and the voice call of modem_hal.c       *)
(* behind it.                                                              *)
(*                                                                         *)
(* Four kinds of threads move.  MAIN triggers alarms, resets (STOP) and    *)
(* ticks; each of these passes through several critical sections and main  *)
(* stands between them.  The dispatch WORKER takes one request at a time   *)
(* and starts the call escalation.  Every dispatch starts an SMS FAN-OUT   *)
(* thread of its own.  The modem and the network answer as they like.      *)
(*                                                                         *)
(* One action is one critical section of escalation_mutex or               *)
(* dispatch_worker_mutex.  modem_hal_tick takes neither, so it is a step   *)
(* of its own; the modem calls made under escalation_mutex meet a modem    *)
(* tick only with the call already down, when the tick does nothing to it. *)
(***************************************************************************)
EXTENDS Naturals, FiniteSets

CONSTANTS
  N,                \* AMTECH_ALERT_CONTACT_COUNT
  ATTEMPTS,         \* ALERT_CALL_ATTEMPTS_PER_CONTACT
  ATTEMPT_TIMEOUT,  \* ALERT_CALL_ATTEMPT_TIMEOUT_MS, in time units
  ANSWER_CONFIRM,   \* ALERT_CALL_ANSWER_CONFIRM_MS
  RETRY_GAP,        \* AMTECH_CALL_RETRY_GAP_MS
  SUSPECT,          \* AMTECH_VOICEMAIL_SUSPECT_MS
  MAX_ELAPSED,      \* bound: longest loop pass considered
  MAX_REQUESTS,     \* bound: accepted dispatch requests
  MAX_RESETS        \* bound: resets

ASSUME DispatchAssumption ==
  /\ N \in Nat \ {0}
  /\ ATTEMPTS \in Nat \ {0}
  /\ ATTEMPT_TIMEOUT \in Nat \ {0}
  /\ ANSWER_CONFIRM \in Nat \ {0}
  /\ RETRY_GAP \in Nat \ {0}
  /\ SUSPECT \in Nat
  /\ MAX_ELAPSED \in Nat \ {0}
  /\ MAX_REQUESTS \in Nat
  /\ MAX_RESETS \in Nat

VARIABLES
  main,            \* where main stands: "idle" is anywhere else in its loop
  tick_elapsed,    \* elapsed_ms of the tick main is inside, else 0
  incident,        \* alarm_logic.c: incident_active
  sent,            \* alert_dispatch_sent_this_incident
  cooled,          \* alert_dispatch_elapsed_ms has reached its cooldown
  worker,          \* where the dispatch worker stands
  request,         \* the worker's request_generation, 0 between requests
  loaded,          \* the worker's local_contacts, {} between requests
  pending,         \* dispatch_worker_pending
  pending_generation,   \* dispatch_worker_generation, 0 when nothing is pending
  generation,      \* dispatch_reset_generation
  escalation_state,
  contacts,        \* escalation_contacts: the slots that are configured
  contact,         \* escalation_contact_index + 1
  attempt,         \* escalation_attempt
  attempt_elapsed, \* escalation_attempt_elapsed_ms
  active_elapsed,  \* escalation_active_elapsed_ms
  gap_elapsed,     \* escalation_retry_gap_elapsed_ms
  active_seen,     \* escalation_active_seen
  fast_active,     \* escalation_fast_active_suspected
  call,            \* voice_call_active and whom it dialled (0: no call)
  call_status,     \* voice_call_status, RINGING taken as DIALING and FAILED
                   \* as ENDED, between which nothing here distinguishes
  sms,             \* the fan-out thread of each request: the contacts it has
                   \* left, and (history) its SMS sent after a reset
  \* History, read by the properties only:
  requests,        \* requests accepted
  dials,           \* attempts the escalation has spent on each slot
  escalation_generation, \* generation of the request it was started for
  seen             \* what the ticks of this attempt have seen of the call

alarm   == <<incident, sent, cooled>>
queue   == <<pending, pending_generation, requests>>
timing  == <<attempt_elapsed, active_elapsed, gap_elapsed, active_seen, fast_active,
             seen>>
plan    == <<contacts, contact, attempt, dials, escalation_generation>>
modem   == <<call, call_status>>
escalation == <<escalation_state, plan, timing>>

vars == <<main, tick_elapsed, alarm, worker, request, loaded, queue, generation,
          escalation, modem, sms>>

Slots      == 1 .. N
OnCall     == {"WAITING", "CONFIRMING"}
ActiveStates == OnCall \cup {"RETRY_GAP"}    \* escalation_state_is_active

\* Whether the call was first seen connected before or after the voicemail
\* limit; then whether the last tick saw it connected, the time between ticks
\* that all did, and the pass in which it came back after it had rung again.
NotSeen    == [first |-> "not", last |-> FALSE, connected |-> 0, lapse |-> 0]
FannedOut(late) == [stage |-> "done", generation |-> 0, left |-> 0, late |-> late]
NoSms      == [stage |-> "none", generation |-> 0, left |-> 0, late |-> 0]

TypeOK ==
  /\ main \in {"idle", "request", "tick", "reset"}
  /\ tick_elapsed \in 0 .. MAX_ELAPSED
  /\ incident \in BOOLEAN
  /\ sent \in BOOLEAN
  /\ cooled \in BOOLEAN
  /\ worker \in {"none", "wait", "taken", "checked", "fanout", "finish"}
  /\ request \in 0 .. MAX_RESETS
  /\ loaded \in SUBSET Slots
  /\ pending \in BOOLEAN
  /\ pending_generation \in 0 .. MAX_RESETS
  /\ generation \in 0 .. MAX_RESETS
  /\ escalation_state \in ActiveStates \cup {"IDLE", "ANSWERED", "DONE"}
  /\ contacts \in SUBSET Slots
  /\ contact \in 1 .. N + 1
  /\ attempt \in 0 .. ATTEMPTS - 1
  /\ attempt_elapsed \in 0 .. ATTEMPT_TIMEOUT
  /\ active_elapsed \in 0 .. ANSWER_CONFIRM
  /\ gap_elapsed \in 0 .. RETRY_GAP
  /\ active_seen \in BOOLEAN
  /\ fast_active \in BOOLEAN
  /\ call \in 0 .. N
  /\ call_status \in {"IDLE", "DIALING", "ACTIVE", "ENDED"}
  /\ sms \in [1 .. MAX_REQUESTS ->
                [stage : {"none", "check", "send", "done"}, generation : 0 .. MAX_RESETS,
                 left : 0 .. N, late : 0 .. N]]
  /\ requests \in 0 .. MAX_REQUESTS
  /\ dials \in [Slots -> 0 .. ATTEMPTS]
  /\ escalation_generation \in 0 .. MAX_RESETS
  /\ seen \in [first : {"not", "fast", "slow"}, last : BOOLEAN,
              connected : 0 .. ANSWER_CONFIRM, lapse : 0 .. MAX_ELAPSED]
-----------------------------------------------------------------------------
(* Pieces of the handlers. *)

\* The elapsed counters saturate at their limit.
SaturatingAdd(now, elapsed, limit) ==
  IF elapsed > limit - now THEN limit ELSE now + elapsed

\* move_to_next_attempt_with_settle_gap: after the last attempt the next slot.
NextAttempt(c, a) ==
  IF a + 1 >= ATTEMPTS
    THEN contact' = c + 1 /\ attempt' = 0
    ELSE contact' = c /\ attempt' = a + 1

ClearTiming ==
  /\ attempt_elapsed' = 0
  /\ active_elapsed' = 0
  /\ gap_elapsed' = 0
  /\ active_seen' = FALSE
  /\ fast_active' = FALSE

\* reset_current_attempt_timing
ResetTiming == ClearTiming /\ seen' = NotSeen

\* start_current_call_attempt from slot c0 and attempt a0 of the slots in todo;
\* spent counts the attempts made so far.  Both callers have just hung up under
\* the same mutex, so modem_make_voice_call never finds a call in its way.
StartAttempt(todo, c0, a0, spent) ==
  LET ahead == {c \in todo : c >= c0} IN
  /\ ResetTiming
  /\ \/ /\ ahead = {}
        /\ escalation_state' = "DONE"
        /\ contact' = N + 1
        /\ attempt' = 0
        /\ dials' = spent
        /\ call' = 0
        /\ call_status' = "IDLE"
     \/ \E c \in ahead :
          LET a == IF c = c0 THEN a0 ELSE 0 IN
          /\ \A d \in ahead : c <= d
          /\ dials' = [spent EXCEPT ![c] = @ + 1]
          /\ \/ /\ escalation_state' = "WAITING"
                /\ contact' = c
                /\ attempt' = a
                /\ call' = c
                /\ call_status' = "DIALING"
             \/ /\ escalation_state' = "RETRY_GAP"   \* the dial failed
                /\ NextAttempt(c, a)
                /\ call' = 0
                /\ call_status' = "IDLE"

\* modem_hangup_voice_call.  Nothing reads the status of a call that was hung
\* up, which the code leaves at ENDED, so it is IDLE here.
Hangup ==
  /\ call' = 0
  /\ call_status' = "IDLE"

\* clear_escalation
ClearEscalation ==
  /\ escalation_state' = "IDLE"
  /\ contacts' = {}
  /\ contact' = 1
  /\ attempt' = 0
  /\ dials' = [c \in Slots |-> 0]
  /\ escalation_generation' = 0
  /\ ResetTiming
-----------------------------------------------------------------------------
(* Main: an alarm, in two critical sections (trigger_alarm and              *)
(* alert_dispatch_request_async).                                           *)

\* The alarm is marked as dispatched whatever comes of the request.
Dispatched ==
  /\ sent' = TRUE
  /\ cooled' = FALSE

TriggerInCooldown ==
  /\ main = "idle"
  /\ sent /\ ~cooled
  /\ incident' = TRUE
  /\ UNCHANGED <<main, tick_elapsed, sent, cooled, worker, request, loaded,
                 queue, generation, escalation, modem, sms>>

\* The worker thread is started the first time, which may fail; then a running
\* escalation suppresses the request.
TriggerAlarm ==
  /\ main = "idle"
  /\ requests < MAX_REQUESTS
  /\ ~sent \/ cooled
  /\ incident' = TRUE
  /\ \/ worker = "none" /\ Dispatched /\ UNCHANGED <<main, worker>>
     \/ /\ worker' = IF worker = "none" THEN "wait" ELSE worker
        /\ IF escalation_state \in ActiveStates
             THEN Dispatched /\ UNCHANGED main
             ELSE main' = "request" /\ UNCHANGED <<sent, cooled>>
  /\ UNCHANGED <<tick_elapsed, request, loaded, queue, generation, escalation,
                 modem, sms>>

\* The worker takes one request at a time; a busy one loses the request.
RequestWorker ==
  /\ main = "request"
  /\ main' = "idle"
  /\ Dispatched
  /\ IF pending \/ worker # "wait"
       THEN UNCHANGED queue
       ELSE /\ pending' = TRUE
            /\ pending_generation' = generation
            /\ requests' = requests + 1
  /\ UNCHANGED <<tick_elapsed, incident, worker, request, loaded, generation,
                 escalation, modem, sms>>

(* Main: STOP (alarm_logic_reset and alert_dispatch_reset). *)

\* First half: drop the pending request and outdate the taken ones.
ResetWorker ==
  /\ main = "idle"
  /\ incident
  /\ generation < MAX_RESETS
  /\ main' = "reset"
  /\ incident' = FALSE /\ sent' = FALSE /\ cooled' = FALSE
  /\ pending' = FALSE
  /\ pending_generation' = 0
  /\ generation' = generation + 1
  /\ UNCHANGED <<tick_elapsed, worker, request, loaded, requests, escalation,
                 modem, sms>>

\* A slip: the escalation is dropped only while it is active, so that an answered
\* or exhausted one is left to the dispatch that outruns the reset.
ResetSkipsFinished ==
  /\ main = "reset"
  /\ main' = "idle"
  /\ IF escalation_state \in ActiveStates \cup {"IDLE"}
       THEN ClearEscalation /\ Hangup
       ELSE UNCHANGED <<escalation, modem>>
  /\ UNCHANGED <<tick_elapsed, alarm, worker, request, loaded, queue, generation, sms>>

\* Second half: drop the escalation and its call.
ResetEscalation ==
  /\ main = "reset"
  /\ main' = "idle"
  /\ ClearEscalation
  /\ Hangup
  /\ UNCHANGED <<tick_elapsed, alarm, worker, request, loaded, queue, generation, sms>>
-----------------------------------------------------------------------------
(* Main: the tick. *)

\* modem_hal_tick: the call moves on, or is found to have ended.
ModemTick ==
  /\ main = "idle"
  /\ main' = "tick"
  /\ tick_elapsed' \in 1 .. MAX_ELAPSED
  /\ \/ UNCHANGED modem
     \/ /\ call # 0
        /\ \/ call' = call /\ call_status' \in {"DIALING", "ACTIVE"}
           \/ call' = 0 /\ call_status' = "ENDED"
  /\ UNCHANGED <<alarm, worker, request, loaded, queue, generation, escalation, sms>>

\* The rest of alarm_logic_tick: the dispatch cooldown runs on, and may end while
\* there is a further request to come.
TickEnds ==
  /\ main = "tick"
  /\ main' = "idle"
  /\ tick_elapsed' = 0
  /\ cooled' \in {cooled, incident /\ sent /\ requests < MAX_REQUESTS}
  /\ UNCHANGED <<incident, sent, worker, request, loaded, queue, generation,
                 sms>>

\* alert_dispatch_tick with nothing to escalate
TickQuiet ==
  /\ TickEnds
  /\ escalation_state \in {"IDLE", "ANSWERED", "DONE"}
  /\ UNCHANGED <<escalation, modem>>

\* A slip: the elapsed time is not added.
GapStandsStill == gap_elapsed

Gap == SaturatingAdd(gap_elapsed, tick_elapsed, RETRY_GAP)

\* The pause goes on, or the modem does not settle and it starts anew.
GapContinues ==
  /\ TickEnds
  /\ escalation_state = "RETRY_GAP"
  /\ \/ /\ Gap < RETRY_GAP
        /\ gap_elapsed' = Gap
        /\ UNCHANGED modem
     \/ /\ Gap >= RETRY_GAP
        /\ gap_elapsed' = 0
        /\ Hangup
  /\ UNCHANGED <<escalation_state, plan, attempt_elapsed, active_elapsed,
                 active_seen, fast_active, seen>>

\* modem_prepare_for_next_voice_call has settled the modem: next attempt.
GapEnds ==
  /\ TickEnds
  /\ escalation_state = "RETRY_GAP"
  /\ Gap >= RETRY_GAP
  /\ StartAttempt(contacts, contact, attempt, dials)
  /\ UNCHANGED <<contacts, escalation_generation>>

AttemptTime == SaturatingAdd(attempt_elapsed, tick_elapsed, ATTEMPT_TIMEOUT)
ActiveTime  == SaturatingAdd(active_elapsed, tick_elapsed, ANSWER_CONFIRM)
IsActive    == call_status = "ACTIVE"

\* Connected long enough, and not so fast that it smells of voicemail.
Confirmed ==
  IsActive /\ active_seen /\ ~fast_active /\ ActiveTime >= ANSWER_CONFIRM

\* What this tick adds to the history.
Sight ==
  CASE seen.first = "not" /\ IsActive ->
         [NotSeen EXCEPT !.first = IF AttemptTime < SUSPECT THEN "fast" ELSE "slow", !.last = TRUE]
    [] seen.first = "slow" /\ ~IsActive ->
         [NotSeen EXCEPT !.first = "slow"]
    [] seen.first = "slow" /\ IsActive /\ ~seen.last ->
         [seen EXCEPT !.last = TRUE, !.lapse = tick_elapsed]
    [] seen.first = "slow" /\ IsActive /\ seen.last ->
         [seen EXCEPT !.connected = SaturatingAdd(@, tick_elapsed, ANSWER_CONFIRM)]
    [] OTHER -> seen

Unanswered ==
  call_status = "ENDED" \/ AttemptTime >= ATTEMPT_TIMEOUT

\* Nothing reads the clocks of an answered attempt, so they stop at 0.
CallAnswered ==
  /\ TickEnds
  /\ escalation_state \in OnCall
  /\ Confirmed
  /\ escalation_state' = "ANSWERED"
  /\ ClearTiming
  /\ seen' = Sight
  /\ UNCHANGED <<plan, modem>>

\* A slip: a call that rings again keeps the time it has been connected.
RingingKeepsTime ==
  /\ TickEnds
  /\ escalation_state \in OnCall
  /\ ~Confirmed /\ ~Unanswered
  /\ attempt_elapsed' = AttemptTime
  /\ active_seen' = (active_seen \/ IsActive)
  /\ fast_active' = (fast_active \/ (IsActive /\ ~active_seen /\ AttemptTime < SUSPECT))
  /\ active_elapsed' = IF ~IsActive \/ ~active_seen \/ fast_active THEN active_elapsed ELSE ActiveTime
  /\ escalation_state' =
       IF ~IsActive THEN "WAITING"
       ELSE IF ~active_seen /\ ~fast_active' THEN "CONFIRMING" ELSE escalation_state
  /\ seen' = Sight
  /\ UNCHANGED <<plan, gap_elapsed, modem>>

\* The attempt goes on: a first sight of the connected call, more of it, or a
\* call that rings (again).
CallContinues ==
  /\ TickEnds
  /\ escalation_state \in OnCall
  /\ ~Confirmed /\ ~Unanswered
  /\ attempt_elapsed' = AttemptTime
  /\ active_seen' = (active_seen \/ IsActive)
  /\ fast_active' = (fast_active \/ (IsActive /\ ~active_seen /\ AttemptTime < SUSPECT))
  /\ active_elapsed' =
       IF ~IsActive \/ ~active_seen THEN 0
       ELSE IF fast_active THEN active_elapsed ELSE ActiveTime
  /\ escalation_state' =
       IF ~IsActive THEN "WAITING"
       ELSE IF ~active_seen /\ ~fast_active' THEN "CONFIRMING" ELSE escalation_state
  /\ seen' = Sight
  /\ UNCHANGED <<plan, gap_elapsed, modem>>

\* A slip: the call of the given-up attempt is not hung up.
GiveUpKeepsCall ==
  /\ TickEnds
  /\ escalation_state \in OnCall
  /\ ~Confirmed /\ Unanswered
  /\ UNCHANGED modem
  /\ escalation_state' = "RETRY_GAP"
  /\ NextAttempt(contact, attempt)
  /\ ResetTiming
  /\ UNCHANGED <<contacts, dials, escalation_generation>>

\* advance_to_next_call_attempt
CallUnanswered ==
  /\ TickEnds
  /\ escalation_state \in OnCall
  /\ ~Confirmed /\ Unanswered
  /\ Hangup
  /\ escalation_state' = "RETRY_GAP"
  /\ NextAttempt(contact, attempt)
  /\ ResetTiming
  /\ UNCHANGED <<contacts, dials, escalation_generation>>
-----------------------------------------------------------------------------
(* The dispatch worker: alert_dispatch_worker_main and                      *)
(* alert_dispatch_send_with_generation.                                     *)

TakeRequest ==
  /\ worker = "wait"
  /\ pending
  /\ worker' = "taken"
  /\ request' = pending_generation
  /\ pending' = FALSE
  /\ pending_generation' = 0
  /\ UNCHANGED <<main, tick_elapsed, alarm, loaded, requests, generation,
                 escalation, modem, sms>>

\* The worker has still to take its mutex again; what it worked on is gone.
Finishes ==
  /\ worker' = "finish"
  /\ request' = 0
  /\ loaded' = {}

\* The configuration is loaded, which may fail, and the generation compared.
CheckGeneration ==
  /\ worker = "taken"
  /\ \/ /\ generation = request
        /\ worker' = "checked"
        /\ loaded' \in SUBSET Slots
        /\ UNCHANGED request
     \/ Finishes
  /\ UNCHANGED <<main, tick_elapsed, alarm, queue, generation, escalation,
                 modem, sms>>

\* A slip: a running escalation is not respected.
StartOverRunning ==
  /\ worker = "checked"
  /\ worker' = "fanout"
  /\ contacts' = loaded
  /\ StartAttempt(loaded, 1, 0, [c \in Slots |-> 0])
  /\ escalation_generation' = request
  /\ UNCHANGED <<main, tick_elapsed, alarm, request, loaded, queue,
                 generation, sms>>

\* Under escalation_mutex, without another look at the generation: an answered
\* call is hung up, a running escalation suppresses the dispatch.
StartEscalation ==
  /\ worker = "checked"
  /\ IF escalation_state \in ActiveStates
       THEN Finishes /\ UNCHANGED <<escalation, modem>>
       ELSE /\ worker' = "fanout"
            /\ contacts' = loaded
            /\ StartAttempt(loaded, 1, 0, [c \in Slots |-> 0])
            /\ escalation_generation' = request
            /\ UNCHANGED <<request, loaded>>
  /\ UNCHANGED <<main, tick_elapsed, alarm, queue, generation, sms>>

\* start_sms_fanout: a thread of its own, which may fail to start.
StartFanout ==
  /\ worker = "fanout"
  /\ Finishes
  /\ \/ UNCHANGED sms
     \/ sms' = [sms EXCEPT ![requests] =
                  IF loaded = {} THEN FannedOut(0)
                  ELSE [stage |-> "check", generation |-> request,
                        left |-> Cardinality(loaded), late |-> 0]]
  /\ UNCHANGED <<main, tick_elapsed, alarm, queue, generation, escalation,
                 modem>>

WorkerDone ==
  /\ worker = "finish"
  /\ worker' = "wait"
  /\ UNCHANGED <<main, tick_elapsed, alarm, request, loaded, queue, generation,
                 escalation, modem, sms>>
-----------------------------------------------------------------------------
(* The fan-out threads: sms_fanout_worker_main. *)

\* A slip: the loop does not look at the generation.
FanoutNeverChecks(k) ==
  /\ sms[k].stage = "check"
  /\ sms' = [sms EXCEPT ![k].stage = "send"]
  /\ UNCHANGED <<main, tick_elapsed, alarm, worker, request, loaded, queue,
                 generation, escalation, modem>>

\* Before each contact the generation is compared again.
FanoutChecks(k) ==
  /\ sms[k].stage = "check"
  /\ sms' = [sms EXCEPT ![k] = IF @.generation = generation
                               THEN [@ EXCEPT !.stage = "send"]
                               ELSE FannedOut(@.late)]
  /\ UNCHANGED <<main, tick_elapsed, alarm, worker, request, loaded, queue,
                 generation, escalation, modem>>

\* modem_send_sms to the next contact; a failure is logged and that is all.
FanoutSends(k) ==
  LET late == sms[k].late + (IF sms[k].generation = generation THEN 0 ELSE 1) IN
  /\ sms[k].stage = "send"
  /\ sms' = [sms EXCEPT ![k] =
               IF @.left = 1 THEN FannedOut(late)
               ELSE [stage |-> "check", generation |-> @.generation, left |-> @.left - 1,
                     late |-> late]]
  /\ UNCHANGED <<main, tick_elapsed, alarm, worker, request, loaded, queue,
                 generation, escalation, modem>>
-----------------------------------------------------------------------------
Init ==
  /\ main = "idle"
  /\ tick_elapsed = 0
  /\ incident = FALSE
  /\ sent = FALSE
  /\ cooled = FALSE
  /\ worker = "none"
  /\ request = 0
  /\ loaded = {}
  /\ pending = FALSE
  /\ pending_generation = 0
  /\ generation = 0
  /\ escalation_state = "IDLE"
  /\ contacts = {}
  /\ contact = 1
  /\ attempt = 0
  /\ attempt_elapsed = 0
  /\ active_elapsed = 0
  /\ gap_elapsed = 0
  /\ active_seen = FALSE
  /\ fast_active = FALSE
  /\ call = 0
  /\ call_status = "IDLE"
  /\ sms = [k \in 1 .. MAX_REQUESTS |-> NoSms]
  /\ requests = 0
  /\ dials = [c \in Slots |-> 0]
  /\ escalation_generation = 0
  /\ seen = NotSeen

DispatchTick ==
  \/ TickQuiet \/ GapContinues \/ GapEnds
  \/ CallAnswered \/ CallContinues \/ CallUnanswered

Worker == TakeRequest \/ CheckGeneration \/ StartEscalation \/ StartFanout \/ WorkerDone

Next ==
  \/ TriggerInCooldown \/ TriggerAlarm \/ RequestWorker \/ ResetWorker \/ ResetEscalation
  \/ ModemTick \/ DispatchTick
  \/ Worker
  \/ \E k \in 1 .. MAX_REQUESTS : FanoutChecks(k) \/ FanoutSends(k)

\* The threads run.  GapEnds is strongly fair: a modem that is asked again and
\* again settles and takes the next call (the code would wait for ever).
Fairness ==
  /\ WF_vars(RequestWorker) /\ WF_vars(ResetEscalation)
  /\ WF_vars(ModemTick) /\ WF_vars(DispatchTick) /\ SF_vars(GapEnds)
  /\ WF_vars(Worker)
  /\ \A k \in 1 .. MAX_REQUESTS : WF_vars(FanoutChecks(k) \/ FanoutSends(k))

Spec == Init /\ [][Next]_vars /\ Fairness
-----------------------------------------------------------------------------
(* What the alert path promises. *)

Active == escalation_state \in ActiveStates

\* The modem's call belongs to the escalation (alert_dispatch.c 350-424 and
\* 556-700, modem_hal.c 993-1278): there is one only while its contact is being
\* called or has answered, it is that contact who was dialled, and an attempt
\* whose call is gone knows that it has failed.  No timeout, reset, second
\* dispatch or failed settle leaves a call ringing that nobody watches.
CallMatchesEscalation ==
  /\ call # 0 => escalation_state \in OnCall \cup {"ANSWERED"} /\ call = contact
  /\ escalation_state \in OnCall /\ call = 0 => call_status = "ENDED"

\* Nobody is skipped and nobody is called too often: the contacts before the
\* current one have had all their attempts, the current one as many as
\* escalation_attempt says, the later ones none.  With DONE, past the last slot,
\* every configured contact was tried ATTEMPTS times.
AttemptsInOrder ==
  \A c \in Slots :
    dials[c] = IF c \notin contacts \/ c > contact THEN 0
               ELSE IF c < contact THEN ATTEMPTS
               ELSE attempt + (IF escalation_state \in OnCall \cup {"ANSWERED"} THEN 1 ELSE 0)

\* The escalation takes an answer for human only if the call was first seen
\* connected no faster than SUSPECT, and then from tick to tick for
\* ANSWER_CONFIRM without a break (alert_dispatch.c 612-674).  After a break the
\* count begins anew, but active_seen stays set and the whole pass in which the
\* call came back is counted (650-663): that pass, and no more, may be missing.
AnswerPassedVoicemailGuard ==
  escalation_state = "ANSWERED" =>
    seen.first = "slow" /\ seen.connected + seen.lapse >= ANSWER_CONFIRM

\* After a reset each fan-out sends at most the one SMS that it was about to
\* send: it compares the generation before every contact (alert_dispatch.c
\* 266-279).
FewLateSms == \A k \in 1 .. MAX_REQUESTS : sms[k].late <= 1

\* How far a reset can be outrun (alert_dispatch.c 364-385 against 732-744): once
\* main has returned from it, no request of an older generation is waiting, and
\* as long as a dispatch that had passed its check before is still to start, no
\* escalation is left from before.  So an outdated escalation is the last of
\* its kind, and the next reset ends it.
StopIsOutrunOnce ==
  /\ pending => pending_generation = generation
  /\ main # "reset" /\ worker = "checked" /\ request # generation =>
       escalation_state = "IDLE"

\* The refinement: what is left of the sequence of calls.
SequencePhase ==
  CASE escalation_state \in OnCall    -> "calling"
    [] escalation_state = "RETRY_GAP" -> "pause"
    [] escalation_state = "ANSWERED"  -> "answered"
    [] escalation_state = "DONE"      -> "exhausted"
    [] OTHER                          -> "idle"

AttemptsLeft == [c \in Slots |-> IF c \in contacts THEN ATTEMPTS - dials[c] ELSE 0]

Sequence == INSTANCE CallSequence WITH phase <- SequencePhase, left <- AttemptsLeft

\* Threads, clocks and the modem implement the plain sequence of calls; in
\* particular no second dispatch restarts a sequence that is running.
ImplementsCallSequence == Sequence!Spec

\* An escalation ends: answered, exhausted or reset.
EscalationEnds == Active ~> ~Active
-----------------------------------------------------------------------------
(* What the comments and documents say and the code does not do. *)

\* A reset cancels the call escalation: when main has returned from it, no
\* escalation of an earlier generation is running.
ResetCancelsCalls ==
  main = "idle" /\ Active => escalation_generation = generation
=============================================================================

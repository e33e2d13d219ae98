------------------------------- MODULE ModemHal -------------------------------
(***************************************************************************)
(* The modem of the hub: modem_hal.c, the reset line on its GPIO and the   *)
(* telephone line behind it.                                               *)
(*                                                                         *)
(* Every function of the HAL runs under modem_hal_mutex, so one call of it *)
(* is one action, whoever makes it: main, the dispatch worker or an SMS    *)
(* fan-out thread.  Only the hard reset takes two, because the process can *)
(* die while the line is high.  The modem may leave any AT command         *)
(* unanswered, and the HAL's idea of the call is kept apart from the call. *)
(***************************************************************************)
EXTENDS Naturals

CONSTANTS
  THRESHOLD,    \* MODEM_HAL_RESET_FAILURE_THRESHOLD
  COOLDOWN,     \* MODEM_HAL_RESET_COOLDOWN_MS, in time units
  CALL_MAX,     \* MODEM_HAL_CALL_MAX_DURATION_MS
  STATUS_POLL,  \* MODEM_HAL_CALL_STATUS_POLL_MS
  MAX_ELAPSED   \* bound: longest loop pass considered

ASSUME ModemAssumption ==
  /\ THRESHOLD \in Nat \ {0}
  /\ COOLDOWN \in Nat \ {0}
  /\ CALL_MAX \in Nat \ {0}
  /\ STATUS_POLL \in Nat \ {0}
  /\ MAX_ELAPSED \in Nat \ {0}

VARIABLES
  process,      \* the runtime is "down", "up", or "resets" the modem
  active,       \* voice_call_active
  call_elapsed, \* voice_call_elapsed_ms
  poll_elapsed, \* voice_call_status_elapsed_ms
  status,       \* voice_call_status, RINGING taken as DIALING
  failures,     \* consecutive_modem_failures, counted up to THRESHOLD
  pending,      \* reset_pending_after_call
  cooldown,     \* reset_cooldown_elapsed_ms
  initialized,  \* reset_control_initialized
  sms_fault,    \* sms_tx_fault_active
  reset_line,   \* GPIO57 is high: the modem is held in reset
  line,         \* the telephone line, as the network sees it
  \* History, read by the properties only:
  unnoticed,    \* time of main's passes in which the HAL has held on to a call
                \* that was over, the pass that gave it up included
  excuse,       \* since the last dial an AT command failed, or the process died
  since_reset,  \* time since the last completed pulse, whatever the process did
  restarted,    \* the process was started after that pulse
  gpio_failed   \* a GPIO operation has failed since the process was started

call    == <<active, call_elapsed, poll_elapsed, status>>
policy  == <<failures, pending, cooldown>>
gpio    == <<initialized, reset_line>>
pulses  == <<since_reset, restarted>>

vars == <<process, call, policy, gpio, sms_fault, line, unnoticed, excuse,
          pulses, gpio_failed>>

Outgoing == {"ringing", "connected"}

TypeOK ==
  /\ process \in {"down", "up", "resets"}
  /\ active \in BOOLEAN
  /\ call_elapsed \in 0 .. CALL_MAX - 1
  /\ poll_elapsed \in 0 .. STATUS_POLL - 1
  /\ status \in {"IDLE", "DIALING", "ACTIVE", "ENDED", "FAILED"}
  /\ failures \in 0 .. THRESHOLD
  /\ pending \in BOOLEAN
  /\ cooldown \in 0 .. COOLDOWN
  /\ initialized \in BOOLEAN
  /\ sms_fault \in BOOLEAN
  /\ reset_line \in BOOLEAN
  /\ line \in Outgoing \cup {"down", "incoming"}
  /\ unnoticed \in 0 .. STATUS_POLL + MAX_ELAPSED
  /\ excuse \in BOOLEAN
  /\ since_reset \in 0 .. COOLDOWN
  /\ restarted \in BOOLEAN
  /\ gpio_failed \in BOOLEAN
-----------------------------------------------------------------------------
(* The telephone line.  It moves on its own, unless the modem is in reset. *)

CalleeAnswers ==
  /\ line = "ringing"
  /\ line' = "connected"
  /\ UNCHANGED <<process, call, policy, gpio, sms_fault, unnoticed, excuse,
                 pulses, gpio_failed>>

LineDrops ==
  /\ line # "down"
  /\ line' = "down"
  /\ UNCHANGED <<process, call, policy, gpio, sms_fault, unnoticed, excuse,
                 pulses, gpio_failed>>

IncomingCall ==
  /\ line = "down"
  /\ ~reset_line
  /\ line' = "incoming"
  /\ UNCHANGED <<process, call, policy, gpio, sms_fault, unnoticed, excuse,
                 pulses, gpio_failed>>
-----------------------------------------------------------------------------
(* What the HAL is built from. *)

SaturatingAdd(value, elapsed, limit) ==
  IF value + elapsed >= limit THEN limit ELSE value + elapsed

\* The HAL gives the call up: it is over, or the HAL believes so.
CallOver(s) ==
  /\ active' = FALSE
  /\ call_elapsed' = 0
  /\ poll_elapsed' = 0
  /\ status' = s

\* A slip: ATH is not sent.
NoAth == UNCHANGED <<line, excuse>>

\* ATH, whose outcome the HAL does not look at.
Ath ==
  \/ line' = "down" /\ UNCHANGED excuse
  \/ UNCHANGED line /\ excuse' = TRUE

\* A slip: a reset put off is not called off.
SuccessKeepsPending ==
  /\ failures' = 0
  /\ UNCHANGED <<process, pending, cooldown, gpio, gpio_failed>>

\* modem_note_success_locked
NoteSuccess ==
  /\ failures' = 0
  /\ pending' = FALSE
  /\ UNCHANGED <<process, cooldown, gpio, gpio_failed>>

NoReset(f, p, cool) ==
  /\ failures' = f
  /\ pending' = p
  /\ cooldown' = cool
  /\ UNCHANGED <<process, gpio, gpio_failed>>

\* modem_hard_reset_locked up to the rising edge, or up to the GPIO operation
\* that fails.
HardReset(f) ==
  /\ failures' = f
  /\ cooldown' = COOLDOWN
  /\ UNCHANGED pending
  /\ \/ /\ gpio_failed' = TRUE
        /\ \/ UNCHANGED gpio
           \/ initialized' = TRUE /\ reset_line' = (initialized /\ reset_line)
        /\ UNCHANGED process
     \/ /\ process' = "resets"
        /\ initialized' = TRUE
        /\ reset_line' = TRUE
        /\ UNCHANGED gpio_failed

\* modem_note_failure_locked, for a HAL that has or has not got a call
NoteFailure(isActive, cool) ==
  LET f == SaturatingAdd(failures, 1, THRESHOLD) IN
  IF f < THRESHOLD \/ cool < COOLDOWN THEN NoReset(f, pending, cool)
  ELSE IF isActive THEN NoReset(f, TRUE, cool)
  ELSE HardReset(f)

\* A slip: nobody sees to a reset that was put off.
DeferredResetForgotten(cool) == NoReset(failures, pending, cool)

\* modem_run_deferred_reset_if_ready_locked, called without a call
RunDeferredReset(cool) ==
  IF pending /\ cool = COOLDOWN THEN HardReset(failures)
  ELSE NoReset(failures, pending, cool)
-----------------------------------------------------------------------------
(* The process. *)

\* A slip: the line is exported, but not driven.
StartKeepsLine ==
  /\ process = "down"
  /\ process' = "up"
  /\ \/ initialized' = TRUE /\ gpio_failed' = FALSE /\ UNCHANGED reset_line
     \/ gpio_failed' = TRUE /\ UNCHANGED gpio
  /\ UNCHANGED <<call, policy, sms_fault, line, unnoticed, excuse, pulses>>

\* The init script starts the runtime, which drives the reset line low if it can
\* (modem_reset_control_init).
ProcessStarts ==
  /\ process = "down"
  /\ process' = "up"
  /\ \/ initialized' = TRUE /\ reset_line' = FALSE /\ gpio_failed' = FALSE
     \/ gpio_failed' = TRUE /\ UNCHANGED gpio
  /\ UNCHANGED <<call, policy, sms_fault, line, unnoticed, excuse, pulses>>

\* A crash, an update or the watchdog, at any point: the HAL's variables are lost,
\* the GPIO and the call are not.
ProcessEnds ==
  /\ process # "down"
  /\ process' = "down"
  /\ CallOver("IDLE")
  /\ failures' = 0 /\ pending' = FALSE /\ cooldown' = COOLDOWN
  /\ initialized' = FALSE
  /\ sms_fault' = FALSE
  /\ line' = IF reset_line THEN "down" ELSE line
  /\ excuse' = TRUE
  /\ unnoticed' = 0
  /\ restarted' = TRUE
  /\ UNCHANGED <<reset_line, since_reset, gpio_failed>>
-----------------------------------------------------------------------------
(* The second half of the hard reset. *)

\* A slip: a modem that does not come back is not given its cooldown.
PulseWithoutCooldown ==
  /\ process = "resets"
  /\ process' = "up"
  /\ line' = "down"
  /\ reset_line' = FALSE /\ pending' = FALSE
  /\ \/ failures' = 0 /\ cooldown' = 0
     \/ UNCHANGED <<failures, cooldown>>
  /\ since_reset' = 0 /\ restarted' = FALSE
  /\ UNCHANGED <<call, initialized, sms_fault, unnoticed, excuse, gpio_failed>>

\* The line falls, and the modem answers AT again within 30 s, or does not.
PulseEnds ==
  /\ process = "resets"
  /\ process' = "up"
  /\ line' = "down"
  /\ reset_line' = FALSE
  /\ failures' \in {0, failures}
  /\ pending' = FALSE
  /\ cooldown' = 0
  /\ since_reset' = 0 /\ restarted' = FALSE
  /\ UNCHANGED <<call, initialized, sms_fault, unnoticed, excuse, gpio_failed>>

\* The line cannot be driven low: the modem stays in reset.
PulseSticks ==
  /\ process = "resets"
  /\ process' = "up"
  /\ line' = "down"
  /\ gpio_failed' = TRUE
  /\ UNCHANGED <<call, policy, gpio, sms_fault, unnoticed, excuse, pulses>>
-----------------------------------------------------------------------------
(* modem_send_sms, by any thread *)

SmsSent ==
  /\ process = "up"
  /\ ~reset_line
  /\ sms_fault' = FALSE
  /\ NoteSuccess
  /\ UNCHANGED <<call, line, unnoticed, excuse, pulses>>

\* Both attempts have failed.
SmsFails ==
  /\ process = "up"
  /\ sms_fault' = TRUE
  /\ NoteFailure(active, cooldown)
  /\ UNCHANGED <<call, line, unnoticed, excuse, pulses>>
-----------------------------------------------------------------------------
(* The voice call, by the escalation.  While a call is active                *)
(* modem_make_voice_call does nothing.                                       *)

\* ATD is answered, with anything but ERROR: the HAL takes the call for dialled.
Dialled ==
  /\ process = "up"
  /\ ~active
  /\ ~reset_line
  /\ line' \in IF line = "down" THEN {"down", "ringing"} ELSE {line}
  /\ active' = TRUE
  /\ call_elapsed' = 0 /\ poll_elapsed' = 0 /\ unnoticed' = 0
  /\ status' = "DIALING"
  /\ excuse' = FALSE
  /\ NoteSuccess
  /\ UNCHANGED <<sms_fault, pulses>>

\* ERROR, or no answer, but the modem may have dialled all the same.
DialFails ==
  /\ process = "up"
  /\ ~active
  /\ \/ UNCHANGED <<line, excuse>>
     \/ line = "down" /\ ~reset_line /\ line' = "ringing" /\ excuse' = TRUE
  /\ NoteFailure(FALSE, cooldown)
  /\ UNCHANGED <<call, sms_fault, unnoticed, pulses>>

\* modem_hangup_voice_call
HangUp ==
  /\ process = "up"
  /\ IF active THEN CallOver("ENDED") /\ Ath
     ELSE status' = "IDLE"
          /\ UNCHANGED <<active, call_elapsed, poll_elapsed, line, excuse>>
  /\ unnoticed' = 0
  /\ UNCHANGED <<process, policy, gpio, sms_fault, pulses, gpio_failed>>

\* modem_prepare_for_next_voice_call: ATH, then the registration and the line are
\* asked for.  A CLCC that is refused reads like a line that is free.
Settles ==
  /\ process = "up"
  /\ ~reset_line
  /\ CallOver("IDLE")
  /\ unnoticed' = 0
  /\ Ath
  /\ NoteSuccess
  /\ UNCHANGED <<sms_fault, pulses>>

SettleFails ==
  /\ process = "up"
  /\ CallOver("IDLE")
  /\ unnoticed' = 0
  /\ Ath
  /\ NoteFailure(FALSE, cooldown)
  /\ UNCHANGED <<sms_fault, pulses>>
-----------------------------------------------------------------------------
(* modem_hal_tick, by main in every loop pass: its five ways out *)

\* Nothing is on the line: see to a reset that was put off.
TickIdle(e) ==
  /\ ~active
  /\ RunDeferredReset(SaturatingAdd(cooldown, e, COOLDOWN))
  /\ UNCHANGED <<call, line, excuse>>

CallTime(e) == SaturatingAdd(call_elapsed, e, CALL_MAX)

\* A slip: the clock of the poll takes the time of the pass instead of adding it.
PollOfThisPass(e) == SaturatingAdd(0, e, STATUS_POLL)

PollTime(e) == SaturatingAdd(poll_elapsed, e, STATUS_POLL)

\* A slip: the call at its limit is hung up, but stays the HAL's.
TickCapKeepsCall(e) ==
  /\ active
  /\ CallTime(e) >= CALL_MAX
  /\ call_elapsed' = 0 /\ poll_elapsed' = 0
  /\ Ath
  /\ NoReset(failures, pending, SaturatingAdd(cooldown, e, COOLDOWN))
  /\ UNCHANGED <<active, status>>

\* The call has lasted for too long.
TickCaps(e) ==
  /\ active
  /\ CallTime(e) >= CALL_MAX
  /\ CallOver("ENDED")
  /\ Ath
  /\ RunDeferredReset(SaturatingAdd(cooldown, e, COOLDOWN))

\* The next poll is not due.
TickWaits(e) ==
  /\ active
  /\ CallTime(e) < CALL_MAX /\ PollTime(e) < STATUS_POLL
  /\ call_elapsed' = CallTime(e)
  /\ poll_elapsed' = PollTime(e)
  /\ NoReset(failures, pending, SaturatingAdd(cooldown, e, COOLDOWN))
  /\ UNCHANGED <<active, status, line, excuse>>

\* What parse_clcc_status makes of the line
ClccStatus ==
  CASE line = "ringing"   -> "DIALING"
    [] line = "connected" -> "ACTIVE"
    [] line = "incoming"  -> "FAILED"
    [] line = "down"      -> "ENDED"

\* CLCC shows a call that goes on.
TickSeesCall(e) ==
  /\ active
  /\ CallTime(e) < CALL_MAX /\ PollTime(e) >= STATUS_POLL
  /\ ~reset_line
  /\ line \in Outgoing
  /\ call_elapsed' = CallTime(e)
  /\ poll_elapsed' = 0
  /\ status' = ClccStatus
  /\ NoReset(failures, pending, SaturatingAdd(cooldown, e, COOLDOWN))
  /\ UNCHANGED <<active, line, excuse>>

\* CLCC shows no call; or it is refused, which reads like no call, or garbled,
\* which reads like a failed one, whatever the line.
TickSeesEnd(e) ==
  /\ active
  /\ CallTime(e) < CALL_MAX /\ PollTime(e) >= STATUS_POLL
  /\ ~reset_line
  /\ \/ line \notin Outgoing /\ CallOver(ClccStatus) /\ UNCHANGED excuse
     \/ CallOver("ENDED") /\ excuse' = TRUE
     \/ CallOver("FAILED") /\ excuse' = TRUE
  /\ RunDeferredReset(SaturatingAdd(cooldown, e, COOLDOWN))
  /\ UNCHANGED line

\* CLCC is not answered: the call is given up, the failure noted, and the deferred
\* reset run after it.  Two attempts at a reset in one tick come to what one does.
TickPollFails(e) ==
  LET cool == SaturatingAdd(cooldown, e, COOLDOWN) IN
  /\ active
  /\ CallTime(e) < CALL_MAX /\ PollTime(e) >= STATUS_POLL
  /\ CallOver("FAILED")
  /\ excuse' = TRUE
  /\ IF pending /\ cool = COOLDOWN
       THEN HardReset(SaturatingAdd(failures, 1, THRESHOLD))
       ELSE NoteFailure(FALSE, cool)
  /\ UNCHANGED line

Tick ==
  /\ process = "up"
  /\ \E e \in 1 .. MAX_ELAPSED :
       /\ \/ TickIdle(e) \/ TickCaps(e) \/ TickWaits(e)
          \/ TickSeesCall(e) \/ TickSeesEnd(e) \/ TickPollFails(e)
       /\ since_reset' = SaturatingAdd(since_reset, e, COOLDOWN)
       /\ unnoticed' = IF active /\ line \notin Outgoing THEN unnoticed + e ELSE 0
  /\ UNCHANGED <<sms_fault, restarted>>
-----------------------------------------------------------------------------
Init ==
  /\ process = "down"
  /\ active = FALSE
  /\ call_elapsed = 0
  /\ poll_elapsed = 0
  /\ status = "IDLE"
  /\ failures = 0
  /\ pending = FALSE
  /\ cooldown = COOLDOWN
  /\ initialized = FALSE
  /\ sms_fault = FALSE
  /\ reset_line = FALSE
  /\ line = "down"
  /\ unnoticed = 0
  /\ excuse = FALSE
  /\ since_reset = COOLDOWN
  /\ restarted = FALSE
  /\ gpio_failed = FALSE

Next ==
  \/ CalleeAnswers \/ LineDrops \/ IncomingCall
  \/ ProcessStarts \/ ProcessEnds \/ PulseEnds \/ PulseSticks
  \/ SmsSent \/ SmsFails
  \/ Dialled \/ DialFails \/ HangUp \/ Settles \/ SettleFails
  \/ Tick

\* Main ticks in every pass.  The GPIO works now and then: a tick that tries
\* again and again to reset the modem will raise the line, and lower it again.
Fairness ==
  /\ WF_vars(Tick)
  /\ SF_vars(Tick /\ process' = "resets")
  /\ SF_vars(PulseEnds)

Spec == Init /\ [][Next]_vars /\ Fairness
-----------------------------------------------------------------------------
(* What the HAL promises. *)

\* No call rings on behind the back of the HAL: a call that the hub has dialled
\* is tracked, and so hung up by the escalation, a reset or the limit, unless an
\* AT command for it has failed or the process has died since (modem_hal.c
\* 993-1278).
OutgoingCallIsTracked ==
  line \in Outgoing => active \/ excuse

\* Nor does the HAL hold on to a call that is over.  The passes before the last
\* stay within one poll interval, however their times fall, and the last may be
\* of any length: all of them together last for less than a poll interval and
\* the longest pass (modem_hal.c 1168-1278).
DeadCallIsNoticed ==
  /\ active /\ line \notin Outgoing => unnoticed < STATUS_POLL
  /\ unnoticed < STATUS_POLL + MAX_ELAPSED

\* What the escalation reads agrees with what the HAL does: it gives an attempt
\* up by the status alone (alert_dispatch.c 676-695).
StatusMatchesCall ==
  active <=> status \in {"DIALING", "ACTIVE"}

\* A reset that was put off waits for the end of the call and for nothing else,
\* though SMS of other threads succeed and fail in between (modem_hal.c 103-174).
DeferredResetIsDue ==
  pending => failures = THRESHOLD /\ cooldown = COOLDOWN

\* The modem is reset for repeated failures only, and never under the HAL's own
\* call (modem_hal.c 109-143, 158-174).
ResetSparesCall ==
  process = "resets" => ~active /\ failures = THRESHOLD

\* The reset line is low when the runtime works, although the process may have
\* died in the middle of a pulse: only a GPIO that fails holds the modem in
\* reset (modem_hal.c 181-211).
ModemIsNotHeldInReset ==
  process = "up" /\ ~gpio_failed => ~reset_line

\* Between two resets lies the cooldown, unless the process has been restarted,
\* which forgets it (modem_hal.c 51, 109-174, 251).
ResetsAreSpaced ==
  [][process = "up" /\ process' = "resets" => since_reset' = COOLDOWN \/ restarted]_vars

\* No call is tracked for ever, whatever modem and network do.
CallEnds == active ~> ~active

\* A reset that was put off is done, or called off by a success.
DeferredResetResolves == pending ~> ~pending
=============================================================================

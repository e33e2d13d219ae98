----------------------------- MODULE AlarmRuntime -----------------------------
(***************************************************************************)
(* The arming core of the hub: alarm_logic.c and the arm-control part of   *)
(* runtime_loop.c.                                                         *)
(*                                                                         *)
(* Three actors move.  The MAIN thread runs the endless loop of            *)
(* run_interrupt_loop, one phase after the other (pc).  The SIREN TIMER    *)
(* thread switches the siren off at its deadline and, after it has         *)
(* released its mutex, calls back into the runtime (timer).  The           *)
(* ENVIRONMENT presses buttons, opens shutters, sends commands, crosses    *)
(* the edges of the armed window, kills the program or cuts the power, and *)
(* lets the supervisor start the program again.                            *)
(*                                                                         *)
(* Time is counted in units long enough that most loop passes take none:   *)
(* a pass adds any number of units up to MAX_ELAPSED to the two clocks     *)
(* that the main thread keeps.  The siren deadline is an action that may   *)
(* come at any moment while the siren rings.                               *)
(*                                                                         *)
(* Alert dispatch (calls and SMS) hangs off trigger_alarm and the reset    *)
(* but feeds nothing back, and has a module of its own: AlertDispatch.     *)
(***************************************************************************)
EXTENDS Naturals

CONSTANTS
  CAMERA_ARM_GRACE,     \* AMTECH_CAMERA_ARM_GRACE_MS, in time units
  STATIC_CALIBRATION,   \* AMTECH_STATIC_CALIBRATION_MS, in time units
  MAX_ELAPSED           \* longest loop pass considered, in time units

ASSUME ClockAssumption ==
  /\ CAMERA_ARM_GRACE \in Nat \ {0}
  /\ STATIC_CALIBRATION \in Nat \ {0}
  /\ MAX_ELAPSED \in Nat

VARIABLES
  pc,                          \* phase of the main loop, or "down"
  trigger,                     \* main is inside trigger_alarm ("no" when not)
  armed,                       \* alarm_logic.c: armed
  alarm_triggered,             \* alarm_triggered (= incident_active)
  camera_arm_grace_elapsed,    \* camera_arm_grace_elapsed_ms
  siren_active,                \* siren_active, and the siren output
  timer,                       \* where the siren timer thread stands
  auto_rearm_pending,          \* runtime_auto_rearm_pending
  siren_auto_stop_pending,     \* runtime_siren_auto_stop_pending
  arm_control,                 \* runtime_arm_control
  last_schedule,               \* runtime_last_schedule_known / _armed
  observed_armed,              \* runtime_observed_armed
  calibrating,                 \* static_calibration_active
  calibration_elapsed,         \* static_calibration_elapsed_ms
  completion_sms_pending,      \* runtime_calibration_completion_sms_pending
  state_file,                  \* /root/amtech_state.txt, as programs read it
  durable,                     \* the contents of it that the disk is sure to have
  last_persisted,              \* runtime_last_persisted_known/_armed/_control
  in_window,                   \* wall clock inside the scheduled window
  \* History, read by the properties only:
  stale,                       \* the last attempt to write the file failed
  hold,                        \* the owner disarmed, nothing has ended that
  temp_disarmed                \* an alarm disarmed an armed shop

alarm   == <<armed, camera_arm_grace_elapsed>>
siren   == <<siren_active, timer>>
rearm   == <<auto_rearm_pending, siren_auto_stop_pending>>
calib   == <<calibrating, calibration_elapsed>>
disk    == <<state_file, durable, last_persisted, stale>>
history == <<hold, temp_disarmed>>

vars == <<pc, trigger, alarm, alarm_triggered, siren, rearm, arm_control,
          last_schedule, observed_armed, calib, completion_sms_pending, disk,
          in_window, history>>

Phases   == {"tick", "rearm", "schedule", "sms", "app", "camera", "poll"}
Controls == {"SCHEDULE", "MANUAL"}
NoState  == [known |-> FALSE]   \* no file, or none with an ARMED line in it
States   == [known : {TRUE}, armed : BOOLEAN, control : Controls]

TypeOK ==
  /\ pc \in Phases \cup {"down"}
  /\ trigger \in {"no", "first", "repeat"}
  /\ armed \in BOOLEAN
  /\ alarm_triggered \in BOOLEAN
  /\ camera_arm_grace_elapsed \in 0 .. CAMERA_ARM_GRACE
  /\ siren_active \in BOOLEAN
  /\ timer \in {"wait", "callback"}
  /\ auto_rearm_pending \in BOOLEAN
  /\ siren_auto_stop_pending \in BOOLEAN
  /\ arm_control \in Controls
  /\ last_schedule \in {"unknown", "armed", "disarmed"}
  /\ observed_armed \in BOOLEAN
  /\ calibrating \in BOOLEAN
  /\ calibration_elapsed \in 0 .. STATIC_CALIBRATION
  /\ completion_sms_pending \in BOOLEAN
  /\ state_file \in States \cup {NoState}
  /\ durable \in States \cup {NoState}
  /\ last_persisted \in States \cup {NoState}
  /\ in_window \in BOOLEAN
  /\ stale \in BOOLEAN
  /\ hold \in {"no", "held"}
  /\ temp_disarmed \in {"no", "first", "repeat"}
-----------------------------------------------------------------------------
(* Pieces of the handlers. *)

\* A slip: the sum is not saturated.
PlainAdd(now, elapsed, limit) == now + elapsed

\* The clocks saturate at their limit, as the code computes it: the
\* subtraction is unsigned and would wrap if now could exceed limit.
SaturatingAdd(now, elapsed, limit) ==
  IF elapsed > limit - now THEN limit ELSE now + elapsed

\* alarm_logic_set_armed: nothing happens unless the value changes.
AlarmLogicSetArmed(next) ==
  /\ armed' = next
  /\ camera_arm_grace_elapsed' =
       IF next = armed THEN camera_arm_grace_elapsed
       ELSE IF next THEN 0 ELSE CAMERA_ARM_GRACE

\* A slip: the fall of armed leaves the calibration and its SMS running.
NoteForgetsStop(is_armed, recipients) ==
  /\ observed_armed' = is_armed
  /\ IF is_armed = observed_armed \/ ~is_armed
       THEN UNCHANGED <<calib, completion_sms_pending>>
       ELSE calibrating' = TRUE /\ calibration_elapsed' = 0 /\ completion_sms_pending' = TRUE

\* runtime_note_armed_state: calibration starts when the runtime sees armed
\* rise and stops when it sees it fall; it compares with what it SAW last.  A
\* start prepares the completion SMS for the contacts, a stop drops it, and an
\* ARM by SMS makes it pending for its sender whether or not it was a start.
RuntimeNoteArmedState(is_armed, recipients) ==
  /\ observed_armed' = is_armed
  /\ IF is_armed = observed_armed
       THEN UNCHANGED calib
       ELSE /\ calibrating' = is_armed
            /\ calibration_elapsed' = IF is_armed THEN 0 ELSE STATIC_CALIBRATION
  /\ completion_sms_pending' =
       IF is_armed = observed_armed
         THEN completion_sms_pending \/ (is_armed /\ recipients = "sender")
         ELSE is_armed /\ recipients # "none"

\* A slip: the cache is set before the write is known to have worked.
PersistCachesFirst(is_armed, control) ==
  LET next == [known |-> TRUE, armed |-> is_armed, control |-> control] IN
  /\ last_persisted' = next
  /\ UNCHANGED durable
  /\ \/ stale' = FALSE /\ state_file' = IF last_persisted = next THEN state_file ELSE next
     \/ stale' = (last_persisted # next) /\ UNCHANGED state_file

\* runtime_persist_armed_state: skipped when the cache says the file is up to
\* date; a failed write changes neither and is only logged by its callers.  The
\* new file is renamed into place but not flushed: durable is Writeback's.
RuntimePersistArmedState(is_armed, control) ==
  LET next == [known |-> TRUE, armed |-> is_armed, control |-> control] IN
  /\ UNCHANGED durable
  /\ \/ /\ last_persisted = next
        /\ stale' = FALSE
        /\ UNCHANGED <<state_file, last_persisted>>
     \/ /\ last_persisted # next
        /\ state_file' = next
        /\ last_persisted' = next
        /\ stale' = FALSE
     \/ /\ last_persisted # next
        /\ stale' = TRUE
        /\ UNCHANGED <<state_file, last_persisted>>

\* A slip: a command acts under the control that happens to be in force.
SetArmedKeepsControl(next, control, recipients) ==
  /\ arm_control' = arm_control
  /\ AlarmLogicSetArmed(next)
  /\ RuntimeNoteArmedState(next, recipients)
  /\ RuntimePersistArmedState(next, arm_control)

\* runtime_set_armed, under the arm control its caller has just chosen.
RuntimeSetArmed(next, control, recipients) ==
  /\ arm_control' = control
  /\ AlarmLogicSetArmed(next)
  /\ RuntimeNoteArmedState(next, recipients)
  /\ RuntimePersistArmedState(next, control)

\* runtime_cancel_auto_rearm, under runtime_auto_rearm_mutex.
RuntimeCancelAutoRearm ==
  /\ auto_rearm_pending' = FALSE
  /\ siren_auto_stop_pending' = FALSE

\* main is in this phase of the loop and not inside an alarm trigger
InPhase(phase) == pc = phase /\ trigger = "no"
-----------------------------------------------------------------------------
(* The siren timer thread. *)

\* A slip: the dispatch request inside trigger_alarm takes longer than the
\* siren rings.
DeadlineInsideTrigger ==
  /\ siren_active
  /\ timer = "wait"
  /\ siren_active' = FALSE
  /\ timer' = "callback"
  /\ UNCHANGED <<pc, trigger, alarm, alarm_triggered, rearm, arm_control,
                 last_schedule, observed_armed, calib, completion_sms_pending,
                 disk, in_window, history>>

\* A slip: the callback comes before the siren is switched off.
CallbackBeforeOff ==
  /\ siren_active
  /\ timer = "wait"
  /\ trigger = "no"
  /\ timer' = "callback"
  /\ UNCHANGED <<pc, trigger, alarm, alarm_triggered, siren_active, rearm,
                 arm_control, last_schedule, observed_armed, calib,
                 completion_sms_pending, disk, in_window, history>>

\* The deadline passes: siren off, then the mutex is released.  The 5 s
\* deadline was set by this very trigger when main is still inside it, and is
\* assumed not to pass there: main can only wait for escalation_mutex, which a
\* worker holds that long only after the race that ResetCancelsCalls shows.
SirenDeadline ==
  /\ siren_active
  /\ timer = "wait"
  /\ trigger = "no"
  /\ siren_active' = FALSE
  /\ timer' = "callback"
  /\ UNCHANGED <<pc, trigger, alarm, alarm_triggered, rearm, arm_control,
                 last_schedule, observed_armed, calib, completion_sms_pending,
                 disk, in_window, history>>

\* A slip: the callback is not registered with alarm_logic.
TimerWithoutCallback ==
  /\ timer = "callback"
  /\ timer' = "wait"
  /\ UNCHANGED <<pc, trigger, alarm, alarm_triggered, siren_active, rearm,
                 arm_control, last_schedule, observed_armed, calib,
                 completion_sms_pending, disk, in_window, history>>

\* runtime_siren_auto_stop_callback: main may have moved since the deadline.
TimerCallback ==
  /\ timer = "callback"
  /\ timer' = "wait"
  /\ siren_auto_stop_pending' = (siren_auto_stop_pending \/ auto_rearm_pending)
  /\ UNCHANGED <<pc, trigger, alarm, alarm_triggered, siren_active,
                 auto_rearm_pending, arm_control, last_schedule,
                 observed_armed, calib, completion_sms_pending, disk,
                 in_window, history>>
-----------------------------------------------------------------------------
(* The main loop, phase by phase. *)

\* alarm_logic_tick and runtime_static_calibration_tick; the latter sends the
\* completion SMS when the calibration ends.
AlarmTick ==
  /\ InPhase("tick")
  /\ \E elapsed \in 0 .. MAX_ELAPSED :
       LET cal == SaturatingAdd(calibration_elapsed, elapsed, STATIC_CALIBRATION)
           ends == calibrating /\ cal >= STATIC_CALIBRATION
       IN /\ camera_arm_grace_elapsed' =
               IF armed /\ camera_arm_grace_elapsed < CAMERA_ARM_GRACE
                 THEN SaturatingAdd(camera_arm_grace_elapsed, elapsed, CAMERA_ARM_GRACE)
                 ELSE camera_arm_grace_elapsed
          /\ calibration_elapsed' = IF calibrating THEN cal ELSE calibration_elapsed
          /\ calibrating' = (calibrating /\ ~ends)
          /\ completion_sms_pending' = (completion_sms_pending /\ ~ends)
  /\ pc' = "rearm"
  /\ UNCHANGED <<trigger, armed, alarm_triggered, siren, rearm, arm_control,
                 last_schedule, observed_armed, disk, in_window, history>>

\* runtime_process_auto_rearm_after_siren_stop: both flags are taken together;
\* the arm goes through the preflight and falls back to disarmed.
ProcessAutoRearm ==
  /\ InPhase("rearm")
  /\ pc' = "schedule"
  /\ IF auto_rearm_pending /\ siren_auto_stop_pending
       THEN /\ RuntimeCancelAutoRearm
            /\ \E preflight \in BOOLEAN :
                 RuntimeSetArmed(preflight, "MANUAL", "contacts")
            /\ temp_disarmed' = "no"
       ELSE UNCHANGED <<alarm, rearm, arm_control, observed_armed, calib,
                        completion_sms_pending, disk, temp_disarmed>>
  /\ UNCHANGED <<trigger, alarm_triggered, siren, last_schedule, in_window, hold>>

Scheduled == IF in_window THEN "armed" ELSE "disarmed"

AtBoundary == last_schedule \notin {"unknown", Scheduled}

\* A slip: the early return for MANUAL is lost.
NothingHeld == FALSE

HeldByOverride == arm_control = "MANUAL" /\ ~AtBoundary

\* update_schedule_from_realtime / runtime_apply_schedule_armed: a boundary of
\* the window clears the manual override, MANUAL keeps the schedule out, and
\* every pass under SCHEDULE runs the preflight again.
ApplySchedule ==
  /\ InPhase("schedule")
  /\ pc' = "sms"
  /\ last_schedule' = Scheduled
  /\ IF HeldByOverride
       THEN UNCHANGED <<alarm, arm_control, observed_armed, calib,
                        completion_sms_pending, disk>>
       ELSE \/ /\ RuntimeSetArmed(in_window, "SCHEDULE", "contacts")
            \/ /\ in_window               \* preflight failed
               /\ arm_control' = "MANUAL"
               /\ UNCHANGED <<alarm, observed_armed, calib,
                              completion_sms_pending, disk>>
  /\ hold' = IF AtBoundary THEN "no" ELSE hold
  /\ temp_disarmed' = IF AtBoundary \/ armed' THEN "no" ELSE temp_disarmed
  /\ UNCHANGED <<trigger, alarm_triggered, siren, rearm, in_window>>

\* The command of an authorized contact.  Each ends the phase.
SmsArm ==
  /\ InPhase("sms")
  /\ ~armed
  /\ pc' = "app"
  /\ RuntimeCancelAutoRearm
  /\ \E accepted \in BOOLEAN :        \* preflight, or FORCE
       RuntimeSetArmed(accepted, "MANUAL", "sender")
  /\ hold' = "no"
  /\ temp_disarmed' = "no"
  /\ UNCHANGED <<trigger, alarm_triggered, siren, last_schedule, in_window>>

\* runtime_set_manual_armed(0): the owner's disarm.
OwnerDisarms ==
  /\ RuntimeCancelAutoRearm
  /\ RuntimeSetArmed(FALSE, "MANUAL", "contacts")
  /\ hold' = "held"
  /\ temp_disarmed' = "no"

SmsDisarm ==
  /\ InPhase("sms")
  /\ pc' = "app"
  /\ OwnerDisarms
  /\ UNCHANGED <<trigger, alarm_triggered, siren, last_schedule, in_window>>

\* STOP: alarm_logic_reset (which never waits for the timer thread), then the
\* disarm.  Without an active alarm it does nothing at all.
SmsStop ==
  /\ InPhase("sms")
  /\ alarm_triggered
  /\ pc' = "app"
  /\ alarm_triggered' = FALSE
  /\ siren_active' = FALSE
  /\ OwnerDisarms
  /\ UNCHANGED <<trigger, timer, last_schedule, in_window>>

\* No message, a foreign or unknown one, ARM when armed, STOP without alarm,
\* STATUS, HELP; also a pass too early for the 5 s poll.
SmsNothing ==
  /\ InPhase("sms")
  /\ pc' = "app"
  /\ UNCHANGED <<trigger, alarm, alarm_triggered, siren, rearm, arm_control,
                 last_schedule, observed_armed, calib, completion_sms_pending,
                 disk, in_window, history>>

\* apply_device_command: the app arms by force, whatever the state is.
AppArm ==
  /\ InPhase("app")
  /\ pc' = "camera"
  /\ RuntimeCancelAutoRearm
  /\ RuntimeSetArmed(TRUE, "MANUAL", "contacts")
  /\ hold' = "no"
  /\ temp_disarmed' = "no"
  /\ UNCHANGED <<trigger, alarm_triggered, siren, last_schedule, in_window>>

AppDisarm ==
  /\ InPhase("app")
  /\ pc' = "camera"
  /\ OwnerDisarms
  /\ UNCHANGED <<trigger, alarm_triggered, siren, last_schedule, in_window>>

AppNothing ==
  /\ InPhase("app")
  /\ pc' = "camera"
  /\ UNCHANGED <<trigger, alarm, alarm_triggered, siren, rearm, arm_control,
                 last_schedule, observed_armed, calib, completion_sms_pending,
                 disk, in_window, history>>
-----------------------------------------------------------------------------
(* Alarms.  trigger_alarm first drives the outputs, which starts the siren's *)
(* deadline, and only at its end disarms and lets the runtime note the       *)
(* pending re-arm: RaiseAlarm and FinishTrigger.                             *)

\* trigger_alarm up to reactivate_alarm_outputs; was_triggered is sampled by
\* the handler that calls it and lives on in trigger.
RaiseAlarm ==
  /\ trigger' = IF alarm_triggered THEN "repeat" ELSE "first"
  /\ alarm_triggered' = TRUE
  /\ siren_active' = TRUE
  /\ hold' = IF alarm_triggered THEN hold ELSE "no"
  /\ UNCHANGED <<pc, alarm, timer, rearm, arm_control, last_schedule, disk,
                 in_window, temp_disarmed>>

\* Panic button, smoke detector, cut shutter wire: alarm in either arm state.
PanicSmokeOrTamper ==
  /\ InPhase("poll")
  /\ RaiseAlarm
  /\ UNCHANGED <<observed_armed, calib, completion_sms_pending>>

ShutterOpen ==
  /\ InPhase("poll")
  /\ armed
  /\ RaiseAlarm
  /\ UNCHANGED <<observed_armed, calib, completion_sms_pending>>

\* One result taken off the camera queue.  The arm state is noted first, so a
\* disarm the runtime has not seen yet ends a running calibration here.
CameraResult ==
  /\ InPhase("camera")
  /\ RuntimeNoteArmedState(armed, "none")
  /\ \/ UNCHANGED <<pc, trigger, alarm, alarm_triggered, siren, rearm,
                    arm_control, last_schedule, disk, in_window, history>>
     \/ /\ armed                       \* confirmed person, no static object
        /\ ~calibrating'
        /\ camera_arm_grace_elapsed >= CAMERA_ARM_GRACE
        /\ RaiseAlarm

\* The rest of trigger_alarm (disarm) and
\* runtime_schedule_auto_rearm_after_alarm_trigger, which returns at once when
\* the incident was already running: that disarm is neither noted nor written.
FinishTrigger ==
  /\ trigger # "no"
  /\ trigger' = "no"
  /\ temp_disarmed' = IF armed THEN trigger ELSE temp_disarmed
  /\ \/ /\ trigger = "first"
        /\ auto_rearm_pending' = TRUE
        /\ siren_auto_stop_pending' = FALSE
        /\ RuntimeSetArmed(FALSE, "MANUAL", "contacts")
     \/ /\ trigger = "repeat"
        /\ AlarmLogicSetArmed(FALSE)
        /\ UNCHANGED <<rearm, arm_control, observed_armed, calib,
                       completion_sms_pending, disk>>
  /\ UNCHANGED <<pc, alarm_triggered, siren, last_schedule, in_window, hold>>

\* The queue is empty; the poll of the wired sensors is done.
QueueDrained ==
  /\ InPhase("camera")
  /\ pc' = "poll"
  /\ UNCHANGED <<trigger, alarm, alarm_triggered, siren, rearm, arm_control,
                 last_schedule, observed_armed, calib, completion_sms_pending,
                 disk, in_window, history>>

PollDone ==
  /\ InPhase("poll")
  /\ pc' = "tick"
  /\ UNCHANGED <<trigger, alarm, alarm_triggered, siren, rearm, arm_control,
                 last_schedule, observed_armed, calib, completion_sms_pending,
                 disk, in_window, history>>
-----------------------------------------------------------------------------
(* The environment. *)

\* The wall clock crosses an edge of the armed window.
ClockBoundary ==
  /\ in_window' = ~in_window
  /\ UNCHANGED <<pc, trigger, alarm, alarm_triggered, siren, rearm,
                 arm_control, last_schedule, observed_armed, calib,
                 completion_sms_pending, disk, history>>

\* The kernel gets round to writing the file to the disk.
Writeback ==
  /\ durable # state_file
  /\ durable' = state_file
  /\ UNCHANGED <<pc, trigger, alarm, alarm_triggered, siren, rearm, arm_control,
                 last_schedule, observed_armed, calib, completion_sms_pending,
                 state_file, last_persisted, stale, in_window, history>>

\* Everything in memory is lost.  An owner's disarm that was not written down
\* is lost with it, and so is a re-arm the shop was waiting for.
Dies(written_down) ==
  /\ pc # "down"
  /\ pc' = "down"
  /\ trigger' = "no"
  /\ armed' = FALSE
  /\ alarm_triggered' = FALSE
  /\ camera_arm_grace_elapsed' = CAMERA_ARM_GRACE
  /\ siren_active' = FALSE
  /\ timer' = "wait"
  /\ auto_rearm_pending' = FALSE
  /\ siren_auto_stop_pending' = FALSE
  /\ arm_control' = "SCHEDULE"
  /\ last_schedule' = "unknown"
  /\ observed_armed' = FALSE
  /\ calibrating' = FALSE
  /\ calibration_elapsed' = STATIC_CALIBRATION
  /\ completion_sms_pending' = FALSE
  /\ last_persisted' = NoState
  /\ hold' = IF written_down THEN hold ELSE "no"
  /\ temp_disarmed' = "no"
  /\ UNCHANGED <<stale, in_window>>

\* The process dies and the kernel lives on, with the file as last written.
Crash == Dies(~stale) /\ UNCHANGED <<state_file, durable>>

\* A power cut, or a reset by the hardware watchdog.  A file that was never
\* flushed may come back as it is, as it was, or with nothing in it.
PowerCut ==
  /\ Dies(~stale /\ durable = state_file)
  /\ state_file' \in {state_file, durable} \cup (IF durable = state_file THEN {} ELSE {NoState})
  /\ durable' = state_file'

\* main without a state to restore: no file, one without an ARMED line, or one
\* that cannot be opened or read.  A plain disarm, under SCHEDULE: whatever was
\* held before is held no longer.
BootDisarmed ==
  /\ arm_control' = "SCHEDULE"
  /\ RuntimePersistArmedState(FALSE, "SCHEDULE")
  /\ hold' = "no"
  /\ UNCHANGED <<alarm, observed_armed, calib, completion_sms_pending, temp_disarmed>>

\* runtime_restore_persisted_state.  Whatever the file says is held as MANUAL; a
\* restored ARMED must pass the preflight.
RestorePersistedState ==
  /\ state_file.known
  /\ \E restored \in {FALSE, state_file.armed} :
       LET next == [known |-> TRUE, armed |-> restored, control |-> "MANUAL"] IN
       /\ arm_control' = "MANUAL"
       /\ AlarmLogicSetArmed(restored)
       /\ RuntimeNoteArmedState(restored, "contacts")
       /\ \/ /\ state_file' = next
             /\ last_persisted' = next
             /\ stale' = FALSE
          \/ /\ state_file # next
             /\ last_persisted' = state_file
             /\ stale' = TRUE
             /\ UNCHANGED state_file
  /\ temp_disarmed' = IF armed' THEN "no" ELSE temp_disarmed
  /\ UNCHANGED <<durable, hold>>

\* main: alarm_logic_init, then the arm state.  The first pass skips the ticks.
Boot ==
  /\ pc = "down"
  /\ pc' = "schedule"
  /\ BootDisarmed \/ RestorePersistedState
  /\ UNCHANGED <<trigger, alarm_triggered, siren, rearm, last_schedule, in_window>>
-----------------------------------------------------------------------------
Init ==
  /\ pc = "down"
  /\ trigger = "no"
  /\ armed = FALSE
  /\ alarm_triggered = FALSE
  /\ camera_arm_grace_elapsed = CAMERA_ARM_GRACE
  /\ siren_active = FALSE
  /\ timer = "wait"
  /\ auto_rearm_pending = FALSE
  /\ siren_auto_stop_pending = FALSE
  /\ arm_control = "SCHEDULE"
  /\ last_schedule = "unknown"
  /\ observed_armed = FALSE
  /\ calibrating = FALSE
  /\ calibration_elapsed = STATIC_CALIBRATION
  /\ completion_sms_pending = FALSE
  /\ state_file = NoState
  /\ durable = NoState
  /\ last_persisted = NoState
  /\ in_window \in BOOLEAN
  /\ stale = FALSE
  /\ hold = "no"
  /\ temp_disarmed = "no"

\* What the main thread always comes back to, an alarm in hand or not.
MainStep ==
  \/ AlarmTick \/ ProcessAutoRearm \/ ApplySchedule
  \/ SmsArm \/ SmsDisarm \/ SmsStop \/ SmsNothing
  \/ AppArm \/ AppDisarm \/ AppNothing
  \/ FinishTrigger

Alarm == PanicSmokeOrTamper \/ ShutterOpen \/ CameraResult

Next ==
  \/ MainStep \/ Alarm \/ QueueDrained \/ PollDone
  \/ SirenDeadline \/ TimerCallback
  \/ ClockBoundary \/ Writeback \/ Crash \/ PowerCut \/ Boot

\* The main thread and the timer thread keep running; the camera queue and
\* the pass over the sensors are left in the end, however often they were
\* interrupted by an alarm (each sensor is handled once per pass, and a camera
\* needs seconds for a frame that the loop takes in no time).
Fairness ==
  /\ WF_vars(MainStep)
  /\ SF_vars(QueueDrained)
  /\ SF_vars(PollDone)
  /\ WF_vars(SirenDeadline)
  /\ WF_vars(TimerCallback)

Spec == Init /\ [][Next]_vars /\ Fairness
-----------------------------------------------------------------------------
(* What the arming core promises. *)

\* The owner's DISARM or STOP (runtime_set_manual_armed, 1038-1040) holds
\* through schedule ticks, late siren callbacks, repeated alarms and restarts:
\* nothing arms the shop again, and nothing is left pending that would, until
\* the owner arms, the schedule reaches a boundary or a new incident starts.  It
\* does not survive a process death after a write that failed, a power cut
\* before the file was flushed (750-767), or a restart that cannot read the file
\* (668-678, 719, 3216-3219): then the schedule may arm.
DisarmHolds ==
  hold = "held" => ~armed /\ ~auto_rearm_pending

\* The temporary disarm of a first alarm (runtime_loop.c 1076-1094) is never
\* forgotten: while it lasts the re-arm is pending, and the event that will
\* carry it out is still to come, whatever the timer thread and the owner did
\* in between.
FirstAlarmWillRearm ==
  trigger = "no" =>
    /\ temp_disarmed = "first" => auto_rearm_pending
    /\ auto_rearm_pending =>
         siren_active \/ timer = "callback" \/ siren_auto_stop_pending

\* The state file tells a reboot the truth (runtime_loop.c 722-776): when the
\* last write worked an armed shop is armed on disk, and a disarmed one is
\* disarmed on disk but for the disarm by an alarm repeated in an incident,
\* which is not written, so that a power cut then brings the shop back armed.
FileMatchesArmState ==
  pc # "down" /\ trigger = "no" /\ ~stale =>
    /\ state_file.known
    /\ state_file.armed = armed \/ (state_file.armed /\ alarm_triggered)

\* The runtime's idea of the arm state (runtime_observed_armed) may lag behind
\* alarm_logic in one way only: an alarm repeated in a running incident has
\* disarmed the shop.
ObservationLagsOnlyAfterRepeat ==
  trigger = "no" /\ observed_armed # armed =>
    observed_armed /\ alarm_triggered

\* Under schedule control the shop is as the schedule wants it
\* (runtime_loop.c 989-1016), but for a disarm by a repeated alarm: commands,
\* alarms, failed preflights and restores have all moved to MANUAL.
ScheduleControlFollowsSchedule ==
  arm_control = "SCHEDULE" /\ last_schedule # "unknown" /\ trigger = "no" =>
    armed = (last_schedule = "armed") \/ temp_disarmed = "repeat"

\* The tick that ends the calibration tells the owner that all monitoring is
\* active (runtime_loop.c 861-883, 907-929).
SendsMonitoringActive ==
  /\ pc = "tick" /\ pc' = "rearm"
  /\ calibrating /\ ~calibrating'
  /\ completion_sms_pending

\* Outside an incident the owner never reads "ARMED, all monitoring active"
\* about a disarmed shop: every disarm on the way has dropped the message.
MonitoringSmsOnlyWhenArmed ==
  [][SendsMonitoringActive => armed \/ alarm_triggered]_vars

\* The siren rings while the wake-up of the re-arm is on its way or waiting.
RearmMeetsSiren == siren_active /\ (timer = "callback" \/ siren_auto_stop_pending)

\* The re-arm does not look at the siren (runtime_loop.c 1054-1074), and its
\* wake-up may be late.  It arms under a ringing siren only if a new alarm has
\* rung it after the one before had ended: no delay of the timer thread, no
\* command, reset or half-finished trigger brings the two together.
OnlyAnAlarmRingsOverARearm ==
  [][~RearmMeetsSiren /\ RearmMeetsSiren' => Alarm]_vars

\* The refinement: main comes out of a trigger whatever it meets, so that what
\* the rest of the trigger will do is taken for done.
CoreArmed      == armed /\ trigger = "no"
CoreGrace      == IF trigger = "no" THEN camera_arm_grace_elapsed ELSE CAMERA_ARM_GRACE
CoreObserved   == observed_armed /\ trigger # "first"
CoreCalibrates == calibrating /\ trigger # "first"
CoreCalibrated == IF trigger = "first" THEN STATIC_CALIBRATION ELSE calibration_elapsed

Core == INSTANCE ArmingCore WITH
  armed <- CoreArmed, camera_arm_grace_elapsed <- CoreGrace, observed_armed <- CoreObserved,
  calibrating <- CoreCalibrates, calibration_elapsed <- CoreCalibrated

\* Commands, schedule, alarms, re-arm and power cuts, interrupted where they may
\* be, do nothing to the arm state, its observation and its two clocks but what
\* ArmingCore allows: grace and calibration start with an arming and run no
\* faster than time, and only the disarm by a repeated alarm goes unnoticed.
ImplementsArmingCore == Core!Spec

\* Where main, the queue's and the sensors' loops and the timer thread have a step to take.
MainToMove == trigger # "no" \/ pc \in {"tick", "rearm", "schedule", "sms", "app"}
AtQueue == InPhase("camera")
AtSensors == InPhase("poll")
Ringing == siren_active /\ timer = "wait"
CallingBack == timer = "callback"

\* That the steps under fairness can be taken where main and the timer thread
\* stand.  Each antecedent is the guard of its action, so this holds by the
\* definitions; it has a name because the provers cannot compute ENABLED, and
\* the liveness theorem takes it for a hypothesis.
ThreadsCanMove ==
  /\ MainToMove => ENABLED <<MainStep>>_vars
  /\ AtQueue => ENABLED <<QueueDrained>>_vars
  /\ AtSensors => ENABLED <<PollDone>>_vars
  /\ Ringing /\ trigger = "no" => ENABLED <<SirenDeadline>>_vars
  /\ CallingBack => ENABLED <<TimerCallback>>_vars

\* Once alarms, commands and crashes stop coming, a pending automatic re-arm is
\* carried out or cancelled: the timer thread and the main thread between them
\* lose no wake-up (runtime_loop.c 1042-1094).  New triggers restart the siren
\* and may postpone this for ever, so the claim is about what follows the last.
RearmIsResolved ==
  <>[][~Alarm]_vars => (auto_rearm_pending ~> ~auto_rearm_pending)
-----------------------------------------------------------------------------
(* What the documentation says and the code does not do.                     *)

\* Every alarm that disarms the shop is followed by an automatic re-arm.
TemporaryDisarmHasRearm ==
  trigger = "no" /\ temp_disarmed \in {"first", "repeat"} => auto_rearm_pending
=============================================================================

-------------------------- MODULE AlarmRuntimeProofs --------------------------
(***************************************************************************)
(* The safety properties of AlarmRuntime hold for every value of the       *)
(* clock constants.  None of them is inductive alone: what protects the    *)
(* owner's disarm is the arm control AND the file AND the absence of a     *)
(* first trigger, and so on.  Inv is the strengthening, a conjunction of   *)
(* one part per property; every part is preserved by every step.           *)
(***************************************************************************)
EXTENDS AlarmRuntime, TLAPS

\* The cache knows the file, but after a restart that could read none and has
\* not managed to write one either.
Unread == stale /\ last_persisted = NoState

\* Nothing volatile survives a crash.
DownInv ==
  /\ pc = "down" =>
       /\ trigger = "no" /\ ~armed /\ ~alarm_triggered
       /\ ~auto_rearm_pending /\ ~observed_armed /\ ~calibrating
       /\ last_schedule = "unknown" /\ last_persisted = NoState
  /\ pc # "down" => last_persisted = state_file \/ Unread

\* While main is inside trigger_alarm the siren rings in a running incident.
TriggerInv ==
  trigger # "no" => alarm_triggered /\ siren_active

\* The owner's disarm is guarded by MANUAL, and by the file for the time after
\* the next crash.
HoldInv ==
  hold = "held" =>
    /\ ~armed /\ ~auto_rearm_pending
    /\ trigger # "first"
    /\ pc # "down" => arm_control = "MANUAL"
    /\ pc = "down" \/ ~stale => state_file.known /\ ~state_file.armed

RearmInv ==
  /\ temp_disarmed = "first" => auto_rearm_pending
  /\ auto_rearm_pending =>
       siren_active \/ timer = "callback" \/ siren_auto_stop_pending

FileInv ==
  pc # "down" /\ ~stale =>
    /\ state_file.known
    /\ state_file.armed = armed \/ (state_file.armed /\ alarm_triggered)

ObservedInv ==
  /\ observed_armed # armed => observed_armed /\ ~armed /\ alarm_triggered
  /\ calibrating => observed_armed

ScheduleInv ==
  arm_control = "SCHEDULE" /\ last_schedule # "unknown" =>
    armed = (last_schedule = "armed") \/ temp_disarmed = "repeat"

Inv ==
  /\ TypeOK /\ DownInv /\ TriggerInv /\ HoldInv /\ RearmInv
  /\ FileInv /\ ObservedInv /\ ScheduleInv
-----------------------------------------------------------------------------
(* Lemmas about the pieces of the handlers. *)

\* SaturatingAdd stays within its limit: the unsigned difference never wraps.
LEMMA SaturatingAddBounded ==
  ASSUME NEW limit \in Nat, NEW now \in 0 .. limit, NEW elapsed \in Nat
  PROVE  SaturatingAdd(now, elapsed, limit) \in 0 .. limit
  BY DEF SaturatingAdd

\* What every call of runtime_set_armed leaves behind, wherever it is made: the
\* runtime sees the arm state that holds, calibrates only when armed, and has
\* that state on disk unless this write failed.
SetArmedLeaves(next, control) ==
  /\ armed' = next /\ arm_control' = control /\ observed_armed' = next
  /\ camera_arm_grace_elapsed' \in 0 .. CAMERA_ARM_GRACE
  /\ calibrating' \in BOOLEAN /\ (calibrating' => next)
  /\ calibration_elapsed' \in 0 .. STATIC_CALIBRATION
  /\ completion_sms_pending' \in BOOLEAN
  /\ stale' \in BOOLEAN
  /\ {state_file', last_persisted'} \subseteq States \cup {NoState}
  /\ durable' = durable
  /\ last_persisted' = state_file' \/ Unread'
  /\ ~stale' => state_file'.known /\ state_file'.armed = next

\* What a write of the state file leaves behind, be it skipped, done or failed.
PersistLeaves(next) ==
  /\ stale' \in BOOLEAN
  /\ {state_file', last_persisted'} \subseteq States \cup {NoState}
  /\ durable' = durable
  /\ last_persisted' = state_file' \/ Unread'
  /\ ~stale' => state_file'.known /\ state_file'.armed = next

\* runtime_persist_armed_state leaves exactly that behind, also when the cache is
\* empty because the program has read no file.
LEMMA PersistEffect ==
  ASSUME TypeOK, last_persisted = state_file \/ last_persisted = NoState,
         NEW next \in BOOLEAN, NEW control \in Controls,
         RuntimePersistArmedState(next, control)
  PROVE  PersistLeaves(next)
<1> DEFINE written == [known |-> TRUE, armed |-> next, control |-> control]
<1>1. written \in States /\ written.known /\ written.armed = next
  BY DEF States
<1>2. written # NoState
  BY DEF NoState
<1>3. /\ durable' = durable
      /\ \/ last_persisted = written /\ stale' = FALSE /\ UNCHANGED <<state_file, last_persisted>>
         \/ state_file' = written /\ last_persisted' = written /\ stale' = FALSE
         \/ stale' = TRUE /\ UNCHANGED <<state_file, last_persisted>>
  BY DEF RuntimePersistArmedState
<1> HIDE DEF written
<1> QED
  BY <1>1, <1>2, <1>3 DEF PersistLeaves, Unread, TypeOK

\* runtime_set_armed leaves exactly that behind.
LEMMA SetArmedEffect ==
  ASSUME TypeOK, DownInv, ObservedInv, pc # "down",
         NEW next \in BOOLEAN, NEW control \in Controls, NEW recipients,
         RuntimeSetArmed(next, control, recipients)
  PROVE  SetArmedLeaves(next, control)
<1>1. /\ armed' = next /\ arm_control' = control /\ observed_armed' = next
      /\ camera_arm_grace_elapsed' \in 0 .. CAMERA_ARM_GRACE
  BY ClockAssumption
     DEF RuntimeSetArmed, AlarmLogicSetArmed, RuntimeNoteArmedState, TypeOK
<1>2. /\ calibrating' \in BOOLEAN /\ (calibrating' => next)
      /\ calibration_elapsed' \in 0 .. STATIC_CALIBRATION
      /\ completion_sms_pending' \in BOOLEAN
  BY ClockAssumption
     DEF RuntimeSetArmed, RuntimeNoteArmedState, TypeOK, ObservedInv, calib
<1>3. RuntimePersistArmedState(next, control)
  BY DEF RuntimeSetArmed
<1>4. last_persisted = state_file \/ Unread
  BY DEF DownInv
<1>5. PersistLeaves(next)
  BY <1>3, <1>4, PersistEffect DEF Unread
<1> QED
  BY <1>1, <1>2, <1>5 DEF SetArmedLeaves, PersistLeaves
-----------------------------------------------------------------------------
(* Every action preserves the invariant, one lemma per action.  The actions  *)
(* that go through runtime_set_armed use its effect and nothing of its body. *)

\* The initial states satisfy the invariant: nothing is armed, pending or written.
THEOREM InitInv == Init => Inv
<1> SUFFICES ASSUME Init PROVE Inv
  OBVIOUS
<1>1. TypeOK
  <2>1. /\ camera_arm_grace_elapsed \in 0 .. CAMERA_ARM_GRACE
        /\ calibration_elapsed \in 0 .. STATIC_CALIBRATION
    BY ClockAssumption DEF Init
  <2> QED
    BY <2>1 DEF Init, TypeOK, Phases, Controls
<1>2. DownInv /\ TriggerInv /\ HoldInv /\ RearmInv
  BY DEF Init, DownInv, TriggerInv, HoldInv, RearmInv
<1>3. FileInv /\ ObservedInv /\ ScheduleInv
  BY DEF Init, FileInv, ObservedInv, ScheduleInv
<1> QED
  BY <1>1, <1>2, <1>3 DEF Inv

\* The siren going off leaves its callback to come (runtime_loop.c 1042-1052).
LEMMA SirenDeadlinePreserves ==
  ASSUME Inv, SirenDeadline
  PROVE  Inv'
<1> USE DEF InPhase, alarm, siren, rearm, calib, disk, history
<1>1. TypeOK'
  <2>1. UNCHANGED <<camera_arm_grace_elapsed, calibration_elapsed, state_file, durable,
                 last_persisted>>
    BY DEF SirenDeadline
  <2>2. siren_active' \in BOOLEAN /\ timer' \in {"wait", "callback"}
    BY DEF SirenDeadline
  <2> QED
    BY <2>1, <2>2 DEF Inv, TypeOK, SirenDeadline
<1>2. DownInv'
  BY DEF Inv, TypeOK, Controls, DownInv, Unread, SirenDeadline
<1>3. TriggerInv'
  BY DEF Inv, TypeOK, Controls, TriggerInv, DownInv, SirenDeadline
<1>4. HoldInv'
  BY DEF Inv, TypeOK, Controls, HoldInv, DownInv, TriggerInv, SirenDeadline
<1>5. RearmInv'
  BY DEF Inv, TypeOK, Controls, RearmInv, TriggerInv, DownInv, SirenDeadline
<1>6. FileInv'
  BY DEF Inv, TypeOK, Controls, FileInv, TriggerInv, DownInv, SirenDeadline
<1>7. ObservedInv'
  BY DEF Inv, TypeOK, Controls, ObservedInv, TriggerInv, DownInv, SirenDeadline
<1>8. ScheduleInv'
  BY DEF Inv, TypeOK, Controls, ScheduleInv, DownInv, SirenDeadline
<1> QED
  BY <1>1, <1>2, <1>3, <1>4, <1>5, <1>6, <1>7, <1>8 DEF Inv

\* The late callback may only set the event of a re-arm that is still pending.
LEMMA TimerCallbackPreserves ==
  ASSUME Inv, TimerCallback
  PROVE  Inv'
<1> USE DEF InPhase, alarm, siren, rearm, calib, disk, history
<1>1. TypeOK'
  BY ClockAssumption
     DEF Inv, TypeOK, TimerCallback, Phases, Controls
<1>2. DownInv'
  BY DEF Inv, TypeOK, Controls, DownInv, Unread, TimerCallback
<1>3. TriggerInv'
  BY DEF Inv, TypeOK, Controls, TriggerInv, DownInv, TimerCallback
<1>4. HoldInv'
  BY DEF Inv, TypeOK, Controls, HoldInv, DownInv, TriggerInv, TimerCallback
<1>5. RearmInv'
  BY DEF Inv, TypeOK, Controls, RearmInv, TriggerInv, DownInv, TimerCallback
<1>6. FileInv'
  BY DEF Inv, TypeOK, Controls, FileInv, TriggerInv, DownInv, TimerCallback
<1>7. ObservedInv'
  BY DEF Inv, TypeOK, Controls, ObservedInv, TriggerInv, DownInv, TimerCallback
<1>8. ScheduleInv'
  BY DEF Inv, TypeOK, Controls, ScheduleInv, DownInv, TimerCallback
<1> QED
  BY <1>1, <1>2, <1>3, <1>4, <1>5, <1>6, <1>7, <1>8 DEF Inv

\* A pass without an SMS command changes the phase and nothing else.
LEMMA SmsNothingPreserves ==
  ASSUME Inv, SmsNothing
  PROVE  Inv'
<1> USE DEF InPhase, alarm, siren, rearm, calib, disk, history
<1>1. TypeOK'
  BY ClockAssumption
     DEF Inv, TypeOK, SmsNothing, Phases, Controls
<1>2. DownInv'
  BY DEF Inv, TypeOK, Controls, DownInv, Unread, SmsNothing
<1>3. TriggerInv'
  BY DEF Inv, TypeOK, Controls, TriggerInv, DownInv, SmsNothing
<1>4. HoldInv'
  BY DEF Inv, TypeOK, Controls, HoldInv, DownInv, TriggerInv, SmsNothing
<1>5. RearmInv'
  BY DEF Inv, TypeOK, Controls, RearmInv, TriggerInv, DownInv, SmsNothing
<1>6. FileInv'
  BY DEF Inv, TypeOK, Controls, FileInv, TriggerInv, DownInv, SmsNothing
<1>7. ObservedInv'
  BY DEF Inv, TypeOK, Controls, ObservedInv, TriggerInv, DownInv, SmsNothing
<1>8. ScheduleInv'
  BY DEF Inv, TypeOK, Controls, ScheduleInv, DownInv, SmsNothing
<1> QED
  BY <1>1, <1>2, <1>3, <1>4, <1>5, <1>6, <1>7, <1>8 DEF Inv

\* A pass without an app command changes the phase and nothing else.
LEMMA AppNothingPreserves ==
  ASSUME Inv, AppNothing
  PROVE  Inv'
<1> USE DEF InPhase, alarm, siren, rearm, calib, disk, history
<1>1. TypeOK'
  BY ClockAssumption
     DEF Inv, TypeOK, AppNothing, Phases, Controls
<1>2. DownInv'
  BY DEF Inv, TypeOK, Controls, DownInv, Unread, AppNothing
<1>3. TriggerInv'
  BY DEF Inv, TypeOK, Controls, TriggerInv, DownInv, AppNothing
<1>4. HoldInv'
  BY DEF Inv, TypeOK, Controls, HoldInv, DownInv, TriggerInv, AppNothing
<1>5. RearmInv'
  BY DEF Inv, TypeOK, Controls, RearmInv, TriggerInv, DownInv, AppNothing
<1>6. FileInv'
  BY DEF Inv, TypeOK, Controls, FileInv, TriggerInv, DownInv, AppNothing
<1>7. ObservedInv'
  BY DEF Inv, TypeOK, Controls, ObservedInv, TriggerInv, DownInv, AppNothing
<1>8. ScheduleInv'
  BY DEF Inv, TypeOK, Controls, ScheduleInv, DownInv, AppNothing
<1> QED
  BY <1>1, <1>2, <1>3, <1>4, <1>5, <1>6, <1>7, <1>8 DEF Inv

\* Leaving the camera queue changes the phase and nothing else.
LEMMA QueueDrainedPreserves ==
  ASSUME Inv, QueueDrained
  PROVE  Inv'
<1> USE DEF InPhase, alarm, siren, rearm, calib, disk, history
<1>1. TypeOK'
  BY ClockAssumption
     DEF Inv, TypeOK, QueueDrained, Phases, Controls
<1>2. DownInv'
  BY DEF Inv, TypeOK, Controls, DownInv, Unread, QueueDrained
<1>3. TriggerInv'
  BY DEF Inv, TypeOK, Controls, TriggerInv, DownInv, QueueDrained
<1>4. HoldInv'
  BY DEF Inv, TypeOK, Controls, HoldInv, DownInv, TriggerInv, QueueDrained
<1>5. RearmInv'
  BY DEF Inv, TypeOK, Controls, RearmInv, TriggerInv, DownInv, QueueDrained
<1>6. FileInv'
  BY DEF Inv, TypeOK, Controls, FileInv, TriggerInv, DownInv, QueueDrained
<1>7. ObservedInv'
  BY DEF Inv, TypeOK, Controls, ObservedInv, TriggerInv, DownInv, QueueDrained
<1>8. ScheduleInv'
  BY DEF Inv, TypeOK, Controls, ScheduleInv, DownInv, QueueDrained
<1> QED
  BY <1>1, <1>2, <1>3, <1>4, <1>5, <1>6, <1>7, <1>8 DEF Inv

\* Leaving the sensors changes the phase and nothing else.
LEMMA PollDonePreserves ==
  ASSUME Inv, PollDone
  PROVE  Inv'
<1> USE DEF InPhase, alarm, siren, rearm, calib, disk, history
<1>1. TypeOK'
  BY ClockAssumption
     DEF Inv, TypeOK, PollDone, Phases, Controls
<1>2. DownInv'
  BY DEF Inv, TypeOK, Controls, DownInv, Unread, PollDone
<1>3. TriggerInv'
  BY DEF Inv, TypeOK, Controls, TriggerInv, DownInv, PollDone
<1>4. HoldInv'
  BY DEF Inv, TypeOK, Controls, HoldInv, DownInv, TriggerInv, PollDone
<1>5. RearmInv'
  BY DEF Inv, TypeOK, Controls, RearmInv, TriggerInv, DownInv, PollDone
<1>6. FileInv'
  BY DEF Inv, TypeOK, Controls, FileInv, TriggerInv, DownInv, PollDone
<1>7. ObservedInv'
  BY DEF Inv, TypeOK, Controls, ObservedInv, TriggerInv, DownInv, PollDone
<1>8. ScheduleInv'
  BY DEF Inv, TypeOK, Controls, ScheduleInv, DownInv, PollDone
<1> QED
  BY <1>1, <1>2, <1>3, <1>4, <1>5, <1>6, <1>7, <1>8 DEF Inv

\* The wall clock moves apart from what the schedule last saw.
LEMMA ClockBoundaryPreserves ==
  ASSUME Inv, ClockBoundary
  PROVE  Inv'
<1> USE DEF InPhase, alarm, siren, rearm, calib, disk, history
<1>1. TypeOK'
  BY ClockAssumption
     DEF Inv, TypeOK, ClockBoundary, Phases, Controls
<1>2. DownInv'
  BY DEF Inv, TypeOK, Controls, DownInv, Unread, ClockBoundary
<1>3. TriggerInv'
  BY DEF Inv, TypeOK, Controls, TriggerInv, DownInv, ClockBoundary
<1>4. HoldInv'
  BY DEF Inv, TypeOK, Controls, HoldInv, DownInv, TriggerInv, ClockBoundary
<1>5. RearmInv'
  BY DEF Inv, TypeOK, Controls, RearmInv, TriggerInv, DownInv, ClockBoundary
<1>6. FileInv'
  BY DEF Inv, TypeOK, Controls, FileInv, TriggerInv, DownInv, ClockBoundary
<1>7. ObservedInv'
  BY DEF Inv, TypeOK, Controls, ObservedInv, TriggerInv, DownInv, ClockBoundary
<1>8. ScheduleInv'
  BY DEF Inv, TypeOK, Controls, ScheduleInv, DownInv, ClockBoundary
<1> QED
  BY <1>1, <1>2, <1>3, <1>4, <1>5, <1>6, <1>7, <1>8 DEF Inv

\* The first half of trigger_alarm, from a sensor that alarms in either arm state.
LEMMA PanicSmokeOrTamperPreserves ==
  ASSUME Inv, PanicSmokeOrTamper
  PROVE  Inv'
<1> USE DEF InPhase, alarm, siren, rearm, calib, disk, history
<1>1. TypeOK'
  BY ClockAssumption
     DEF Inv, TypeOK, PanicSmokeOrTamper, Phases, Controls, RaiseAlarm
<1>2. DownInv'
  BY DEF Inv, TypeOK, Controls, DownInv, Unread, PanicSmokeOrTamper, RaiseAlarm
<1>3. TriggerInv'
  BY DEF Inv, TypeOK, Controls, TriggerInv, DownInv, PanicSmokeOrTamper, RaiseAlarm
<1>4. HoldInv'
  BY DEF Inv, TypeOK, Controls, HoldInv, DownInv, TriggerInv, PanicSmokeOrTamper, RaiseAlarm
<1>5. RearmInv'
  BY DEF Inv, TypeOK, Controls, RearmInv, TriggerInv, DownInv, PanicSmokeOrTamper, RaiseAlarm
<1>6. FileInv'
  BY DEF Inv, TypeOK, Controls, FileInv, TriggerInv, DownInv, PanicSmokeOrTamper, RaiseAlarm
<1>7. ObservedInv'
  BY DEF Inv, TypeOK, Controls, ObservedInv, TriggerInv, DownInv, PanicSmokeOrTamper, RaiseAlarm
<1>8. ScheduleInv'
  BY DEF Inv, TypeOK, Controls, ScheduleInv, DownInv, PanicSmokeOrTamper, RaiseAlarm
<1> QED
  BY <1>1, <1>2, <1>3, <1>4, <1>5, <1>6, <1>7, <1>8 DEF Inv

\* The first half of trigger_alarm, from a shutter opened in an armed shop.
LEMMA ShutterOpenPreserves ==
  ASSUME Inv, ShutterOpen
  PROVE  Inv'
<1> USE DEF InPhase, alarm, siren, rearm, calib, disk, history
<1>1. TypeOK'
  BY ClockAssumption
     DEF Inv, TypeOK, ShutterOpen, Phases, Controls, RaiseAlarm
<1>2. DownInv'
  BY DEF Inv, TypeOK, Controls, DownInv, Unread, ShutterOpen, RaiseAlarm
<1>3. TriggerInv'
  BY DEF Inv, TypeOK, Controls, TriggerInv, DownInv, ShutterOpen, RaiseAlarm
<1>4. HoldInv'
  BY DEF Inv, TypeOK, Controls, HoldInv, DownInv, TriggerInv, ShutterOpen, RaiseAlarm
<1>5. RearmInv'
  BY DEF Inv, TypeOK, Controls, RearmInv, TriggerInv, DownInv, ShutterOpen, RaiseAlarm
<1>6. FileInv'
  BY DEF Inv, TypeOK, Controls, FileInv, TriggerInv, DownInv, ShutterOpen, RaiseAlarm
<1>7. ObservedInv'
  BY DEF Inv, TypeOK, Controls, ObservedInv, TriggerInv, DownInv, ShutterOpen, RaiseAlarm
<1>8. ScheduleInv'
  BY DEF Inv, TypeOK, Controls, ScheduleInv, DownInv, ShutterOpen, RaiseAlarm
<1> QED
  BY <1>1, <1>2, <1>3, <1>4, <1>5, <1>6, <1>7, <1>8 DEF Inv

\* A camera result notes the arm state, and may be the first half of an alarm.
LEMMA CameraResultPreserves ==
  ASSUME Inv, CameraResult
  PROVE  Inv'
<1> USE DEF InPhase, alarm, siren, rearm, calib, disk, history
<1>1. TypeOK'
  <2>1. /\ camera_arm_grace_elapsed' \in 0 .. CAMERA_ARM_GRACE
        /\ calibration_elapsed' \in 0 .. STATIC_CALIBRATION
    BY ClockAssumption DEF Inv, TypeOK, CameraResult, RaiseAlarm, RuntimeNoteArmedState
  <2>2. /\ state_file' \in States \cup {NoState}
        /\ last_persisted' \in States \cup {NoState}
        /\ durable' \in States \cup {NoState}
    BY DEF Inv, TypeOK, CameraResult, RaiseAlarm, RuntimeNoteArmedState
  <2>3. completion_sms_pending' \in BOOLEAN /\ calibrating' \in BOOLEAN
    BY DEF Inv, TypeOK, CameraResult, RuntimeNoteArmedState
  <2>4. /\ pc' \in Phases \cup {"down"}
        /\ trigger' \in {"no", "first", "repeat"}
        /\ hold' \in {"no", "held"}
    BY DEF Inv, TypeOK, CameraResult, RaiseAlarm
  <2>5. /\ alarm_triggered' \in BOOLEAN /\ siren_active' \in BOOLEAN
        /\ observed_armed' \in BOOLEAN
    BY DEF Inv, TypeOK, CameraResult, RaiseAlarm, RuntimeNoteArmedState
  <2>6. UNCHANGED <<armed, timer, rearm, arm_control, last_schedule, in_window,
                    stale, temp_disarmed>>
    BY DEF CameraResult, RaiseAlarm
  <2> QED
    BY <2>1, <2>2, <2>3, <2>4, <2>5, <2>6 DEF Inv, TypeOK
<1>2. DownInv'
  BY DEF Inv, TypeOK, Controls, DownInv, Unread, CameraResult, RaiseAlarm, RuntimeNoteArmedState
<1>3. TriggerInv'
  BY DEF Inv, TypeOK, Controls, TriggerInv, DownInv, CameraResult, RaiseAlarm, RuntimeNoteArmedState
<1>4. HoldInv'
  BY DEF Inv, TypeOK, Controls, HoldInv, DownInv, TriggerInv, CameraResult, RaiseAlarm, RuntimeNoteArmedState
<1>5. RearmInv'
  BY DEF Inv, TypeOK, Controls, RearmInv, TriggerInv, DownInv, CameraResult, RaiseAlarm, RuntimeNoteArmedState
<1>6. FileInv'
  BY DEF Inv, TypeOK, Controls, FileInv, TriggerInv, DownInv, CameraResult, RaiseAlarm, RuntimeNoteArmedState
<1>7. ObservedInv'
  BY DEF Inv, TypeOK, Controls, ObservedInv, TriggerInv, DownInv, CameraResult, RaiseAlarm, RuntimeNoteArmedState
<1>8. ScheduleInv'
  BY DEF Inv, TypeOK, Controls, ScheduleInv, DownInv, CameraResult, RaiseAlarm, RuntimeNoteArmedState
<1> QED
  BY <1>1, <1>2, <1>3, <1>4, <1>5, <1>6, <1>7, <1>8 DEF Inv

\* The clocks of the main loop saturate, and a calibration that ends takes its SMS with it.
LEMMA AlarmTickPreserves ==
  ASSUME Inv, AlarmTick
  PROVE  Inv'
<1> USE DEF InPhase, alarm, siren, rearm, calib, disk, history
<1>1. TypeOK'
  <2>1. /\ camera_arm_grace_elapsed' \in 0 .. CAMERA_ARM_GRACE
        /\ calibration_elapsed' \in 0 .. STATIC_CALIBRATION
    BY ClockAssumption, SaturatingAddBounded DEF Inv, TypeOK, AlarmTick
  <2>2. /\ state_file' \in States \cup {NoState}
        /\ last_persisted' \in States \cup {NoState}
        /\ durable' \in States \cup {NoState}
    BY DEF Inv, TypeOK, AlarmTick
  <2> QED
    BY <2>1, <2>2 DEF Inv, TypeOK, Phases, Controls, AlarmTick
<1>2. DownInv'
  BY DEF Inv, TypeOK, Controls, DownInv, Unread, AlarmTick
<1>3. TriggerInv'
  BY DEF Inv, TypeOK, Controls, TriggerInv, DownInv, AlarmTick
<1>4. HoldInv'
  BY DEF Inv, TypeOK, Controls, HoldInv, DownInv, TriggerInv, AlarmTick
<1>5. RearmInv'
  BY DEF Inv, TypeOK, Controls, RearmInv, TriggerInv, DownInv, AlarmTick
<1>6. FileInv'
  BY DEF Inv, TypeOK, Controls, FileInv, TriggerInv, DownInv, AlarmTick
<1>7. ObservedInv'
  BY DEF Inv, TypeOK, Controls, ObservedInv, TriggerInv, DownInv, AlarmTick
<1>8. ScheduleInv'
  BY DEF Inv, TypeOK, Controls, ScheduleInv, DownInv, AlarmTick
<1> QED
  BY <1>1, <1>2, <1>3, <1>4, <1>5, <1>6, <1>7, <1>8 DEF Inv

\* After a death nothing is left but the file; the owner's hold is kept only with
\* a file that was written down.
LEMMA DiesPreserves ==
  ASSUME Inv, NEW written_down \in BOOLEAN, Dies(written_down),
         written_down => ~stale /\ UNCHANGED state_file,
         state_file' \in States \cup {NoState}, durable' \in States \cup {NoState}
  PROVE  Inv'
<1>1. TypeOK'
  <2>1. /\ camera_arm_grace_elapsed' \in 0 .. CAMERA_ARM_GRACE
        /\ calibration_elapsed' \in 0 .. STATIC_CALIBRATION
    BY ClockAssumption DEF Inv, TypeOK, Dies
  <2>2. last_persisted' \in States \cup {NoState}
    BY DEF Dies
  <2> QED
    BY <2>1, <2>2 DEF Inv, TypeOK, Phases, Controls, Dies
<1>2. DownInv' /\ TriggerInv' /\ RearmInv' /\ FileInv' /\ ObservedInv' /\ ScheduleInv'
  BY DEF DownInv, TriggerInv, RearmInv, FileInv, ObservedInv, ScheduleInv, Dies
<1>3. HoldInv'
  <2>1. CASE written_down
    BY <2>1 DEF Inv, HoldInv, Dies
  <2>2. CASE ~written_down
    BY <2>2 DEF HoldInv, Dies
  <2> QED BY <2>1, <2>2
<1> QED
  BY <1>1, <1>2, <1>3 DEF Inv

\* The process dies: the file is as it was.
LEMMA CrashPreserves ==
  ASSUME Inv, Crash
  PROVE  Inv'
<1>1. state_file' \in States \cup {NoState} /\ durable' \in States \cup {NoState}
  BY DEF Inv, TypeOK, Crash
<1> DEFINE kept == ~stale
<1>2. kept \in BOOLEAN /\ Dies(kept) /\ (kept => ~stale /\ UNCHANGED state_file)
  BY DEF Crash
<1> HIDE DEF kept
<1> QED
  BY <1>1, <1>2, DiesPreserves

\* The power is cut: the file may be as it was before, or empty, unless it was
\* flushed.
LEMMA PowerCutPreserves ==
  ASSUME Inv, PowerCut
  PROVE  Inv'
<1> DEFINE kept == ~stale /\ durable = state_file
<1>1. state_file' \in States \cup {NoState} /\ durable' \in States \cup {NoState}
  BY DEF Inv, TypeOK, PowerCut
<1>2. kept \in BOOLEAN /\ (kept => ~stale /\ UNCHANGED state_file)
  BY DEF PowerCut
<1>3. Dies(kept)
  BY DEF PowerCut
<1> HIDE DEF kept
<1> QED
  BY <1>1, <1>2, <1>3, DiesPreserves

\* Flushing the file changes nothing that the program can see.
LEMMA WritebackPreserves ==
  ASSUME Inv, Writeback
  PROVE  Inv'
<1> USE DEF Writeback, alarm, siren, rearm, calib, history
<1>1. TypeOK'
  BY DEF Inv, TypeOK
<1>2. DownInv' /\ TriggerInv' /\ HoldInv' /\ RearmInv'
  BY DEF Inv, DownInv, Unread, TriggerInv, HoldInv, RearmInv
<1>3. FileInv' /\ ObservedInv' /\ ScheduleInv'
  BY DEF Inv, FileInv, ObservedInv, ScheduleInv
<1> QED
  BY <1>1, <1>2, <1>3 DEF Inv

\* DISARM by SMS: disarmed, noted, written, nothing pending.
LEMMA SmsDisarmPreserves ==
  ASSUME Inv, SmsDisarm
  PROVE  Inv'
<1> USE DEF InPhase, rearm, siren
<1>1. SetArmedLeaves(FALSE, "MANUAL")
  <2>1. /\ RuntimeSetArmed(FALSE, "MANUAL", "contacts")
        /\ pc # "down"
    BY DEF SmsDisarm, OwnerDisarms
  <2> QED
    BY <2>1, SetArmedEffect DEF Inv, Controls
<1>2. TypeOK'
  BY <1>1 DEF Inv, TypeOK, Phases, Controls, SetArmedLeaves, SmsDisarm, RuntimeCancelAutoRearm, OwnerDisarms
<1>3. DownInv'
  BY <1>1 DEF Inv, TypeOK, DownInv, Unread, SetArmedLeaves, SmsDisarm, RuntimeCancelAutoRearm, OwnerDisarms
<1>4. TriggerInv'
  BY <1>1 DEF Inv, TypeOK, TriggerInv, DownInv, SetArmedLeaves, SmsDisarm, RuntimeCancelAutoRearm, OwnerDisarms
<1>5. HoldInv'
  BY <1>1 DEF Inv, TypeOK, HoldInv, DownInv, TriggerInv, SetArmedLeaves, SmsDisarm, RuntimeCancelAutoRearm, OwnerDisarms
<1>6. RearmInv'
  BY <1>1 DEF Inv, TypeOK, RearmInv, TriggerInv, DownInv, SetArmedLeaves, SmsDisarm, RuntimeCancelAutoRearm, OwnerDisarms
<1>7. FileInv'
  BY <1>1 DEF Inv, TypeOK, FileInv, TriggerInv, DownInv, SetArmedLeaves, SmsDisarm, RuntimeCancelAutoRearm, OwnerDisarms
<1>8. ObservedInv'
  BY <1>1 DEF Inv, TypeOK, ObservedInv, TriggerInv, DownInv, SetArmedLeaves, SmsDisarm, RuntimeCancelAutoRearm, OwnerDisarms
<1>9. ScheduleInv'
  BY <1>1 DEF Inv, TypeOK, ScheduleInv, DownInv, SetArmedLeaves, SmsDisarm, RuntimeCancelAutoRearm, OwnerDisarms
<1> QED
  BY <1>2, <1>3, <1>4, <1>5, <1>6, <1>7, <1>8, <1>9 DEF Inv

\* DISARM by the app: disarmed, noted, written, nothing pending.
LEMMA AppDisarmPreserves ==
  ASSUME Inv, AppDisarm
  PROVE  Inv'
<1> USE DEF InPhase, rearm, siren
<1>1. SetArmedLeaves(FALSE, "MANUAL")
  <2>1. /\ RuntimeSetArmed(FALSE, "MANUAL", "contacts")
        /\ pc # "down"
    BY DEF AppDisarm, OwnerDisarms
  <2> QED
    BY <2>1, SetArmedEffect DEF Inv, Controls
<1>2. TypeOK'
  BY <1>1 DEF Inv, TypeOK, Phases, Controls, SetArmedLeaves, AppDisarm, RuntimeCancelAutoRearm, OwnerDisarms
<1>3. DownInv'
  BY <1>1 DEF Inv, TypeOK, DownInv, Unread, SetArmedLeaves, AppDisarm, RuntimeCancelAutoRearm, OwnerDisarms
<1>4. TriggerInv'
  BY <1>1 DEF Inv, TypeOK, TriggerInv, DownInv, SetArmedLeaves, AppDisarm, RuntimeCancelAutoRearm, OwnerDisarms
<1>5. HoldInv'
  BY <1>1 DEF Inv, TypeOK, HoldInv, DownInv, TriggerInv, SetArmedLeaves, AppDisarm, RuntimeCancelAutoRearm, OwnerDisarms
<1>6. RearmInv'
  BY <1>1 DEF Inv, TypeOK, RearmInv, TriggerInv, DownInv, SetArmedLeaves, AppDisarm, RuntimeCancelAutoRearm, OwnerDisarms
<1>7. FileInv'
  BY <1>1 DEF Inv, TypeOK, FileInv, TriggerInv, DownInv, SetArmedLeaves, AppDisarm, RuntimeCancelAutoRearm, OwnerDisarms
<1>8. ObservedInv'
  BY <1>1 DEF Inv, TypeOK, ObservedInv, TriggerInv, DownInv, SetArmedLeaves, AppDisarm, RuntimeCancelAutoRearm, OwnerDisarms
<1>9. ScheduleInv'
  BY <1>1 DEF Inv, TypeOK, ScheduleInv, DownInv, SetArmedLeaves, AppDisarm, RuntimeCancelAutoRearm, OwnerDisarms
<1> QED
  BY <1>2, <1>3, <1>4, <1>5, <1>6, <1>7, <1>8, <1>9 DEF Inv

\* STOP ends the incident and disarms.
LEMMA SmsStopPreserves ==
  ASSUME Inv, SmsStop
  PROVE  Inv'
<1> USE DEF InPhase, rearm, siren
<1>1. SetArmedLeaves(FALSE, "MANUAL")
  <2>1. /\ RuntimeSetArmed(FALSE, "MANUAL", "contacts")
        /\ pc # "down"
    BY DEF SmsStop, OwnerDisarms
  <2> QED
    BY <2>1, SetArmedEffect DEF Inv, Controls
<1>2. TypeOK'
  BY <1>1 DEF Inv, TypeOK, Phases, Controls, SetArmedLeaves, SmsStop, RuntimeCancelAutoRearm, OwnerDisarms
<1>3. DownInv'
  BY <1>1 DEF Inv, TypeOK, DownInv, Unread, SetArmedLeaves, SmsStop, RuntimeCancelAutoRearm, OwnerDisarms
<1>4. TriggerInv'
  BY <1>1 DEF Inv, TypeOK, TriggerInv, DownInv, SetArmedLeaves, SmsStop, RuntimeCancelAutoRearm, OwnerDisarms
<1>5. HoldInv'
  BY <1>1 DEF Inv, TypeOK, HoldInv, DownInv, TriggerInv, SetArmedLeaves, SmsStop, RuntimeCancelAutoRearm, OwnerDisarms
<1>6. RearmInv'
  BY <1>1 DEF Inv, TypeOK, RearmInv, TriggerInv, DownInv, SetArmedLeaves, SmsStop, RuntimeCancelAutoRearm, OwnerDisarms
<1>7. FileInv'
  BY <1>1 DEF Inv, TypeOK, FileInv, TriggerInv, DownInv, SetArmedLeaves, SmsStop, RuntimeCancelAutoRearm, OwnerDisarms
<1>8. ObservedInv'
  BY <1>1 DEF Inv, TypeOK, ObservedInv, TriggerInv, DownInv, SetArmedLeaves, SmsStop, RuntimeCancelAutoRearm, OwnerDisarms
<1>9. ScheduleInv'
  BY <1>1 DEF Inv, TypeOK, ScheduleInv, DownInv, SetArmedLeaves, SmsStop, RuntimeCancelAutoRearm, OwnerDisarms
<1> QED
  BY <1>2, <1>3, <1>4, <1>5, <1>6, <1>7, <1>8, <1>9 DEF Inv

\* The app arms by force.
LEMMA AppArmPreserves ==
  ASSUME Inv, AppArm
  PROVE  Inv'
<1> USE DEF InPhase, rearm, siren
<1>1. SetArmedLeaves(TRUE, "MANUAL")
  <2>1. /\ RuntimeSetArmed(TRUE, "MANUAL", "contacts")
        /\ pc # "down"
    BY DEF AppArm
  <2> QED
    BY <2>1, SetArmedEffect DEF Inv, Controls
<1>2. TypeOK'
  BY <1>1 DEF Inv, TypeOK, Phases, Controls, SetArmedLeaves, AppArm, RuntimeCancelAutoRearm
<1>3. DownInv'
  BY <1>1 DEF Inv, TypeOK, DownInv, Unread, SetArmedLeaves, AppArm, RuntimeCancelAutoRearm
<1>4. TriggerInv'
  BY <1>1 DEF Inv, TypeOK, TriggerInv, DownInv, SetArmedLeaves, AppArm, RuntimeCancelAutoRearm
<1>5. HoldInv'
  BY <1>1 DEF Inv, TypeOK, HoldInv, DownInv, TriggerInv, SetArmedLeaves, AppArm, RuntimeCancelAutoRearm
<1>6. RearmInv'
  BY <1>1 DEF Inv, TypeOK, RearmInv, TriggerInv, DownInv, SetArmedLeaves, AppArm, RuntimeCancelAutoRearm
<1>7. FileInv'
  BY <1>1 DEF Inv, TypeOK, FileInv, TriggerInv, DownInv, SetArmedLeaves, AppArm, RuntimeCancelAutoRearm
<1>8. ObservedInv'
  BY <1>1 DEF Inv, TypeOK, ObservedInv, TriggerInv, DownInv, SetArmedLeaves, AppArm, RuntimeCancelAutoRearm
<1>9. ScheduleInv'
  BY <1>1 DEF Inv, TypeOK, ScheduleInv, DownInv, SetArmedLeaves, AppArm, RuntimeCancelAutoRearm
<1> QED
  BY <1>2, <1>3, <1>4, <1>5, <1>6, <1>7, <1>8, <1>9 DEF Inv

\* ARM by SMS, accepted or not.
LEMMA SmsArmPreserves ==
  ASSUME Inv, SmsArm
  PROVE  Inv'
<1> USE DEF InPhase, rearm, siren
<1>1. PICK accepted \in BOOLEAN : RuntimeSetArmed(accepted, "MANUAL", "sender")
  BY DEF SmsArm
<1>2. SetArmedLeaves(accepted, "MANUAL")
  <2>1. pc # "down"
    BY DEF SmsArm
  <2> QED
    BY <1>1, <2>1, SetArmedEffect DEF Inv, Controls
<1>3. QED
  <2>1. TypeOK'
    BY <1>2 DEF Inv, TypeOK, Phases, Controls, SetArmedLeaves, SmsArm, RuntimeCancelAutoRearm
  <2>2. DownInv'
    BY <1>2 DEF Inv, TypeOK, DownInv, Unread, SetArmedLeaves, SmsArm, RuntimeCancelAutoRearm
  <2>3. TriggerInv'
    BY <1>2 DEF Inv, TypeOK, TriggerInv, DownInv, SetArmedLeaves, SmsArm, RuntimeCancelAutoRearm
  <2>4. HoldInv'
    BY <1>2 DEF Inv, TypeOK, HoldInv, DownInv, TriggerInv, SetArmedLeaves, SmsArm, RuntimeCancelAutoRearm
  <2>5. RearmInv'
    BY <1>2 DEF Inv, TypeOK, RearmInv, TriggerInv, DownInv, SetArmedLeaves, SmsArm, RuntimeCancelAutoRearm
  <2>6. FileInv'
    BY <1>2 DEF Inv, TypeOK, FileInv, TriggerInv, DownInv, SetArmedLeaves, SmsArm, RuntimeCancelAutoRearm
  <2>7. ObservedInv'
    BY <1>2 DEF Inv, TypeOK, ObservedInv, TriggerInv, DownInv, SetArmedLeaves, SmsArm, RuntimeCancelAutoRearm
  <2>8. ScheduleInv'
    BY <1>2 DEF Inv, TypeOK, ScheduleInv, DownInv, SetArmedLeaves, SmsArm, RuntimeCancelAutoRearm
  <2> QED
    BY <2>1, <2>2, <2>3, <2>4, <2>5, <2>6, <2>7, <2>8 DEF Inv

\* The automatic re-arm takes both its flags at once.
LEMMA ProcessAutoRearmPreserves ==
  ASSUME Inv, ProcessAutoRearm
  PROVE  Inv'
<1> USE DEF InPhase, rearm, siren, alarm, calib, disk
<1>1. CASE auto_rearm_pending /\ siren_auto_stop_pending
  <2>a. PICK preflight \in BOOLEAN : RuntimeSetArmed(preflight, "MANUAL", "contacts")
    BY <1>1 DEF ProcessAutoRearm
  <2>b. SetArmedLeaves(preflight, "MANUAL")
    <3>1. pc # "down"
      BY DEF ProcessAutoRearm
    <3> QED
      BY <2>a, <3>1, SetArmedEffect DEF Inv, Controls
  <2>1. TypeOK'
    BY <1>1, <2>b DEF Inv, TypeOK, Phases, Controls, SetArmedLeaves, ProcessAutoRearm, RuntimeCancelAutoRearm
  <2>2. DownInv'
    BY <1>1, <2>b DEF Inv, TypeOK, DownInv, Unread, SetArmedLeaves, ProcessAutoRearm, RuntimeCancelAutoRearm
  <2>3. TriggerInv'
    BY <1>1, <2>b DEF Inv, TypeOK, TriggerInv, DownInv, SetArmedLeaves, ProcessAutoRearm, RuntimeCancelAutoRearm
  <2>4. HoldInv'
    BY <1>1, <2>b DEF Inv, TypeOK, HoldInv, DownInv, TriggerInv, SetArmedLeaves, ProcessAutoRearm, RuntimeCancelAutoRearm
  <2>5. RearmInv'
    BY <1>1, <2>b DEF Inv, TypeOK, RearmInv, TriggerInv, DownInv, SetArmedLeaves, ProcessAutoRearm, RuntimeCancelAutoRearm
  <2>6. FileInv'
    BY <1>1, <2>b DEF Inv, TypeOK, FileInv, TriggerInv, DownInv, SetArmedLeaves, ProcessAutoRearm, RuntimeCancelAutoRearm
  <2>7. ObservedInv'
    BY <1>1, <2>b DEF Inv, TypeOK, ObservedInv, TriggerInv, DownInv, SetArmedLeaves, ProcessAutoRearm, RuntimeCancelAutoRearm
  <2>8. ScheduleInv'
    BY <1>1, <2>b DEF Inv, TypeOK, ScheduleInv, DownInv, SetArmedLeaves, ProcessAutoRearm, RuntimeCancelAutoRearm
  <2> QED
    BY <2>1, <2>2, <2>3, <2>4, <2>5, <2>6, <2>7, <2>8 DEF Inv
<1>2. CASE ~(auto_rearm_pending /\ siren_auto_stop_pending)
  <2>1. TypeOK'
    BY <1>2 DEF Inv, TypeOK, Phases, Controls, ProcessAutoRearm
  <2>2. DownInv'
    BY <1>2 DEF Inv, TypeOK, DownInv, Unread, ProcessAutoRearm
  <2>3. TriggerInv'
    BY <1>2 DEF Inv, TypeOK, TriggerInv, DownInv, ProcessAutoRearm
  <2>4. HoldInv'
    BY <1>2 DEF Inv, TypeOK, HoldInv, DownInv, TriggerInv, ProcessAutoRearm
  <2>5. RearmInv'
    BY <1>2 DEF Inv, TypeOK, RearmInv, TriggerInv, DownInv, ProcessAutoRearm
  <2>6. FileInv'
    BY <1>2 DEF Inv, TypeOK, FileInv, TriggerInv, DownInv, ProcessAutoRearm
  <2>7. ObservedInv'
    BY <1>2 DEF Inv, TypeOK, ObservedInv, TriggerInv, DownInv, ProcessAutoRearm
  <2>8. ScheduleInv'
    BY <1>2 DEF Inv, TypeOK, ScheduleInv, DownInv, ProcessAutoRearm
  <2> QED
    BY <2>1, <2>2, <2>3, <2>4, <2>5, <2>6, <2>7, <2>8 DEF Inv
<1> QED
  BY <1>1, <1>2

\* A schedule pass: held by the owner, applied, or blocked by the preflight.
LEMMA ApplySchedulePreserves ==
  ASSUME Inv, ApplySchedule
  PROVE  Inv'
<1> USE DEF InPhase, rearm, siren, alarm, calib, disk
<1>1. CASE HeldByOverride
  <2>1. TypeOK'
    BY <1>1 DEF Inv, TypeOK, Phases, Controls, ApplySchedule, HeldByOverride, AtBoundary, Scheduled
  <2>2. DownInv'
    BY <1>1 DEF Inv, TypeOK, DownInv, Unread, ApplySchedule, HeldByOverride, AtBoundary, Scheduled
  <2>3. TriggerInv'
    BY <1>1 DEF Inv, TypeOK, TriggerInv, DownInv, ApplySchedule, HeldByOverride, AtBoundary, Scheduled
  <2>4. HoldInv'
    BY <1>1 DEF Inv, TypeOK, HoldInv, DownInv, TriggerInv, ApplySchedule, HeldByOverride, AtBoundary, Scheduled
  <2>5. RearmInv'
    BY <1>1 DEF Inv, TypeOK, RearmInv, TriggerInv, DownInv, ApplySchedule, HeldByOverride, AtBoundary, Scheduled
  <2>6. FileInv'
    BY <1>1 DEF Inv, TypeOK, FileInv, TriggerInv, DownInv, ApplySchedule, HeldByOverride, AtBoundary, Scheduled
  <2>7. ObservedInv'
    BY <1>1 DEF Inv, TypeOK, ObservedInv, TriggerInv, DownInv, ApplySchedule, HeldByOverride, AtBoundary, Scheduled
  <2>8. ScheduleInv'
    BY <1>1 DEF Inv, TypeOK, ScheduleInv, DownInv, ApplySchedule, HeldByOverride, AtBoundary, Scheduled
  <2> QED
    BY <2>1, <2>2, <2>3, <2>4, <2>5, <2>6, <2>7, <2>8 DEF Inv
<1>2. CASE ~HeldByOverride /\ RuntimeSetArmed(in_window, "SCHEDULE", "contacts")
  <2>a. SetArmedLeaves(in_window, "SCHEDULE")
    <3>1. pc # "down"
      BY DEF ApplySchedule
    <3> QED
      BY <1>2, <3>1, SetArmedEffect DEF Inv, TypeOK, Controls
  <2>1. TypeOK'
    BY <1>2, <2>a DEF Inv, TypeOK, Phases, Controls, SetArmedLeaves, ApplySchedule, HeldByOverride, AtBoundary, Scheduled
  <2>2. DownInv'
    BY <1>2, <2>a DEF Inv, TypeOK, DownInv, Unread, SetArmedLeaves, ApplySchedule, HeldByOverride, AtBoundary, Scheduled
  <2>3. TriggerInv'
    BY <1>2, <2>a DEF Inv, TypeOK, TriggerInv, DownInv, SetArmedLeaves, ApplySchedule, HeldByOverride, AtBoundary, Scheduled
  <2>4. HoldInv'
    BY <1>2, <2>a DEF Inv, TypeOK, HoldInv, DownInv, TriggerInv, SetArmedLeaves, ApplySchedule, HeldByOverride, AtBoundary, Scheduled
  <2>5. RearmInv'
    BY <1>2, <2>a DEF Inv, TypeOK, RearmInv, TriggerInv, DownInv, SetArmedLeaves, ApplySchedule, HeldByOverride, AtBoundary, Scheduled
  <2>6. FileInv'
    BY <1>2, <2>a DEF Inv, TypeOK, FileInv, TriggerInv, DownInv, SetArmedLeaves, ApplySchedule, HeldByOverride, AtBoundary, Scheduled
  <2>7. ObservedInv'
    BY <1>2, <2>a DEF Inv, TypeOK, ObservedInv, TriggerInv, DownInv, SetArmedLeaves, ApplySchedule, HeldByOverride, AtBoundary, Scheduled
  <2>8. ScheduleInv'
    BY <1>2, <2>a DEF Inv, TypeOK, ScheduleInv, DownInv, SetArmedLeaves, ApplySchedule, HeldByOverride, AtBoundary, Scheduled
  <2> QED
    BY <2>1, <2>2, <2>3, <2>4, <2>5, <2>6, <2>7, <2>8 DEF Inv
<1>3. CASE /\ ~HeldByOverride /\ in_window /\ arm_control' = "MANUAL"
           /\ UNCHANGED <<alarm, observed_armed, calib, completion_sms_pending, disk>>
  <2>1. TypeOK'
    BY <1>3 DEF Inv, TypeOK, Phases, Controls, ApplySchedule, HeldByOverride, AtBoundary, Scheduled
  <2>2. DownInv'
    BY <1>3 DEF Inv, TypeOK, DownInv, Unread, ApplySchedule, HeldByOverride, AtBoundary, Scheduled
  <2>3. TriggerInv'
    BY <1>3 DEF Inv, TypeOK, TriggerInv, DownInv, ApplySchedule, HeldByOverride, AtBoundary, Scheduled
  <2>4. HoldInv'
    BY <1>3 DEF Inv, TypeOK, HoldInv, DownInv, TriggerInv, ApplySchedule, HeldByOverride, AtBoundary, Scheduled
  <2>5. RearmInv'
    BY <1>3 DEF Inv, TypeOK, RearmInv, TriggerInv, DownInv, ApplySchedule, HeldByOverride, AtBoundary, Scheduled
  <2>6. FileInv'
    BY <1>3 DEF Inv, TypeOK, FileInv, TriggerInv, DownInv, ApplySchedule, HeldByOverride, AtBoundary, Scheduled
  <2>7. ObservedInv'
    BY <1>3 DEF Inv, TypeOK, ObservedInv, TriggerInv, DownInv, ApplySchedule, HeldByOverride, AtBoundary, Scheduled
  <2>8. ScheduleInv'
    BY <1>3 DEF Inv, TypeOK, ScheduleInv, DownInv, ApplySchedule, HeldByOverride, AtBoundary, Scheduled
  <2> QED
    BY <2>1, <2>2, <2>3, <2>4, <2>5, <2>6, <2>7, <2>8 DEF Inv
<1> QED
  BY <1>1, <1>2, <1>3 DEF ApplySchedule

\* The second half of trigger_alarm, of a first alarm or of a repeated one.
LEMMA FinishTriggerPreserves ==
  ASSUME Inv, FinishTrigger
  PROVE  Inv'
<1> USE DEF rearm, siren, calib, disk
<1>1. CASE trigger = "first"
  <2>a. SetArmedLeaves(FALSE, "MANUAL")
    <3>1. RuntimeSetArmed(FALSE, "MANUAL", "contacts") /\ pc # "down"
      BY <1>1 DEF FinishTrigger, Inv, DownInv
    <3> QED
      BY <3>1, SetArmedEffect DEF Inv, Controls
  <2>b. /\ trigger' = "no" /\ auto_rearm_pending' /\ ~siren_auto_stop_pending'
        /\ temp_disarmed' \in {"no", "first", "repeat"}
        /\ UNCHANGED <<pc, alarm_triggered, siren, last_schedule, in_window, hold>>
    BY <1>1 DEF FinishTrigger, Inv, TypeOK
  <2>c. siren_auto_stop_pending' \in BOOLEAN /\ auto_rearm_pending' \in BOOLEAN
    BY <1>1 DEF FinishTrigger
  <2>d. arm_control' \in Controls /\ armed' \in BOOLEAN /\ observed_armed' \in BOOLEAN
    BY <2>a DEF SetArmedLeaves, Controls
  <2>1. TypeOK'
    BY <2>a, <2>b, <2>c, <2>d DEF Inv, TypeOK, SetArmedLeaves
  <2>2. DownInv'
    BY <1>1, <2>a, <2>b, <2>c DEF Inv, TypeOK, DownInv, Unread, SetArmedLeaves
  <2>3. TriggerInv'
    BY <1>1, <2>a, <2>b, <2>c DEF Inv, TypeOK, TriggerInv, DownInv, SetArmedLeaves
  <2>4. HoldInv'
    BY <1>1, <2>a, <2>b, <2>c DEF Inv, TypeOK, HoldInv, DownInv, TriggerInv, SetArmedLeaves
  <2>5. RearmInv'
    BY <1>1, <2>a, <2>b, <2>c DEF Inv, TypeOK, RearmInv, TriggerInv, DownInv, SetArmedLeaves
  <2>6. FileInv'
    BY <1>1, <2>a, <2>b, <2>c DEF Inv, TypeOK, FileInv, TriggerInv, DownInv, SetArmedLeaves
  <2>7. ObservedInv'
    BY <1>1, <2>a, <2>b, <2>c DEF Inv, TypeOK, ObservedInv, TriggerInv, DownInv, SetArmedLeaves
  <2>8. ScheduleInv'
    BY <1>1, <2>a, <2>b, <2>c DEF Inv, TypeOK, ScheduleInv, DownInv, SetArmedLeaves
  <2> QED
    BY <2>1, <2>2, <2>3, <2>4, <2>5, <2>6, <2>7, <2>8 DEF Inv
<1>2. CASE trigger = "repeat"
  <2>a. /\ trigger' = "no" /\ armed' = FALSE
        /\ temp_disarmed' = IF armed THEN "repeat" ELSE temp_disarmed
        /\ camera_arm_grace_elapsed' \in 0 .. CAMERA_ARM_GRACE
    BY ClockAssumption, <1>2 DEF FinishTrigger, AlarmLogicSetArmed, Inv, TypeOK
  <2>b. UNCHANGED <<pc, alarm_triggered, siren, rearm, arm_control, last_schedule,
                    observed_armed, calib, completion_sms_pending, disk,
                    in_window, hold>>
    BY <1>2 DEF FinishTrigger
  <2>c. alarm_triggered /\ pc # "down"
    BY <1>2 DEF Inv, TriggerInv, DownInv
  <2>1. TypeOK'
    <3>1. temp_disarmed' \in {"no", "first", "repeat"}
      BY <2>a DEF Inv, TypeOK
    <3>2. /\ trigger' \in {"no", "first", "repeat"} /\ armed' \in BOOLEAN
          /\ camera_arm_grace_elapsed' \in 0 .. CAMERA_ARM_GRACE
      BY <2>a
    <3> QED
      BY <2>b, <3>1, <3>2 DEF Inv, TypeOK
  <2>2. DownInv'
    BY <1>2, <2>a, <2>b, <2>c DEF Inv, TypeOK, DownInv, Unread
  <2>3. TriggerInv'
    BY <1>2, <2>a, <2>b, <2>c DEF Inv, TypeOK, TriggerInv, DownInv
  <2>4. HoldInv'
    BY <1>2, <2>a, <2>b, <2>c DEF Inv, TypeOK, HoldInv, DownInv, TriggerInv
  <2>5. RearmInv'
    BY <1>2, <2>a, <2>b, <2>c DEF Inv, TypeOK, RearmInv, TriggerInv, DownInv
  <2>6. FileInv'
    BY <1>2, <2>a, <2>b, <2>c DEF Inv, TypeOK, FileInv, TriggerInv, DownInv
  <2>7. ObservedInv'
    BY <1>2, <2>a, <2>b, <2>c DEF Inv, TypeOK, ObservedInv, TriggerInv, DownInv
  <2>8. ScheduleInv'
    BY <1>2, <2>a, <2>b, <2>c DEF Inv, TypeOK, ScheduleInv, DownInv
  <2> QED
    BY <2>1, <2>2, <2>3, <2>4, <2>5, <2>6, <2>7, <2>8 DEF Inv
<1> QED
  BY <1>1, <1>2 DEF FinishTrigger, Inv, TypeOK

\* A boot restores what the file says, or blocks it.
LEMMA BootPreserves ==
  ASSUME Inv, Boot
  PROVE  Inv'
<1> USE DEF rearm, siren, calib, alarm
<1>a. /\ pc = "down" /\ pc' = "schedule" /\ trigger' = "no" /\ last_schedule' = "unknown"
      /\ ~alarm_triggered' /\ ~auto_rearm_pending'
      /\ UNCHANGED <<siren, rearm, in_window, alarm_triggered, trigger, last_schedule>>
  BY DEF Boot, Inv, DownInv
<1>b. temp_disarmed' = "no" \/ temp_disarmed' = temp_disarmed
  BY DEF Boot, BootDisarmed, RestorePersistedState
<1>1. CASE BootDisarmed
  <2>a. last_persisted = NoState
    BY <1>a DEF Inv, DownInv
  <2>b. /\ arm_control' = "SCHEDULE" /\ hold' = "no"
        /\ UNCHANGED <<alarm, observed_armed, calib, completion_sms_pending>>
    BY <1>1 DEF BootDisarmed
  <2>c. PersistLeaves(FALSE)
    <3>1. RuntimePersistArmedState(FALSE, "SCHEDULE")
      BY <1>1 DEF BootDisarmed
    <3> QED
      BY <2>a, <3>1, PersistEffect DEF Inv, Controls
  <2>d. hold' # "held" /\ armed' = FALSE
    BY <1>1, <1>a, <2>b DEF Inv, DownInv
  <2> USE DEF PersistLeaves
  <2>1. TypeOK'
    BY <1>a, <1>b, <2>b, <2>c, <2>d DEF Inv, TypeOK, Phases, Controls
  <2>2. DownInv'
    BY <1>a, <1>b, <2>b, <2>c, <2>d DEF Inv, TypeOK, DownInv, Unread
  <2>3. TriggerInv'
    BY <1>a, <1>b, <2>b, <2>c, <2>d DEF Inv, TypeOK, TriggerInv, DownInv
  <2>4. HoldInv'
    BY <1>a, <1>b, <2>b, <2>c, <2>d DEF Inv, TypeOK, HoldInv, DownInv, TriggerInv
  <2>5. RearmInv'
    BY <1>a, <1>b, <2>b, <2>c, <2>d DEF Inv, TypeOK, RearmInv, TriggerInv, DownInv
  <2>6. FileInv'
    BY <1>a, <1>b, <2>b, <2>c, <2>d DEF Inv, TypeOK, FileInv, TriggerInv, DownInv
  <2>7. ObservedInv'
    BY <1>a, <1>b, <2>b, <2>c, <2>d DEF Inv, TypeOK, ObservedInv, TriggerInv, DownInv
  <2>8. ScheduleInv'
    BY <1>a, <1>b, <2>b, <2>c, <2>d DEF Inv, TypeOK, ScheduleInv, DownInv
  <2> QED
    BY <2>1, <2>2, <2>3, <2>4, <2>5, <2>6, <2>7, <2>8 DEF Inv
<1>2. CASE RestorePersistedState
  <2>a. state_file \in States
    BY <1>2 DEF RestorePersistedState, Inv, TypeOK, NoState
  <2>b. PICK restored \in {FALSE, state_file.armed} :
          /\ AlarmLogicSetArmed(restored)
          /\ RuntimeNoteArmedState(restored, "contacts")
          /\ \/ /\ state_file' = [known |-> TRUE, armed |-> restored, control |-> "MANUAL"]
                /\ last_persisted' = state_file'
                /\ stale' = FALSE
             \/ last_persisted' = state_file /\ stale' = TRUE /\ UNCHANGED state_file
    BY <1>2 DEF RestorePersistedState
  <2>c. restored \in BOOLEAN /\ (hold = "held" => ~restored)
    BY <2>a, <2>b, <1>a DEF States, Inv, HoldInv
  <2>d. /\ armed' = restored /\ observed_armed' = restored
        /\ camera_arm_grace_elapsed' \in 0 .. CAMERA_ARM_GRACE
        /\ calibrating' \in BOOLEAN /\ (calibrating' => restored)
        /\ calibration_elapsed' \in 0 .. STATIC_CALIBRATION
        /\ completion_sms_pending' \in BOOLEAN
    BY ClockAssumption, <1>a, <2>b, <2>c
       DEF AlarmLogicSetArmed, RuntimeNoteArmedState, Inv, TypeOK, DownInv
  <2>e. /\ last_persisted' = state_file'
        /\ state_file' \in States
        /\ stale' \in BOOLEAN
        /\ ~stale' => state_file'.armed = restored
        /\ state_file'.known
        /\ state_file'.armed => restored \/ state_file.armed
    <3> DEFINE written == [known |-> TRUE, armed |-> restored, control |-> "MANUAL"]
    <3>1. written \in States /\ written.known /\ written.armed = restored
      BY <2>c DEF States, Controls
    <3> HIDE DEF written
    <3>2. \/ state_file' = written /\ last_persisted' = state_file' /\ stale' = FALSE
          \/ last_persisted' = state_file /\ stale' = TRUE /\ UNCHANGED state_file
      BY <2>b DEF written
    <3>3. state_file.known
      BY <1>2 DEF RestorePersistedState
    <3> QED
      BY <2>a, <3>1, <3>2, <3>3
  <2>f. arm_control' = "MANUAL" /\ UNCHANGED <<durable, hold>>
    BY <1>2 DEF RestorePersistedState
  <2>1. TypeOK'
    BY <1>2, <1>a, <1>b, <2>c, <2>d, <2>e, <2>f DEF Inv, TypeOK, Phases, Controls
  <2>2. DownInv'
    BY <1>2, <1>a, <1>b, <2>c, <2>d, <2>e, <2>f DEF Inv, TypeOK, DownInv, Unread
  <2>3. TriggerInv'
    BY <1>2, <1>a, <1>b, <2>c, <2>d, <2>e, <2>f DEF Inv, TypeOK, TriggerInv, DownInv
  <2>4. HoldInv'
    BY <1>2, <1>a, <1>b, <2>c, <2>d, <2>e, <2>f DEF Inv, TypeOK, HoldInv, DownInv, TriggerInv
  <2>5. RearmInv'
    BY <1>2, <1>a, <1>b, <2>c, <2>d, <2>e, <2>f DEF Inv, TypeOK, RearmInv, TriggerInv, DownInv
  <2>6. FileInv'
    BY <1>2, <1>a, <1>b, <2>c, <2>d, <2>e, <2>f DEF Inv, TypeOK, FileInv, TriggerInv, DownInv
  <2>7. ObservedInv'
    BY <1>2, <1>a, <1>b, <2>c, <2>d, <2>e, <2>f DEF Inv, TypeOK, ObservedInv, TriggerInv, DownInv
  <2>8. ScheduleInv'
    BY <1>2, <1>a, <1>b, <2>c, <2>d, <2>e, <2>f DEF Inv, TypeOK, ScheduleInv, DownInv
  <2> QED
    BY <2>1, <2>2, <2>3, <2>4, <2>5, <2>6, <2>7, <2>8 DEF Inv
<1> QED
  BY <1>1, <1>2 DEF Boot
-----------------------------------------------------------------------------
(* The theorems. *)

\* No step leaves the invariant: one case per action of Next.
LEMMA StepPreserves ==
  ASSUME Inv, [Next]_vars
  PROVE  Inv'
<1>1. CASE MainStep
  BY <1>1, AlarmTickPreserves, ProcessAutoRearmPreserves, ApplySchedulePreserves,
     SmsArmPreserves, SmsDisarmPreserves, SmsStopPreserves, SmsNothingPreserves,
     AppArmPreserves, AppDisarmPreserves, AppNothingPreserves,
     FinishTriggerPreserves DEF MainStep
<1>2. CASE Alarm
  BY <1>2, PanicSmokeOrTamperPreserves, ShutterOpenPreserves,
     CameraResultPreserves DEF Alarm
<1>3. CASE QueueDrained \/ PollDone
  BY <1>3, QueueDrainedPreserves, PollDonePreserves
<1>4. CASE SirenDeadline \/ TimerCallback
  BY <1>4, SirenDeadlinePreserves, TimerCallbackPreserves
<1>5. CASE ClockBoundary \/ Writeback \/ Crash \/ PowerCut \/ Boot
  BY <1>5, ClockBoundaryPreserves, WritebackPreserves, CrashPreserves, PowerCutPreserves,
     BootPreserves
<1>6. CASE UNCHANGED vars
  <2> USE <1>6 DEF vars, alarm, siren, rearm, calib, disk, history
  <2>1. TypeOK'
    BY DEF Inv, TypeOK
  <2>2. DownInv' /\ TriggerInv' /\ HoldInv' /\ RearmInv'
    BY DEF Inv, DownInv, Unread, TriggerInv, HoldInv, RearmInv
  <2>3. FileInv' /\ ObservedInv' /\ ScheduleInv'
    BY DEF Inv, FileInv, ObservedInv, ScheduleInv
  <2> QED
    BY <2>1, <2>2, <2>3 DEF Inv
<1> QED
  BY <1>1, <1>2, <1>3, <1>4, <1>5, <1>6 DEF Next

\* The strengthened invariant of the arming core (alarm_logic.c and the
\* arm-control part of runtime_loop.c) holds in every reachable state.
THEOREM InvHolds == Spec => []Inv
  BY InitInv, StepPreserves, PTL DEF Spec

\* Every variable keeps its type; the unsigned clocks of alarm_logic_tick and
\* runtime_static_calibration_tick never pass their limits, whatever those are.
THEOREM TypeCorrect == Spec => []TypeOK
<1>1. Inv => TypeOK
  BY DEF Inv
<1> QED
  BY <1>1, InvHolds, PTL

\* The owner's DISARM or STOP holds (runtime_set_manual_armed).
THEOREM OwnerDisarmHolds == Spec => []DisarmHolds
<1>1. Inv => DisarmHolds
  BY DEF Inv, HoldInv, DisarmHolds
<1> QED
  BY <1>1, InvHolds, PTL

\* A first alarm's re-arm is pending and its wake-up is on the way
\* (runtime_siren_auto_stop_callback against runtime_schedule_auto_rearm...).
THEOREM NoLostWakeup == Spec => []FirstAlarmWillRearm
<1>1. Inv => FirstAlarmWillRearm
  BY DEF Inv, RearmInv, FirstAlarmWillRearm
<1> QED
  BY <1>1, InvHolds, PTL

\* The state file matches the arm state (runtime_persist_armed_state).
THEOREM FileIsTruthful == Spec => []FileMatchesArmState
<1>1. Inv => FileMatchesArmState
  BY DEF Inv, FileInv, FileMatchesArmState
<1> QED
  BY <1>1, InvHolds, PTL

\* runtime_observed_armed lags behind in one situation only.
THEOREM ObservationLag == Spec => []ObservationLagsOnlyAfterRepeat
<1>1. Inv => ObservationLagsOnlyAfterRepeat
  BY DEF Inv, ObservedInv, ObservationLagsOnlyAfterRepeat
<1> QED
  BY <1>1, InvHolds, PTL

\* Schedule control means what it says (runtime_apply_schedule_armed).
THEOREM ScheduleIsFollowed == Spec => []ScheduleControlFollowsSchedule
<1>1. Inv => ScheduleControlFollowsSchedule
  BY DEF Inv, ScheduleInv, ScheduleControlFollowsSchedule
<1> QED
  BY <1>1, InvHolds, PTL

\* Outside an incident no monitoring SMS goes out about a disarmed shop
\* (runtime_send_calibration_completion_sms).
THEOREM MonitoringSmsIsTrue == Spec => MonitoringSmsOnlyWhenArmed
<1>1. Inv /\ [Next]_vars => [SendsMonitoringActive => armed \/ alarm_triggered]_vars
  BY DEF Inv, ObservedInv, SendsMonitoringActive, TypeOK
<1> QED
  BY <1>1, InvHolds, PTL DEF Spec, MonitoringSmsOnlyWhenArmed

(* Nothing but an alarm brings a ringing siren and the wake-up of a re-arm
   together (runtime_process_auto_rearm_after_siren_stop): the deadline switches
   the siren off, and the two flags are cleared together. *)
THEOREM RearmsAreSilent == Spec => OnlyAnAlarmRingsOverARearm
<1>1. ASSUME Next, ~RearmMeetsSiren, RearmMeetsSiren'
      PROVE  Alarm
  <2> SUFFICES ASSUME ~Alarm PROVE FALSE
    OBVIOUS
  <2> USE <1>1 DEF RearmMeetsSiren, siren, rearm
  <2>1. CASE AlarmTick \/ ApplySchedule \/ SmsNothing \/ AppNothing \/ QueueDrained
             \/ PollDone \/ ClockBoundary \/ Writeback \/ Boot \/ TimerCallback
    BY <2>1 DEF AlarmTick, ApplySchedule, SmsNothing, AppNothing, QueueDrained, PollDone,
                ClockBoundary, Writeback, Boot, TimerCallback
  <2>2. CASE ProcessAutoRearm
    <3>1. siren' = siren /\ (siren_auto_stop_pending' => siren_auto_stop_pending)
      BY <2>2 DEF ProcessAutoRearm, RuntimeCancelAutoRearm
    <3> QED BY <3>1
  <2>5. CASE SmsArm \/ SmsDisarm \/ AppArm \/ AppDisarm
    BY <2>5 DEF SmsArm, SmsDisarm, AppArm, AppDisarm, OwnerDisarms, RuntimeCancelAutoRearm
  <2>3. CASE SmsStop \/ SirenDeadline \/ Crash \/ PowerCut
    BY <2>3 DEF SmsStop, SirenDeadline, Crash, PowerCut, Dies
  <2>4. CASE FinishTrigger
    <3>1. /\ siren' = siren
          /\ siren_auto_stop_pending' = FALSE \/ siren_auto_stop_pending' = siren_auto_stop_pending
      BY <2>4 DEF FinishTrigger
    <3> QED BY <3>1
  <2> QED BY <2>1, <2>2, <2>3, <2>4, <2>5 DEF Next, MainStep
<1>2. [Next]_vars => [~RearmMeetsSiren /\ RearmMeetsSiren' => Alarm]_vars
  BY <1>1
<1> QED BY <1>2, PTL DEF Spec, OnlyAnAlarmRingsOverARearm
-----------------------------------------------------------------------------
(* The refinement: whoever arms and disarms, and wherever the trigger is         *)
(* interrupted, the arm state and its clocks move as ArmingCore says.            *)

(* A clock that does not run has come to its end. *)
ClockInv ==
  /\ ~armed => camera_arm_grace_elapsed = CAMERA_ARM_GRACE
  /\ ~calibrating => calibration_elapsed = STATIC_CALIBRATION

CoreStep == Core!Next \/ UNCHANGED Core!vars

LEMMA CoreUnchanged ==
  ASSUME UNCHANGED <<alarm, trigger, alarm_triggered, observed_armed, calib>>
  PROVE  CoreStep
  BY DEF CoreStep, Core!vars, Core!calib, CoreArmed, CoreGrace, CoreObserved, CoreCalibrates,
         CoreCalibrated, alarm, calib

(* Every call of runtime_set_armed, the one of STOP included, is an Arm, a Disarm
   or, for a shop armed already, nothing. *)
LEMMA SetArmedRefines ==
  ASSUME Inv, ClockInv, trigger = "no", trigger' = "no",
         NEW next \in BOOLEAN, NEW recipients,
         AlarmLogicSetArmed(next), RuntimeNoteArmedState(next, recipients),
         \/ alarm_triggered' = alarm_triggered
         \/ alarm_triggered' = FALSE /\ ~next
  PROVE  CoreStep /\ ClockInv'
<1> USE DEF Inv, ClockInv, AlarmLogicSetArmed, RuntimeNoteArmedState, calib
<1>1. armed \in BOOLEAN /\ observed_armed \in BOOLEAN
  BY DEF TypeOK
<1>2. armed => observed_armed
  BY <1>1 DEF ObservedInv
<1>3. ClockInv'
  BY <1>1, <1>2
<1>4. /\ CoreArmed = armed /\ CoreGrace = camera_arm_grace_elapsed
      /\ CoreObserved = observed_armed
      /\ CoreCalibrates = calibrating /\ CoreCalibrated = calibration_elapsed
  BY <1>1 DEF CoreArmed, CoreGrace, CoreObserved, CoreCalibrates, CoreCalibrated, TypeOK
<1>5. /\ CoreArmed' = next /\ CoreGrace' = camera_arm_grace_elapsed'
      /\ CoreObserved' = next
      /\ CoreCalibrates' = calibrating' /\ CoreCalibrated' = calibration_elapsed'
  <2>1. armed' = next /\ observed_armed' = next /\ calibrating' \in BOOLEAN
    BY <1>1 DEF TypeOK
  <2> HIDE DEF Inv, ClockInv, AlarmLogicSetArmed, RuntimeNoteArmedState
  <2> QED BY <2>1 DEF CoreArmed, CoreGrace, CoreObserved, CoreCalibrates, CoreCalibrated
<1>6. CASE ~next
  <2>1. Core!Disarm
    BY <1>1, <1>4, <1>5, <1>6 DEF Core!Disarm, Core!Fallen, Core!Noted, Core!calib
  <2> QED BY <1>3, <2>1 DEF CoreStep, Core!Next
<1>7. CASE next /\ ~armed
  <2>1. Core!Arm
    BY <1>1, <1>4, <1>5, <1>7 DEF Core!Arm, Core!Noted, Core!calib
  <2> QED BY <1>3, <2>1 DEF CoreStep, Core!Next
<1>8. CASE next /\ armed
  BY <1>1, <1>2, <1>3, <1>4, <1>5, <1>8 DEF CoreStep, Core!vars, Core!calib
<1> QED BY <1>1, <1>6, <1>7, <1>8

LEMMA QuietRefines ==
  ASSUME ClockInv,
         \/ SirenDeadline \/ TimerCallback \/ SmsNothing \/ AppNothing \/ QueueDrained
         \/ PollDone \/ ClockBoundary \/ Writeback
  PROVE  CoreStep /\ ClockInv'
<1>1. UNCHANGED <<alarm, trigger, alarm_triggered, observed_armed, calib>>
  BY DEF SirenDeadline, TimerCallback, SmsNothing, AppNothing, QueueDrained, PollDone,
         ClockBoundary, Writeback
<1>2. ClockInv'
  BY <1>1 DEF ClockInv, alarm, calib
<1> QED BY <1>1, <1>2, CoreUnchanged

LEMMA CommandsRefine ==
  ASSUME Inv, ClockInv,
         \/ ProcessAutoRearm \/ ApplySchedule \/ SmsArm \/ SmsDisarm \/ SmsStop
         \/ AppArm \/ AppDisarm
  PROVE  CoreStep /\ ClockInv'
<1> DEFINE Frame == trigger = "no" /\ trigger' = "no" /\ alarm_triggered' = alarm_triggered
           Sets(next, control, to) == next \in BOOLEAN /\ RuntimeSetArmed(next, control, to)
<1>1. ASSUME UNCHANGED <<alarm, trigger, alarm_triggered, observed_armed, calib>>
      PROVE  CoreStep /\ ClockInv'
  BY <1>1, CoreUnchanged DEF ClockInv, alarm, calib
<1>2. ASSUME NEW next, NEW control, NEW to, Sets(next, control, to), Frame
      PROVE  CoreStep /\ ClockInv'
  BY <1>2, SetArmedRefines DEF RuntimeSetArmed
<1>3. CASE ProcessAutoRearm
  <2>1. Frame
    BY <1>3 DEF ProcessAutoRearm, InPhase
  <2>2. CASE auto_rearm_pending /\ siren_auto_stop_pending
    <3>1. PICK preflight \in BOOLEAN : RuntimeSetArmed(preflight, "MANUAL", "contacts")
      BY <1>3, <2>2 DEF ProcessAutoRearm
    <3> QED BY <1>2, <2>1, <3>1
  <2>3. CASE ~(auto_rearm_pending /\ siren_auto_stop_pending)
    <3>1. UNCHANGED <<alarm, observed_armed, calib>>
      BY <1>3, <2>3 DEF ProcessAutoRearm
    <3> QED BY <1>1, <2>1, <3>1
  <2> QED BY <2>2, <2>3
<1>4. CASE ApplySchedule
  <2>1. Frame
    BY <1>4 DEF ApplySchedule, InPhase
  <2>2. \/ RuntimeSetArmed(in_window, "SCHEDULE", "contacts")
        \/ UNCHANGED <<alarm, observed_armed, calib>>
    BY <1>4 DEF ApplySchedule
  <2>3. in_window \in BOOLEAN
    BY DEF Inv, TypeOK
  <2>4. CASE RuntimeSetArmed(in_window, "SCHEDULE", "contacts")
    BY <1>2, <2>1, <2>3, <2>4
  <2>5. CASE UNCHANGED <<alarm, observed_armed, calib>>
    BY <1>1, <2>1, <2>5
  <2> QED BY <2>2, <2>4, <2>5
<1>5. CASE SmsArm
  <2>1. Frame
    BY <1>5 DEF SmsArm, InPhase
  <2>2. PICK accepted \in BOOLEAN : RuntimeSetArmed(accepted, "MANUAL", "sender")
    BY <1>5 DEF SmsArm
  <2> QED BY <1>2, <2>1, <2>2
<1>6. CASE SmsDisarm \/ AppDisarm
  <2>1. Frame
    BY <1>6 DEF SmsDisarm, AppDisarm, InPhase
  <2>2. RuntimeSetArmed(FALSE, "MANUAL", "contacts")
    BY <1>6, Zenon DEF SmsDisarm, AppDisarm, OwnerDisarms
  <2> QED BY <1>2, <2>1, <2>2
<1>7. CASE AppArm
  <2>1. Frame
    BY <1>7 DEF AppArm, InPhase
  <2>2. RuntimeSetArmed(TRUE, "MANUAL", "contacts")
    BY <1>7, Zenon DEF AppArm
  <2> QED BY <1>2, <2>1, <2>2
<1>8. CASE SmsStop
  <2>1. trigger = "no" /\ trigger' = "no" /\ alarm_triggered' = FALSE
    BY <1>8 DEF SmsStop, InPhase
  <2>2. RuntimeSetArmed(FALSE, "MANUAL", "contacts")
    BY <1>8, Zenon DEF SmsStop, OwnerDisarms
  <2> QED BY <2>1, <2>2, SetArmedRefines DEF RuntimeSetArmed
<1> QED BY <1>3, <1>4, <1>5, <1>6, <1>7, <1>8

(* SaturatingAdd, written with the subtraction of the code, is the clock of
   ArmingCore. *)
LEMMA SaturatingAddAdvances ==
  ASSUME NEW limit \in Nat, NEW now \in 0 .. limit, NEW elapsed \in Nat
  PROVE  SaturatingAdd(now, elapsed, limit) = Core!Advanced(now, elapsed, limit)
  BY DEF SaturatingAdd, Core!Advanced

LEMMA TickRefines ==
  ASSUME Inv, ClockInv, AlarmTick
  PROVE  CoreStep /\ ClockInv'
<1> USE ClockAssumption DEF ClockAssumption
<1>1. /\ armed \in BOOLEAN /\ observed_armed \in BOOLEAN /\ calibrating \in BOOLEAN
      /\ camera_arm_grace_elapsed \in 0 .. CAMERA_ARM_GRACE
      /\ calibration_elapsed \in 0 .. STATIC_CALIBRATION
  BY DEF Inv, TypeOK
<1>2. trigger = "no" /\ UNCHANGED <<trigger, armed, alarm_triggered, observed_armed>>
  BY DEF AlarmTick, InPhase
<1> DEFINE cal(e) == SaturatingAdd(calibration_elapsed, e, STATIC_CALIBRATION)
<1>3. PICK elapsed \in 0 .. MAX_ELAPSED :
        /\ camera_arm_grace_elapsed' =
             IF armed /\ camera_arm_grace_elapsed < CAMERA_ARM_GRACE
               THEN SaturatingAdd(camera_arm_grace_elapsed, elapsed, CAMERA_ARM_GRACE)
               ELSE camera_arm_grace_elapsed
        /\ calibration_elapsed' = IF calibrating THEN cal(elapsed) ELSE calibration_elapsed
        /\ calibrating' = (calibrating /\ ~(calibrating /\ cal(elapsed) >= STATIC_CALIBRATION))
  BY DEF AlarmTick
<1>4. cal(elapsed) \in 0 .. STATIC_CALIBRATION
      /\ cal(elapsed) = Core!Advanced(calibration_elapsed, elapsed, STATIC_CALIBRATION)
  BY <1>1, SaturatingAddBounded, SaturatingAddAdvances
<1> HIDE DEF cal
<1>5. camera_arm_grace_elapsed' =
        IF armed THEN Core!Advanced(camera_arm_grace_elapsed, elapsed, CAMERA_ARM_GRACE)
        ELSE camera_arm_grace_elapsed
  <2>1. CASE camera_arm_grace_elapsed < CAMERA_ARM_GRACE
    BY <1>1, <1>3, <2>1, SaturatingAddAdvances
  <2>2. CASE camera_arm_grace_elapsed = CAMERA_ARM_GRACE
    BY <1>1, <1>3, <2>2 DEF Core!Advanced
  <2> QED BY <1>1, <2>1, <2>2
<1>6. calibrating' = (calibrating /\ calibration_elapsed' < STATIC_CALIBRATION)
  <2>1. CASE calibrating
    BY <1>1, <1>3, <1>4, <2>1
  <2>2. CASE ~calibrating
    BY <1>1, <1>3, <2>2
  <2> QED BY <2>1, <2>2
<1>7. /\ calibration_elapsed' =
           IF calibrating
             THEN Core!Advanced(calibration_elapsed, elapsed, STATIC_CALIBRATION)
             ELSE calibration_elapsed
      /\ calibration_elapsed' \in 0 .. STATIC_CALIBRATION
  BY <1>1, <1>3, <1>4
<1>8. ClockInv'
  BY <1>1, <1>2, <1>3, <1>6, <1>7 DEF ClockInv
<1>9. Core!Tick(elapsed)
  <2>1. /\ CoreArmed = armed /\ CoreGrace = camera_arm_grace_elapsed
        /\ CoreObserved = observed_armed
        /\ CoreCalibrates = calibrating /\ CoreCalibrated = calibration_elapsed
    BY <1>1, <1>2 DEF CoreArmed, CoreGrace, CoreObserved, CoreCalibrates, CoreCalibrated
  <2>2. /\ CoreArmed' = armed /\ CoreGrace' = camera_arm_grace_elapsed'
        /\ CoreObserved' = observed_armed
        /\ CoreCalibrates' = calibrating' /\ CoreCalibrated' = calibration_elapsed'
    BY <1>1, <1>2, <1>6 DEF CoreArmed, CoreGrace, CoreObserved, CoreCalibrates, CoreCalibrated
  <2> QED BY <1>1, <1>2, <1>5, <1>6, <1>7, <2>1, <2>2 DEF Core!Tick
<1> QED BY <1>8, <1>9 DEF CoreStep, Core!Next

(* An alarm disarms at once as far as ArmingCore is concerned, whichever handler
   raises it. *)
LEMMA AlarmRefines ==
  ASSUME Inv, ClockInv, Alarm
  PROVE  CoreStep /\ ClockInv'
<1>1. /\ armed \in BOOLEAN /\ observed_armed \in BOOLEAN /\ calibrating \in BOOLEAN
      /\ alarm_triggered \in BOOLEAN
  BY DEF Inv, TypeOK
<1>2. trigger = "no" /\ UNCHANGED alarm
  <2>1. CASE PanicSmokeOrTamper \/ ShutterOpen
    BY <2>1 DEF PanicSmokeOrTamper, ShutterOpen, RaiseAlarm, InPhase
  <2>2. CASE CameraResult
    BY <2>2 DEF CameraResult, RaiseAlarm, InPhase
  <2> QED BY <2>1, <2>2 DEF Alarm
<1>3. \/ UNCHANGED <<observed_armed, calib>>
      \/ RuntimeNoteArmedState(armed, "none")
  BY DEF Alarm, PanicSmokeOrTamper, ShutterOpen, CameraResult
<1>4. observed_armed' \in {observed_armed, armed} /\ calibrating' \in BOOLEAN
  BY <1>1, <1>3 DEF RuntimeNoteArmedState, calib
<1>5. /\ ~calibrating' => calibration_elapsed' = STATIC_CALIBRATION
      /\ ~observed_armed => ~calibrating
      /\ armed => observed_armed
  <2>1. (armed => observed_armed) /\ (~observed_armed => ~calibrating)
    BY <1>1 DEF Inv, ObservedInv
  <2> QED BY <1>1, <1>3, <2>1 DEF RuntimeNoteArmedState, ClockInv, calib
<1>6. ClockInv'
  BY <1>2, <1>5 DEF ClockInv, alarm
<1> SUFFICES CoreStep
  BY <1>6
<1>7. /\ CoreArmed = armed /\ CoreGrace = camera_arm_grace_elapsed
      /\ CoreObserved = observed_armed
      /\ CoreCalibrates = calibrating /\ CoreCalibrated = calibration_elapsed
  BY <1>1, <1>2 DEF CoreArmed, CoreGrace, CoreObserved, CoreCalibrates, CoreCalibrated
<1>8. CASE UNCHANGED <<trigger, alarm_triggered>>
  <2>1. /\ CoreArmed' = armed /\ CoreGrace' = camera_arm_grace_elapsed
        /\ CoreObserved' = observed_armed'
        /\ CoreCalibrates' = calibrating' /\ CoreCalibrated' = calibration_elapsed'
    BY <1>1, <1>2, <1>4, <1>8
       DEF CoreArmed, CoreGrace, CoreObserved, CoreCalibrates, CoreCalibrated, alarm
  <2>2. CASE armed
    <3>1. UNCHANGED <<observed_armed, calib>>
      BY <1>1, <1>3, <1>5, <2>2 DEF RuntimeNoteArmedState
    <3> QED BY <1>7, <1>8, <2>1, <3>1 DEF CoreStep, Core!vars, Core!calib, calib
  <2>3. CASE UNCHANGED <<observed_armed, calib>>
    BY <1>7, <1>8, <2>1, <2>3 DEF CoreStep, Core!vars, Core!calib, calib
  <2>4. CASE ~armed /\ RuntimeNoteArmedState(armed, "none")
    <3>1. Core!Fallen
      BY <1>2, <2>1, <2>4 DEF Core!Fallen, ClockInv
    <3>2. Core!Noted(FALSE)
      BY <1>1, <1>7, <2>1, <2>4 DEF Core!Noted, Core!calib, RuntimeNoteArmedState, calib
    <3> QED BY <1>8, <3>1, <3>2 DEF CoreStep, Core!Next, Core!Disarm
  <2> QED BY <1>3, <2>2, <2>3, <2>4
<1>9. CASE RaiseAlarm
  <2>1. trigger' = IF alarm_triggered THEN "repeat" ELSE "first"
    BY <1>9 DEF RaiseAlarm
  <2>2. alarm_triggered' = TRUE
    BY <1>9 DEF RaiseAlarm
  <2>3. CoreArmed' = FALSE /\ CoreGrace' = CAMERA_ARM_GRACE
    BY <2>1 DEF CoreArmed, CoreGrace
  <2>4. CASE ~alarm_triggered
    <3>1. CoreObserved' = FALSE /\ CoreCalibrates' = FALSE /\ CoreCalibrated' = STATIC_CALIBRATION
      BY <2>1, <2>4 DEF CoreObserved, CoreCalibrates, CoreCalibrated
    <3>2. Core!Fallen /\ Core!Noted(FALSE)
      BY <1>1, <1>5, <1>7, <2>3, <3>1 DEF Core!Fallen, Core!Noted, Core!calib, ClockInv
    <3> QED BY <2>2, <2>4, <3>2 DEF CoreStep, Core!Next, Core!FirstAlarm
  <2>5. CASE alarm_triggered
    <3>1. /\ CoreObserved' = observed_armed'
          /\ CoreCalibrates' = calibrating' /\ CoreCalibrated' = calibration_elapsed'
      BY <1>1, <1>4, <2>1, <2>5 DEF CoreObserved, CoreCalibrates, CoreCalibrated
    <3>2. UNCHANGED <<observed_armed, calib>>
      <4>1. CASE armed
        BY <1>1, <1>3, <1>5, <4>1 DEF RuntimeNoteArmedState
      <4>2. CASE ~armed
        <5>1. ~CameraResult
          BY <1>9, <2>1, <2>5, <4>2, <1>2 DEF CameraResult
        <5> QED BY <5>1 DEF Alarm, PanicSmokeOrTamper, ShutterOpen
      <4> QED BY <1>1, <4>1, <4>2
    <3> QED BY <1>7, <2>2, <2>3, <2>5, <3>1, <3>2
            DEF CoreStep, Core!Next, Core!RepeatedAlarm, Core!Fallen, Core!calib, calib
  <2> QED BY <1>1, <2>4, <2>5
<1>10. UNCHANGED <<trigger, alarm_triggered>> \/ RaiseAlarm
  BY DEF Alarm, PanicSmokeOrTamper, ShutterOpen, CameraResult
<1> QED BY <1>8, <1>9, <1>10

(* The end of the trigger does what ArmingCore has taken for done. *)
LEMMA FinishRefines ==
  ASSUME Inv, ClockInv, FinishTrigger
  PROVE  CoreStep /\ ClockInv'
<1>1. /\ armed \in BOOLEAN /\ observed_armed \in BOOLEAN /\ calibrating \in BOOLEAN
      /\ trigger \in {"first", "repeat"} /\ trigger' = "no"
      /\ alarm_triggered' = alarm_triggered
  BY DEF Inv, TypeOK, FinishTrigger
<1>2. ~observed_armed => ~calibrating
  BY <1>1 DEF Inv, ObservedInv
<1>3. AlarmLogicSetArmed(FALSE)
  BY Zenon DEF FinishTrigger, RuntimeSetArmed
<1>4. \/ trigger = "first" /\ RuntimeNoteArmedState(FALSE, "contacts")
      \/ trigger = "repeat" /\ UNCHANGED <<observed_armed, calib>>
  BY Zenon DEF FinishTrigger, RuntimeSetArmed
<1>5. armed' = FALSE /\ camera_arm_grace_elapsed' = CAMERA_ARM_GRACE
  BY <1>1, <1>3 DEF AlarmLogicSetArmed, ClockInv
<1>6. CASE trigger = "first"
  <2>1. RuntimeNoteArmedState(FALSE, "contacts")
    BY <1>4, <1>6, Zenon
  <2>2. /\ observed_armed' = FALSE /\ calibrating' = FALSE
        /\ calibration_elapsed' = STATIC_CALIBRATION
    BY <1>1, <1>2, <2>1 DEF RuntimeNoteArmedState, ClockInv, calib
  <2>3. UNCHANGED Core!vars
    BY <1>1, <1>5, <1>6, <2>2
       DEF Core!vars, Core!calib, CoreArmed, CoreGrace, CoreObserved, CoreCalibrates,
           CoreCalibrated
  <2> QED BY <1>5, <2>2, <2>3 DEF CoreStep, ClockInv
<1>7. CASE trigger = "repeat"
  <2>1. UNCHANGED <<observed_armed, calib>>
    BY <1>4, <1>7
  <2>2. UNCHANGED Core!vars
    BY <1>1, <1>5, <1>7, <2>1
       DEF Core!vars, Core!calib, CoreArmed, CoreGrace, CoreObserved, CoreCalibrates,
           CoreCalibrated, calib
  <2> QED BY <1>5, <2>1, <2>2 DEF CoreStep, ClockInv, calib
<1> QED BY <1>1, <1>6, <1>7

LEMMA CrashRefines ==
  ASSUME Crash \/ PowerCut
  PROVE  CoreStep /\ ClockInv'
<1>1. Core!Lost
  BY DEF Crash, PowerCut, Dies, Core!Lost, Core!Fallen, CoreArmed, CoreGrace, CoreObserved, CoreCalibrates,
         CoreCalibrated
<1>2. ClockInv'
  BY DEF Crash, PowerCut, Dies, ClockInv
<1> QED BY <1>1, <1>2 DEF CoreStep, Core!Next

LEMMA BootRefines ==
  ASSUME Inv, ClockInv, Boot
  PROVE  CoreStep /\ ClockInv'
<1>1. trigger = "no" /\ trigger' = "no" /\ alarm_triggered' = alarm_triggered
  BY DEF Boot, Inv, DownInv
<1>2. CASE BootDisarmed
  <2>1. UNCHANGED <<alarm, observed_armed, calib>>
    BY <1>2 DEF BootDisarmed
  <2> QED BY <1>1, <2>1, CoreUnchanged DEF ClockInv, alarm, calib
<1>3. CASE RestorePersistedState
  <2>1. PICK restored \in {FALSE, state_file.armed} :
          AlarmLogicSetArmed(restored) /\ RuntimeNoteArmedState(restored, "contacts")
    BY <1>3 DEF RestorePersistedState
  <2>2. state_file.armed \in BOOLEAN
    <3>1. state_file \in States
      BY <1>3 DEF RestorePersistedState, Inv, TypeOK, NoState
    <3> QED BY <3>1 DEF States
  <2>3. restored \in BOOLEAN
    BY <2>2
  <2> QED BY <1>1, <2>1, <2>3, SetArmedRefines
<1> QED BY <1>2, <1>3 DEF Boot

(* Whatever arms and disarms the hub, and whenever the program is interrupted: the arm
   state of alarm_logic.c, what runtime_loop.c has seen of it and their two clocks do
   what module ArmingCore says, for every grace and calibration time. *)
THEOREM RefinesArmingCore == Spec => ImplementsArmingCore
<1>1. Init => ClockInv /\ Core!Init
  BY DEF Init, ClockInv, Core!Init, CoreArmed, CoreGrace, CoreObserved, CoreCalibrates,
         CoreCalibrated
<1>2. Inv /\ ClockInv /\ [Next]_vars => [Core!Next]_(Core!vars) /\ ClockInv'
  <2>1. ASSUME UNCHANGED vars PROVE UNCHANGED <<alarm, trigger, alarm_triggered, observed_armed, calib>>
    BY <2>1 DEF vars
  <2>2. ASSUME ClockInv, UNCHANGED vars PROVE CoreStep /\ ClockInv'
    BY <2>1, <2>2, CoreUnchanged DEF ClockInv, alarm, calib
  <2>3. ASSUME Inv, ClockInv, Next PROVE CoreStep /\ ClockInv'
    BY <2>3, TickRefines, CommandsRefine, QuietRefines, AlarmRefines, FinishRefines,
       CrashRefines, BootRefines DEF Next, MainStep
  <2> QED BY <2>2, <2>3 DEF CoreStep
<1> QED BY <1>1, <1>2, InvHolds, PTL DEF Spec, ImplementsArmingCore, Core!Spec
-----------------------------------------------------------------------------
(* Liveness: nothing loses the wake-up of the re-arm.  Whether a step is     *)
(* ENABLED is beyond the provers: that each thread can move is a hypothesis  *)
(* of this part, ThreadsCanMove, which the guards of the actions repeat.     *)
(*                                                                           *)
(* Assume a re-arm that stays pending after the last alarm.  Then main comes *)
(* out of the trigger and stays out (Calm), the siren's deadline brings the  *)
(* callback and the callback the wake-up, which stays (Woken), and main goes *)
(* round to the phase that takes both flags.                                 *)

Pending   == auto_rearm_pending
Calm      == trigger = "no"
Woken     == siren_auto_stop_pending
QuietNext == Next /\ ~Alarm

AtTick     == pc = "tick"
AtRearm    == pc = "rearm"
AtSchedule == pc = "schedule"
AtSms      == pc = "sms"
AtApp      == pc = "app"
AtCamera   == pc = "camera"
AtPoll     == pc = "poll"

(* Main's way round. *)
Round == {<<"tick", "rearm">>, <<"rearm", "schedule">>, <<"schedule", "sms">>, <<"sms", "app">>,
          <<"app", "camera">>, <<"camera", "poll">>, <<"poll", "tick">>}

(* All that a step does to the threads while the re-arm stays pending. *)
TriggerEnds == ~Calm /\ Calm' /\ UNCHANGED <<pc, siren>>
MainMoves ==
  /\ Calm /\ Calm' /\ <<pc, pc'>> \in Round /\ ~(AtRearm /\ Woken)
  /\ UNCHANGED <<siren, siren_auto_stop_pending>>
DeadlineComes ==
  Ringing /\ CallingBack' /\ UNCHANGED <<pc, trigger, siren_auto_stop_pending>>
CallbackComes == CallingBack /\ Woken' /\ timer' = "wait" /\ UNCHANGED <<pc, trigger, siren_active>>
NobodyMoves == UNCHANGED <<pc, trigger, siren, siren_auto_stop_pending>>

\* Every command, a power cut and the re-arm itself end what is pending; the rest are
\* these five.
LEMMA PendingSteps ==
  ASSUME Inv, Pending, Pending', [QuietNext]_vars
  PROVE  TriggerEnds \/ MainMoves \/ DeadlineComes \/ CallbackComes \/ NobodyMoves
<1> USE DEF Pending, Calm, Woken, Ringing, CallingBack, AtRearm, Round, InPhase
<1>1. pc # "down"
  BY DEF Inv, DownInv
<1>2. ~SmsArm /\ ~SmsDisarm /\ ~SmsStop /\ ~AppArm /\ ~AppDisarm /\ ~Crash /\ ~PowerCut
      /\ ~Boot
  BY <1>1 DEF SmsArm, SmsDisarm, SmsStop, AppArm, AppDisarm, OwnerDisarms,
              RuntimeCancelAutoRearm, Crash, PowerCut, Dies, Boot
<1>3. CASE FinishTrigger
  BY <1>3 DEF FinishTrigger, TriggerEnds
<1>4. CASE AlarmTick
  BY <1>4 DEF AlarmTick, MainMoves, rearm
<1>5. CASE ProcessAutoRearm
  BY <1>5 DEF ProcessAutoRearm, RuntimeCancelAutoRearm, MainMoves, rearm
<1>6. CASE ApplySchedule
  BY <1>6 DEF ApplySchedule, MainMoves, rearm
<1>7. CASE SmsNothing \/ AppNothing
  BY <1>7 DEF SmsNothing, AppNothing, MainMoves, rearm
<1>8. CASE QueueDrained \/ PollDone
  BY <1>8 DEF QueueDrained, PollDone, MainMoves, rearm
<1>9. CASE SirenDeadline
  BY <1>9 DEF SirenDeadline, DeadlineComes, rearm
<1>10. CASE TimerCallback
  <2>1. auto_rearm_pending = TRUE
    BY DEF Inv, TypeOK
  <2>2. siren_auto_stop_pending'
    BY <1>10, <2>1, Zenon DEF TimerCallback
  <2> QED
    BY <1>10, <2>2 DEF TimerCallback, CallbackComes
<1>11. CASE ClockBoundary \/ Writeback
  BY <1>11 DEF ClockBoundary, Writeback, NobodyMoves, rearm
<1>12. CASE UNCHANGED vars
  BY <1>12 DEF vars, NobodyMoves, rearm, siren
<1> QED
  BY <1>2, <1>3, <1>4, <1>5, <1>6, <1>7, <1>8, <1>9, <1>10, <1>11, <1>12
     DEF QuietNext, Next, MainStep

Moves == TriggerEnds \/ MainMoves \/ DeadlineComes \/ CallbackComes \/ NobodyMoves

\* What is reached is kept or left in one direction only.
LEMMA MovesKeep ==
  ASSUME Moves
  PROVE  /\ Calm => Calm'
         /\ Calm /\ Woken => Woken'
         /\ Ringing => Ringing' \/ CallingBack'
         /\ CallingBack => CallingBack' \/ Woken'
         /\ AtTick => AtTick' \/ AtRearm'
         /\ AtRearm => AtRearm' \/ AtSchedule'
         /\ AtSchedule => AtSchedule' \/ AtSms'
         /\ AtSms => AtSms' \/ AtApp'
         /\ AtApp => AtApp' \/ AtCamera'
         /\ AtCamera => AtCamera' \/ AtPoll'
         /\ AtPoll => AtPoll' \/ AtTick'
<1> USE DEF Calm, Woken, Ringing, CallingBack, AtTick, AtRearm, AtSchedule, AtSms, AtApp,
            AtCamera, AtPoll
<1>1. CASE MainMoves
  <2>1. /\ Calm' /\ UNCHANGED <<siren_active, timer, siren_auto_stop_pending>>
        /\ <<pc, pc'>> \in Round
    BY <1>1 DEF MainMoves, siren
  <2>2. /\ AtTick => AtRearm'
        /\ AtRearm => AtSchedule'
        /\ AtSchedule => AtSms'
        /\ AtSms => AtApp'
        /\ AtApp => AtCamera'
        /\ AtCamera => AtPoll'
        /\ AtPoll => AtTick'
    BY <2>1 DEF Round
  <2> QED BY <2>1, <2>2
<1>2. CASE TriggerEnds \/ NobodyMoves
  <2>1. UNCHANGED <<pc, siren_active, timer>> /\ (Calm => Calm')
    BY <1>2 DEF TriggerEnds, NobodyMoves, siren
  <2> QED BY <1>2, <2>1 DEF TriggerEnds, NobodyMoves
<1>3. CASE DeadlineComes \/ CallbackComes
  BY <1>3 DEF DeadlineComes, CallbackComes
<1> QED BY <1>1, <1>2, <1>3 DEF Moves

\* What each step under fairness brings.
LEMMA MainBrings ==
  ASSUME MainStep
  PROVE  /\ ~Calm => Calm'
         /\ Calm /\ AtTick => AtRearm'
         /\ Calm /\ AtRearm => AtSchedule'
         /\ Calm /\ AtSchedule => AtSms'
         /\ Calm /\ AtSms => AtApp'
         /\ Calm /\ AtApp => AtCamera'
<1> USE DEF InPhase, Calm, AtTick, AtRearm, AtSchedule, AtSms, AtApp, AtCamera
<1>1. CASE AlarmTick \/ ProcessAutoRearm \/ ApplySchedule
  BY <1>1 DEF AlarmTick, ProcessAutoRearm, ApplySchedule
<1>2. CASE SmsArm \/ SmsDisarm \/ SmsStop \/ SmsNothing
  BY <1>2 DEF SmsArm, SmsDisarm, SmsStop, SmsNothing
<1>3. CASE AppArm \/ AppDisarm \/ AppNothing
  <2>1. trigger = "no" /\ pc = "app" /\ pc' = "camera"
    BY <1>3, Zenon DEF AppArm, AppDisarm, AppNothing
  <2> QED BY <2>1
<1>4. CASE FinishTrigger
  BY <1>4 DEF FinishTrigger
<1> QED BY <1>1, <1>2, <1>3, <1>4 DEF MainStep

\* The phase that takes the flags cannot be left with both of them up.
LEMMA RearmIsTaken ==
  ASSUME Moves, Woken, AtRearm, AtSchedule'
  PROVE  FALSE
  BY DEF Moves, TriggerEnds, MainMoves, DeadlineComes, CallbackComes, NobodyMoves,
         AtRearm, AtSchedule

(* A re-arm that nothing takes. *)
PendingForEver ==
  []Inv /\ []ThreadsCanMove /\ []Pending /\ [][QuietNext]_vars /\ Fairness

LEMMA PendingMoves == PendingForEver => [][Moves]_vars
<1>1. Inv /\ Pending /\ Pending' /\ [QuietNext]_vars => Moves
  BY PendingSteps DEF Moves
<1> QED BY <1>1, PTL DEF PendingForEver

\* Main leaves the trigger (WF of its steps).
LEMMA TriggerIsLeft == PendingForEver => <>[]Calm
<1>1. Calm /\ [Moves]_vars => Calm'
  BY MovesKeep DEF vars, Calm
<1>2. ~Calm /\ <<MainStep>>_vars => Calm'
  BY MainBrings
<1>3. ~Calm => MainToMove
  BY DEF Calm, MainToMove
<1> QED
  BY <1>1, <1>2, <1>3, PendingMoves, PTL DEF PendingForEver, ThreadsCanMove, Fairness

\* The siren is switched off, the timer thread calls back, and the wake-up stays (WF of
\* the two steps of the timer thread).
LEMMA WakeUpArrives == PendingForEver => <>[]Woken
<1>1. Inv /\ Pending => Woken \/ CallingBack \/ Ringing
  BY DEF Inv, RearmInv, TypeOK, Pending, Woken, CallingBack, Ringing
<1>2. Calm /\ Woken /\ [Moves]_vars => Woken'
  <2>1. Woken /\ UNCHANGED vars => Woken'
    BY DEF vars, rearm, Woken
  <2> QED BY <2>1, MovesKeep
<1>3. Ringing /\ [Moves]_vars => Ringing' \/ CallingBack'
  <2>1. Ringing /\ UNCHANGED vars => Ringing'
    BY DEF vars, siren, Ringing
  <2> QED BY <2>1, MovesKeep
<1>4. CallingBack /\ [Moves]_vars => CallingBack' \/ Woken'
  BY MovesKeep DEF vars, siren, CallingBack
<1>5. Ringing /\ <<SirenDeadline>>_vars => CallingBack'
  BY DEF SirenDeadline, CallingBack
<1>6. Pending /\ <<TimerCallback>>_vars => Woken'
  BY Zenon DEF TimerCallback, Pending, Woken
<1>7. Calm => trigger = "no"
  BY DEF Calm
<1> QED
  BY <1>1, <1>2, <1>3, <1>4, <1>5, <1>6, <1>7, PendingMoves, TriggerIsLeft, PTL
     DEF PendingForEver, ThreadsCanMove, Fairness

\* Main goes round to the phase that takes both flags (WF of its steps, SF of leaving the
\* queue and the sensors), whichever phase it is in.
LEMMA NothingPendsForEver == ~PendingForEver
<1>1. Inv /\ Pending => \/ AtTick \/ AtRearm \/ AtSchedule \/ AtSms \/ AtApp
                        \/ AtCamera \/ AtPoll
  BY DEF Inv, TypeOK, DownInv, Phases, Pending, AtTick, AtRearm, AtSchedule, AtSms, AtApp,
         AtCamera, AtPoll
<1>2. /\ AtTick /\ [Moves]_vars => AtTick' \/ AtRearm'
      /\ AtSchedule /\ [Moves]_vars => AtSchedule' \/ AtSms'
      /\ AtSms /\ [Moves]_vars => AtSms' \/ AtApp'
      /\ AtApp /\ [Moves]_vars => AtApp' \/ AtCamera'
      /\ AtCamera /\ [Moves]_vars => AtCamera' \/ AtPoll'
      /\ AtPoll /\ [Moves]_vars => AtPoll' \/ AtTick'
  BY MovesKeep DEF vars, AtTick, AtRearm, AtSchedule, AtSms, AtApp, AtCamera, AtPoll
<1>3. Woken /\ AtRearm /\ [Moves]_vars => AtRearm'
  BY MovesKeep, RearmIsTaken DEF vars, AtRearm
<1>4. /\ Calm /\ AtTick /\ <<MainStep>>_vars => AtRearm'
      /\ Calm /\ AtRearm /\ <<MainStep>>_vars => AtSchedule'
      /\ Calm /\ AtSchedule /\ <<MainStep>>_vars => AtSms'
      /\ Calm /\ AtSms /\ <<MainStep>>_vars => AtApp'
      /\ Calm /\ AtApp /\ <<MainStep>>_vars => AtCamera'
  BY MainBrings
<1>5. <<QueueDrained>>_vars => AtPoll'
  BY DEF QueueDrained, AtPoll
<1>6. <<PollDone>>_vars => AtTick'
  BY DEF PollDone, AtTick
<1>7. AtTick \/ AtRearm \/ AtSchedule \/ AtSms \/ AtApp => MainToMove
  BY DEF MainToMove, AtTick, AtRearm, AtSchedule, AtSms, AtApp
<1>8. (Calm /\ AtCamera => AtQueue) /\ (Calm /\ AtPoll => AtSensors)
  BY DEF Calm, InPhase, AtCamera, AtPoll, AtQueue, AtSensors
<1>9. ~(AtRearm /\ AtSchedule)
  BY DEF AtRearm, AtSchedule
<1>10. PendingForEver => (AtSchedule ~> AtSms) /\ (AtSms ~> AtApp) /\ (AtApp ~> AtCamera)
  BY <1>2, <1>4, <1>7, PendingMoves, TriggerIsLeft, PTL
     DEF PendingForEver, ThreadsCanMove, Fairness
<1>11. PendingForEver => (AtCamera ~> AtPoll)
  BY <1>2, <1>5, <1>8, PendingMoves, TriggerIsLeft, PTL
     DEF PendingForEver, ThreadsCanMove, Fairness
<1>12. PendingForEver => (AtPoll ~> AtTick)
  BY <1>2, <1>6, <1>8, PendingMoves, TriggerIsLeft, PTL
     DEF PendingForEver, ThreadsCanMove, Fairness
<1>13. PendingForEver => (AtTick ~> AtRearm)
  BY <1>2, <1>4, <1>7, PendingMoves, TriggerIsLeft, PTL
     DEF PendingForEver, ThreadsCanMove, Fairness
<1>14. PendingForEver => [](Woken => ~[]AtRearm)
  BY <1>4, <1>7, <1>9, TriggerIsLeft, PTL DEF PendingForEver, ThreadsCanMove, Fairness
<1>15. PendingForEver => []<>AtRearm
  <2>1. PendingForEver => [](\/ AtTick \/ AtRearm \/ AtSchedule \/ AtSms \/ AtApp
                             \/ AtCamera \/ AtPoll)
    BY <1>1, PTL DEF PendingForEver
  <2> QED BY <1>10, <1>11, <1>12, <1>13, <2>1, PTL
<1> QED
  BY <1>3, <1>14, <1>15, PendingMoves, WakeUpArrives, PTL DEF PendingForEver

\* For all values of the clocks, if each thread can move where it stands (ThreadsCanMove, which
\* the guards say), a re-arm still pending after the last alarm is carried out or cancelled
\* (runtime_loop.c 1042-1094): siren, timer thread and main lose no wake-up between them.
THEOREM RearmIsNotForgotten == Spec /\ []ThreadsCanMove => RearmIsResolved
<1> DEFINE Running == []Inv /\ []ThreadsCanMove /\ [][Next]_vars /\ Fairness
<1>1. [Next]_vars /\ [~Alarm]_vars => [QuietNext]_vars
  BY DEF QuietNext
<1>2. Running /\ []Pending /\ [][~Alarm]_vars => PendingForEver
  BY <1>1, PTL DEF PendingForEver
<1>3. ~(Running /\ []Pending /\ [][~Alarm]_vars)
  BY <1>2, NothingPendsForEver
<1>4. Running => []Running
  BY PTL DEF Fairness
<1>5. Spec /\ []ThreadsCanMove => Running
  BY InvHolds, PTL DEF Spec
<1> HIDE DEF Running
<1>6. Running => (<>[][~Alarm]_vars => (Pending ~> ~Pending))
  BY <1>3, <1>4, PTL
<1> QED
  BY <1>5, <1>6, PTL DEF RearmIsResolved, Pending
=============================================================================

--------------------------- MODULE CameraPipeline ---------------------------
(***************************************************************************)
(* From the cameras to a camera alarm: the camera threads and the bounded  *)
(* queue between them and main (runtime_loop.c), the learning of static    *)
(* objects after an arming (runtime_loop.c), the grace period and the      *)
(* confirmation by consecutive frames (alarm_logic.c).                     *)
(*                                                                         *)
(* What a camera sees is one place, that of the best box: boxes that       *)
(* overlap enough to be taken for one another are one place.               *)
(***************************************************************************)
EXTENDS Naturals, Sequences, FiniteSets

CONSTANTS
  CAMERAS,               \* the configured cameras, one thread each
  PLACES,                \* where a person's box may be
  NO_BOX,                \* a person without a box
  NOBODY,                \* no person
  QUEUE_CAPACITY,        \* AMTECH_CAMERA_QUEUE_CAPACITY
  STATIC_ZONES,          \* AMTECH_STATIC_ZONE_MAX_PER_CAMERA
  MIN_OCCURRENCES,       \* AMTECH_STATIC_ZONE_MIN_OCCURRENCES
  REQUIRED_FRAMES,       \* REQUIRED_CONSECUTIVE_FRAMES
  CAMERA_ARM_GRACE,      \* AMTECH_CAMERA_ARM_GRACE_MS
  STATIC_CALIBRATION,    \* AMTECH_STATIC_CALIBRATION_MS
  MAX_PASS               \* longest pass of main's loop

ASSUME CameraAssumption ==
  /\ NO_BOX \notin PLACES /\ NOBODY \notin PLACES /\ NO_BOX # NOBODY
  /\ QUEUE_CAPACITY \in Nat \ {0}
  /\ STATIC_ZONES \in Nat
  /\ MIN_OCCURRENCES \in Nat \ {0}
  /\ REQUIRED_FRAMES \in Nat \ {0, 1}
  /\ CAMERA_ARM_GRACE \in Nat \ {0}
  /\ STATIC_CALIBRATION \in Nat \ {0}
  /\ MAX_PASS \in Nat

VARIABLES
  \* alarm_logic.c
  armed, alarm_triggered, camera_arm_grace_elapsed,
  frames,               \* consecutive_person_frames of each source
  \* runtime_loop.c
  observed_armed, calibrating, calibration_elapsed,
  zones,                \* seen_count of the zone at a place, 0 for none
  queue,                \* camera_result_queue_t, oldest result first
  capture,              \* what each camera thread is at
  pc,                   \* where main is in its pass
  pass,                 \* time since the last tick
  \* history
  confirmed,            \* suspicious results handled in a row since the arming
  fresh,                \* one of them was captured since the arming
  wait                  \* what is left of the time a camera alarm is to wait

alarm == <<armed, alarm_triggered>>
calib == <<calibrating, calibration_elapsed, zones>>
loop  == <<pc, pass>>
past  == <<confirmed, fresh, wait>>
vars == <<alarm, camera_arm_grace_elapsed, frames, observed_armed, calib, queue, capture, loop,
          past>>

Views == PLACES \union {NO_BOX, NOBODY}
Results == [source : CAMERAS, view : Views, stale : BOOLEAN]
None == [c \in CAMERAS |-> 0]
NoZones == [c \in CAMERAS |-> [p \in PLACES |-> 0]]
LongestWait == IF CAMERA_ARM_GRACE > STATIC_CALIBRATION THEN CAMERA_ARM_GRACE
                                                        ELSE STATIC_CALIBRATION

TypeOK ==
  /\ armed \in BOOLEAN /\ alarm_triggered \in BOOLEAN
  /\ camera_arm_grace_elapsed \in 0..CAMERA_ARM_GRACE
  /\ frames \in [CAMERAS -> 0..REQUIRED_FRAMES]
  /\ observed_armed \in BOOLEAN
  /\ calibrating \in BOOLEAN
  /\ calibration_elapsed \in 0..STATIC_CALIBRATION
  /\ zones \in [CAMERAS -> [PLACES -> 0..MIN_OCCURRENCES]]
  /\ queue \in Seq(Results) /\ Len(queue) <= QUEUE_CAPACITY
  /\ capture \in [CAMERAS -> {"idle", "fresh", "stale"}]
  /\ pc \in {"tick", "commands", "drain", "sensors"}
  /\ pass \in 0..MAX_PASS
  /\ confirmed \in [CAMERAS -> 0..REQUIRED_FRAMES]
  /\ fresh \in [CAMERAS -> BOOLEAN]
  /\ wait \in 0..LongestWait

Init ==
  /\ armed = FALSE /\ alarm_triggered = FALSE
  /\ camera_arm_grace_elapsed = CAMERA_ARM_GRACE
  /\ frames = None
  /\ observed_armed = FALSE
  /\ calibrating = FALSE /\ calibration_elapsed = STATIC_CALIBRATION
  /\ zones = NoZones
  /\ queue = <<>> /\ capture = [c \in CAMERAS |-> "idle"]
  /\ pc = "tick" /\ pass = 0
  /\ confirmed = None /\ fresh = [c \in CAMERAS |-> FALSE] /\ wait = 0
-----------------------------------------------------------------------------
(* The camera threads. *)

\* runtime_camera_detection_should_run, then snapshot and detector, which take seconds.
CaptureStarts(c) ==
  /\ capture[c] = "idle" /\ armed
  /\ capture' = [capture EXCEPT ![c] = "fresh"]
  /\ UNCHANGED <<alarm, camera_arm_grace_elapsed, frames, observed_armed, calib, queue, loop,
                 past>>

CaptureFails(c) ==
  /\ capture[c] # "idle"
  /\ capture' = [capture EXCEPT ![c] = "idle"]
  /\ UNCHANGED <<alarm, camera_arm_grace_elapsed, frames, observed_armed, calib, queue, loop,
                 past>>

\* camera_queue_publish: a full queue loses its oldest result.
Published(q, r) == Append(IF Len(q) = QUEUE_CAPACITY THEN Tail(q) ELSE q, r)

\* Published whatever became of the arm state in the meantime.
Publish(c) ==
  /\ capture[c] # "idle"
  /\ \E v \in Views :
       queue' = Published(queue, [source |-> c, view |-> v, stale |-> capture[c] = "stale"])
  /\ capture' = [capture EXCEPT ![c] = "idle"]
  /\ UNCHANGED <<alarm, camera_arm_grace_elapsed, frames, observed_armed, calib, loop, past>>
-----------------------------------------------------------------------------
(* Arming and disarming. *)

\* A slip: the grace period is not started.
SetArmedKeepsGrace(next) ==
  /\ armed' = next
  /\ frames' = None
  /\ UNCHANGED camera_arm_grace_elapsed

\* alarm_logic_set_armed, for a change.
AlarmLogicSetArmed(next) ==
  /\ armed' = next
  /\ frames' = None
  /\ camera_arm_grace_elapsed' = IF next THEN 0 ELSE CAMERA_ARM_GRACE

\* A slip: what was learned outlives the arming.
NoteKeepsZones(now) ==
  /\ observed_armed' = now
  /\ calibrating' = (now /\ (calibrating \/ ~observed_armed))
  /\ calibration_elapsed' = IF now /\ observed_armed THEN calibration_elapsed
                            ELSE IF now THEN 0 ELSE STATIC_CALIBRATION
  /\ UNCHANGED zones

\* runtime_note_armed_state: a new arming starts to learn from nothing, a disarm ends
\* and forgets.
RuntimeNoteArmedState(now) ==
  /\ observed_armed' = now
  /\ IF now = observed_armed
     THEN UNCHANGED calib
     ELSE /\ calibrating' = now
          /\ calibration_elapsed' = IF now THEN 0 ELSE STATIC_CALIBRATION
          /\ zones' = NoZones

\* History: what is in the queue or under way is of another arming from now on.
Aged(rs) == [i \in DOMAIN rs |-> [rs[i] EXCEPT !.stale = TRUE]]
AgedCapture == [c \in CAMERAS |-> IF capture[c] = "idle" THEN "idle" ELSE "stale"]

NewArming ==
  /\ confirmed' = None
  /\ fresh' = [c \in CAMERAS |-> FALSE]
  /\ IF armed'
     THEN LET due == IF observed_armed THEN CAMERA_ARM_GRACE ELSE STATIC_CALIBRATION
          IN  wait' = IF pass < due THEN due - pass ELSE 0
     ELSE wait' = 0

\* runtime_set_armed, by owner, schedule or automatic re-arm.
SetArmed ==
  /\ pc = "commands"
  /\ AlarmLogicSetArmed(~armed)
  /\ RuntimeNoteArmedState(~armed)
  /\ queue' = Aged(queue) /\ capture' = AgedCapture
  /\ NewArming
  /\ UNCHANGED <<alarm_triggered, loop>>

\* The same with the arm state as it is: only its observation may be late.
SetArmedAgain ==
  /\ pc = "commands"
  /\ RuntimeNoteArmedState(armed)
  /\ UNCHANGED <<alarm, camera_arm_grace_elapsed, frames, queue, capture, loop, past>>

\* The owner's STOP of an alarm: alarm_logic_reset, then disarmed.
Stop ==
  /\ pc = "commands"
  /\ alarm_triggered
  /\ armed' = FALSE /\ alarm_triggered' = FALSE
  /\ camera_arm_grace_elapsed' = CAMERA_ARM_GRACE
  /\ frames' = None
  /\ RuntimeNoteArmedState(FALSE)
  /\ queue' = Aged(queue) /\ capture' = AgedCapture
  /\ NewArming
  /\ UNCHANGED loop

\* A slip: the runtime notices no alarm.
TriggerUnnoticed ==
  /\ alarm_triggered' = TRUE
  /\ IF armed THEN AlarmLogicSetArmed(FALSE)
              ELSE UNCHANGED <<armed, frames, camera_arm_grace_elapsed>>
  /\ UNCHANGED <<observed_armed, calib>>
  /\ capture' = AgedCapture
  /\ NewArming

\* trigger_alarm disarms; runtime_schedule_auto_rearm_after_alarm_trigger notes it for the
\* first alarm of an incident only.
Trigger ==
  /\ alarm_triggered' = TRUE
  /\ IF armed THEN AlarmLogicSetArmed(FALSE)
              ELSE UNCHANGED <<armed, frames, camera_arm_grace_elapsed>>
  /\ IF alarm_triggered THEN UNCHANGED <<observed_armed, calib>>
                        ELSE RuntimeNoteArmedState(FALSE)
  /\ capture' = AgedCapture
  /\ NewArming
-----------------------------------------------------------------------------
(* Main's pass. *)

\* alarm_logic_tick and runtime_static_calibration_tick, with the time since the last
\* pass began, also that before an arming in it.
Tick ==
  /\ pc = "tick"
  /\ camera_arm_grace_elapsed' =
       IF pass < CAMERA_ARM_GRACE - camera_arm_grace_elapsed
       THEN camera_arm_grace_elapsed + pass ELSE CAMERA_ARM_GRACE
  /\ calibration_elapsed' =
       IF calibrating /\ pass < STATIC_CALIBRATION - calibration_elapsed
       THEN calibration_elapsed + pass ELSE STATIC_CALIBRATION
  /\ calibrating' = (calibrating /\ calibration_elapsed' < STATIC_CALIBRATION)
  /\ pass' = 0 /\ pc' = "commands"
  /\ UNCHANGED <<alarm, frames, observed_armed, zones, queue, capture, past>>

CommandsDone ==
  /\ pc = "commands"
  /\ pc' = "drain"
  /\ UNCHANGED <<alarm, camera_arm_grace_elapsed, frames, observed_armed, calib, queue, capture,
                 pass, past>>

\* Main waits for the modem, HTTP or a sensor, anywhere in its pass.
TimePasses ==
  /\ pass < MAX_PASS
  /\ pass' = pass + 1
  /\ wait' = IF wait > 0 THEN wait - 1 ELSE 0
  /\ UNCHANGED <<alarm, camera_arm_grace_elapsed, frames, observed_armed, calib, queue, capture,
                 pc, confirmed, fresh>>

\* The oldest result r, runtime_process_camera_detection_result: its four cases follow.
Consumes(r) ==
  /\ pc = "drain" /\ queue # <<>> /\ r = Head(queue)
  /\ queue' = Tail(queue)
  /\ UNCHANGED loop

Person(r) == r.view # NOBODY
Static(r) == r.view \in PLACES /\ zones[r.source][r.view] >= MIN_OCCURRENCES

\* History: a result that counts, or not, towards the confirmation of its camera.
Innocent(r) ==
  /\ confirmed' = [confirmed EXCEPT ![r.source] = 0]
  /\ fresh' = [fresh EXCEPT ![r.source] = FALSE]
  /\ UNCHANGED wait
Suspicious(r) ==
  /\ confirmed' = [confirmed EXCEPT ![r.source] = @ + 1]
  /\ fresh' = [fresh EXCEPT ![r.source] = @ \/ ~r.stale]
  /\ UNCHANGED wait

\* Disarmed in the meantime.
ConsumeDisarmed(r) ==
  /\ Consumes(r) /\ ~armed
  /\ RuntimeNoteArmedState(FALSE)
  /\ frames' = [frames EXCEPT ![r.source] = 0]
  /\ Innocent(r)
  /\ UNCHANGED <<alarm, camera_arm_grace_elapsed, capture>>

\* The table of zones after a person was seen at p: a known zone counts, a new one needs
\* a free slot.
Learned(zs, p) ==
  IF zs[p] > 0
  THEN [zs EXCEPT ![p] = IF @ < MIN_OCCURRENCES THEN @ + 1 ELSE @]
  ELSE IF Cardinality({q \in PLACES : zs[q] > 0}) < STATIC_ZONES THEN [zs EXCEPT ![p] = 1]
  ELSE zs

\* Calibrating: learned from, and no frame for the alarm.
ConsumeCalibrating(r) ==
  /\ Consumes(r) /\ armed /\ calibrating
  /\ zones' = IF r.view \in PLACES THEN [zones EXCEPT ![r.source] = Learned(@, r.view)] ELSE zones
  /\ frames' = [frames EXCEPT ![r.source] = 0]
  /\ Innocent(r)
  /\ UNCHANGED <<alarm, camera_arm_grace_elapsed, observed_armed, calibrating,
                 calibration_elapsed, capture>>

\* A slip: a static object's frame leaves the count as it is.
StaticSkipsFrame(r) ==
  /\ Consumes(r) /\ armed /\ ~calibrating /\ Static(r)
  /\ Innocent(r)
  /\ UNCHANGED <<alarm, camera_arm_grace_elapsed, observed_armed, calib, frames, capture>>

\* A static object: no frame for the alarm.
ConsumeStatic(r) ==
  /\ Consumes(r) /\ armed /\ ~calibrating /\ Static(r)
  /\ frames' = [frames EXCEPT ![r.source] = 0]
  /\ Innocent(r)
  /\ UNCHANGED <<alarm, camera_arm_grace_elapsed, observed_armed, calib, capture>>

\* Nobody, or a person within the grace period.
ConsumeQuiet(r) ==
  /\ Consumes(r) /\ armed /\ ~calibrating /\ ~Static(r)
  /\ ~Person(r) \/ camera_arm_grace_elapsed < CAMERA_ARM_GRACE
  /\ frames' = [frames EXCEPT ![r.source] = 0]
  /\ Innocent(r)
  /\ UNCHANGED <<alarm, camera_arm_grace_elapsed, observed_armed, calib, capture>>

\* alarm_logic_handle_detection_source and _end_frame_source: a person.
SeesPerson(r) ==
  /\ Consumes(r) /\ armed /\ ~calibrating /\ ~Static(r)
  /\ Person(r) /\ camera_arm_grace_elapsed = CAMERA_ARM_GRACE

ConsumePerson(r) ==
  /\ SeesPerson(r) /\ frames[r.source] + 1 < REQUIRED_FRAMES
  /\ frames' = [frames EXCEPT ![r.source] = @ + 1]
  /\ Suspicious(r)
  /\ UNCHANGED <<alarm, camera_arm_grace_elapsed, observed_armed, calib, capture>>

\* The last frame needed: the alarm.
ConsumeAlarm(r) ==
  /\ pc = "drain" /\ queue # <<>> /\ r = Head(queue)
  /\ armed /\ ~calibrating /\ ~Static(r)
  /\ Person(r) /\ camera_arm_grace_elapsed = CAMERA_ARM_GRACE
  /\ frames[r.source] + 1 >= REQUIRED_FRAMES
  /\ queue' = Aged(Tail(queue))
  /\ Trigger
  /\ UNCHANGED loop

Consume ==
  \E r \in Results :
    \/ ConsumeDisarmed(r) \/ ConsumeCalibrating(r) \/ ConsumeStatic(r)
    \/ ConsumeQuiet(r) \/ ConsumePerson(r) \/ ConsumeAlarm(r)

QueueDrained ==
  /\ pc = "drain" /\ queue = <<>>
  /\ pc' = "sensors"
  /\ UNCHANGED <<alarm, camera_arm_grace_elapsed, frames, observed_armed, calib, queue, capture,
                 pass, past>>

\* A wired sensor: panic, smoke and tamper need no arming.
SensorAlarm ==
  /\ pc = "sensors"
  /\ queue' = Aged(queue)
  /\ Trigger
  /\ UNCHANGED loop

PassEnds ==
  /\ pc = "sensors"
  /\ pc' = "tick"
  /\ UNCHANGED <<alarm, camera_arm_grace_elapsed, frames, observed_armed, calib, queue, capture,
                 pass, past>>

Next ==
  \/ \E c \in CAMERAS : CaptureStarts(c) \/ CaptureFails(c) \/ Publish(c)
  \/ Tick \/ SetArmed \/ SetArmedAgain \/ Stop \/ CommandsDone
  \/ Consume \/ QueueDrained
  \/ SensorAlarm \/ PassEnds
  \/ TimePasses

Spec == Init /\ [][Next]_vars
-----------------------------------------------------------------------------
(* Properties. *)

\* Main takes the result r from the queue and raises a camera alarm, or not.
CameraAlarm == pc = "drain" /\ queue # <<>> /\ armed /\ ~armed'
Suspect(r) ==
  armed /\ ~calibrating /\ Person(r) /\ ~Static(r)
        /\ camera_arm_grace_elapsed = CAMERA_ARM_GRACE

\* A camera alarm is raised by REQUIRED_FRAMES results of one camera, handled by main one
\* after the other since the arming and not all of them captured before it, that show a
\* person where no static object is; and by as many it is raised.  Neither another
\* camera's frames, a static object, a calibration nor an arming in between leaves a
\* count behind.  A result that main never gets, because the full queue dropped it or the
\* capture failed, counts neither way: two frames of a person with a lost one of nobody
\* between them raise the alarm (runtime_loop.c 2414-2431, alarm_logic.c 619-657).
AlarmIffConfirmed ==
  [][\A r \in Results :
       pc = "drain" /\ queue # <<>> /\ r = Head(queue) /\ Len(queue') < Len(queue) =>
         /\ CameraAlarm <=> Suspect(r) /\ confirmed[r.source] + 1 >= REQUIRED_FRAMES
         /\ CameraAlarm => fresh[r.source] \/ ~r.stale]_vars

\* What was learned in one arming is forgotten with the disarm, unless an alarm of a
\* running incident has disarmed.
ZonesOnlyWhileArmed == zones # NoZones => armed \/ alarm_triggered

\* A camera alarm waits for the calibration, or where the runtime has not noticed the
\* arming for the grace period, less the part of main's pass before the arming.
AlarmWaits == [][CameraAlarm => wait = 0]_vars

Core == INSTANCE ArmingCore WITH MAX_ELAPSED <- MAX_PASS

\* Cameras, queue, commands and sensors do nothing to the arm state, its observation
\* and its two clocks but what ArmingCore allows, as AlarmRuntime does: the two modules
\* agree on what they share.
ImplementsArmingCore == Core!Spec
=============================================================================

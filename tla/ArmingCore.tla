------------------------------ MODULE ArmingCore ------------------------------
(***************************************************************************)
(* What arming a shop means, without threads, commands, alarms' causes or  *)
(* files: the arm state of alarm_logic.c with its camera grace, and beside *)
(* it what runtime_loop.c has seen of it and the calibration that hangs on *)
(* that.  An alarm disarms.  The runtime notices a first alarm, and not    *)
(* one repeated in a running incident; an arming that follows such a       *)
(* disarm unnoticed gets its grace and no calibration.                     *)
(*                                                                         *)
(* Both AlarmRuntime (who arms and disarms, and when) and CameraPipeline   *)
(* (what the cameras make of it) implement this module.                    *)
(***************************************************************************)
EXTENDS Naturals

CONSTANTS
  CAMERA_ARM_GRACE,     \* AMTECH_CAMERA_ARM_GRACE_MS
  STATIC_CALIBRATION,   \* AMTECH_STATIC_CALIBRATION_MS
  MAX_ELAPSED           \* longest time between two ticks

VARIABLES
  armed, alarm_triggered, camera_arm_grace_elapsed,     \* alarm_logic.c
  observed_armed, calibrating, calibration_elapsed      \* runtime_loop.c

calib == <<calibrating, calibration_elapsed>>
vars == <<armed, alarm_triggered, camera_arm_grace_elapsed, observed_armed, calib>>

Init ==
  /\ armed = FALSE /\ alarm_triggered = FALSE
  /\ camera_arm_grace_elapsed = CAMERA_ARM_GRACE
  /\ observed_armed = FALSE
  /\ calibrating = FALSE /\ calibration_elapsed = STATIC_CALIBRATION

\* The runtime sees the arm state: a rise starts the calibration, a fall ends it.
Noted(now) ==
  /\ observed_armed' = now
  /\ IF now = observed_armed THEN UNCHANGED calib
     ELSE calibrating' = now /\ calibration_elapsed' = IF now THEN 0 ELSE STATIC_CALIBRATION

Fallen == armed' = FALSE /\ camera_arm_grace_elapsed' = CAMERA_ARM_GRACE

\* By the owner, the schedule, the automatic re-arm or the restored state.
Arm ==
  /\ ~armed
  /\ armed' = TRUE /\ camera_arm_grace_elapsed' = 0
  /\ Noted(TRUE)
  /\ UNCHANGED alarm_triggered

\* Also the fall noticed late; STOP ends the incident with it.
Disarm ==
  /\ Fallen
  /\ Noted(FALSE)
  /\ alarm_triggered' \in {alarm_triggered, FALSE}

FirstAlarm ==
  /\ ~alarm_triggered
  /\ alarm_triggered' = TRUE
  /\ Fallen
  /\ Noted(FALSE)

RepeatedAlarm ==
  /\ alarm_triggered
  /\ Fallen
  /\ UNCHANGED <<alarm_triggered, observed_armed, calib>>

Advanced(now, elapsed, limit) == IF elapsed < limit - now THEN now + elapsed ELSE limit

\* Both clocks advance by the same time; the calibration ends at its limit.
Tick(elapsed) ==
  /\ camera_arm_grace_elapsed' =
       IF armed THEN Advanced(camera_arm_grace_elapsed, elapsed, CAMERA_ARM_GRACE)
       ELSE camera_arm_grace_elapsed
  /\ calibration_elapsed' =
       IF calibrating THEN Advanced(calibration_elapsed, elapsed, STATIC_CALIBRATION)
       ELSE calibration_elapsed
  /\ calibrating' = (calibrating /\ calibration_elapsed' < STATIC_CALIBRATION)
  /\ UNCHANGED <<armed, alarm_triggered, observed_armed>>

\* A power cut: only the disarmed state is left.
Lost ==
  /\ Fallen
  /\ alarm_triggered' = FALSE /\ observed_armed' = FALSE
  /\ calibrating' = FALSE /\ calibration_elapsed' = STATIC_CALIBRATION

Next ==
  \/ Arm \/ Disarm \/ FirstAlarm \/ RepeatedAlarm
  \/ \E elapsed \in 0 .. MAX_ELAPSED : Tick(elapsed)
  \/ Lost

Spec == Init /\ [][Next]_vars
=============================================================================

\* The arming core with every owner command, alarm, failed write, process
\* death and power cut.
\* One time unit is the camera grace; the calibration takes two.
CONSTANTS
  CAMERA_ARM_GRACE = 1
  STATIC_CALIBRATION = 2
  MAX_ELAPSED = 2
SPECIFICATION Spec
INVARIANTS
  DisarmHolds
  FirstAlarmWillRearm
  FileMatchesArmState
  ScheduleControlFollowsSchedule
PROPERTIES
  ImplementsArmingCore
  MonitoringSmsOnlyWhenArmed
  OnlyAnAlarmRingsOverARearm
  RearmIsResolved

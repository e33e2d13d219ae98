CONSTANTS
  CAMERA_ARM_GRACE = 1
  STATIC_CALIBRATION = 2
  MAX_ELAPSED = 2
SPECIFICATION Spec
INVARIANTS
  TemporaryDisarmHasRearm

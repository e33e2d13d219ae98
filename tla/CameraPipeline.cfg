SPECIFICATION Spec
CONSTANTS
  front = front
  parking = parking
  door = door
  desk = desk
  CAMERAS = {front, parking}
  PLACES = {door, desk}
  NO_BOX = no_box
  NOBODY = nobody
  QUEUE_CAPACITY = 2
  STATIC_ZONES = 1
  MIN_OCCURRENCES = 2
  REQUIRED_FRAMES = 2
  CAMERA_ARM_GRACE = 1
  STATIC_CALIBRATION = 2
  MAX_PASS = 2
SYMMETRY Alike
INVARIANTS
  ZonesOnlyWhileArmed
PROPERTIES
  ImplementsArmingCore
  AlarmIffConfirmed
  AlarmWaits

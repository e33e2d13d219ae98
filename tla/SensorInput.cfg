SPECIFICATION Spec
CONSTANTS
  SHUTTER_COUNT = 1
  PANIC_ENABLED = TRUE
  SMOKE_ENABLED = FALSE
INVARIANTS
  OpenShutterIsNoticed
  LastingDangerIsNoticed
  SensorsCanMove
PROPERTIES
  DangerIsAlarmed

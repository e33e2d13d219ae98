SPECIFICATION Spec
CONSTANTS
  MAX_APP = 2
  MAX_SMS = 2
  SIM_SLOTS = 2
  MAX_RESTARTS = 1
INVARIANT
  ReadSmsIsDeleted

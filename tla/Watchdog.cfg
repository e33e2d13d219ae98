\* The constants of the code in units of 5 s.
CONSTANTS
  STALE = 3
  FEED = 2
  TIMEOUT = 12
  HOLD = 28
SPECIFICATION Spec
INVARIANTS
  SilenceIsCutOff
PROPERTIES
  ResetOnlyAfterSilence

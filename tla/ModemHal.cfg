\* Three failures to a reset, a cooldown longer than a call, a call longer than
\* two polls, passes longer than a poll interval.
CONSTANTS
  THRESHOLD = 3
  COOLDOWN = 6
  CALL_MAX = 5
  STATUS_POLL = 2
  MAX_ELAPSED = 3

SPECIFICATION Spec

INVARIANTS
  OutgoingCallIsTracked
  DeadCallIsNoticed
  DeferredResetIsDue
  ModemIsNotHeldInReset

PROPERTIES
  ResetsAreSpaced
  CallEnds
  DeferredResetResolves

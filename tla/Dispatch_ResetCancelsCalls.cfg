CONSTANTS
  N = 2
  ATTEMPTS = 2
  ATTEMPT_TIMEOUT = 3
  ANSWER_CONFIRM = 1
  RETRY_GAP = 1
  SUSPECT = 2
  MAX_ELAPSED = 2
  MAX_REQUESTS = 2
  MAX_RESETS = 1
SPECIFICATION Spec
INVARIANTS
  ResetCancelsCalls

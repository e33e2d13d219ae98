\* Two contact slots, any of them configured; two accepted requests and one
\* reset, so that a dispatch can meet the reset, the cooldown and its
\* predecessor.  One time unit is about the voicemail limit.
CONSTANTS
  N = 2
  ATTEMPTS = 2
  ATTEMPT_TIMEOUT = 5
  ANSWER_CONFIRM = 2
  RETRY_GAP = 1
  SUSPECT = 2
  MAX_ELAPSED = 2
  MAX_REQUESTS = 2
  MAX_RESETS = 1
SPECIFICATION Spec
INVARIANTS
  CallMatchesEscalation
  AnswerPassedVoicemailGuard
  FewLateSms
  StopIsOutrunOnce
PROPERTIES
  ImplementsCallSequence
  EscalationEnds

SPECIFICATION Spec
CONSTANTS
  MaxCalls = 3
  MaxRestarts = 1
INVARIANTS AnswerIsOwnOrLate FailureHasCause ServerInStep
PROPERTY CallsReturn
CHECK_DEADLOCK FALSE

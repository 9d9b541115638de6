SPECIFICATION Spec
CONSTANTS
  MaxMsgs = 2
  MaxConns = 3
INVARIANT FailureSurvived
CHECK_DEADLOCK FALSE

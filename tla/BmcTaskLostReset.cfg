CONSTANTS
  Retries = 2
  Requests = {"command"}
  ResetIn = {"gpio"}
SPECIFICATION Spec
INVARIANTS ResetRemembered
CHECK_DEADLOCK FALSE

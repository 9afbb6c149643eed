CONSTANTS
  Retries = 3
  Requests = {}
  ResetIn = {"reloadTraining"}
SPECIFICATION FairSpec
PROPERTIES WaitEnds
CHECK_DEADLOCK FALSE

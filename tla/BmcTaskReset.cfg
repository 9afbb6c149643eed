CONSTANTS
  Retries = 3
  Requests = {}
  ResetIn = {"initTraining", "reloadTrained", "gpio"}
SPECIFICATION FairSpec
INVARIANTS Distrusted
PROPERTIES VerifiedBeforeJump ResetServed WaitEnds
CHECK_DEADLOCK FALSE

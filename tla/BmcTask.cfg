CONSTANTS
  Retries = 3
  Requests = {"command", "unknown", "unhandled", "i2c"}
  ResetIn = {"initTraining", "reloadTrained", "gpio"}
SPECIFICATION FairSpec
INVARIANTS TypeOK OneLoader
PROPERTIES Answered
CHECK_DEADLOCK FALSE

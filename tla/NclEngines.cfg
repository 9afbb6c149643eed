CONSTANTS
  NoTask = NoTask
  Jobs <- MCJobs
SPECIFICATION FairSpec
INVARIANTS TypeOK OwnKey DigestWhole NotLeftActive
PROPERTIES Returns
CHECK_DEADLOCK FALSE

CONSTANTS
  NoTask = NoTask
  Idle = "idle"
  Base <- MCBase
  Calls <- MCCalls
  Mutexes = {1}
  Nesting = {}
  Width = 4
  Lag = 2
  MaxPended = 1
SPECIFICATION Spec
INVARIANTS TypeOK HighestRuns Inherited OnTime
PROPERTIES NoLostWake

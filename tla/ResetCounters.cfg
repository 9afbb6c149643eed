CONSTANTS
  Kinds = {"WD1", "SW1", "WOL", "FORCE"}
  Window = 2
  Horizon = 4
  MaxHits = 3
  During = "no"
SPECIFICATION Spec
INVARIANTS TypeOK RecoveryJustified Limited GpioRearmed
CHECK_DEADLOCK FALSE

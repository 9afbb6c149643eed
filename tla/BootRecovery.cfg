SPECIFICATION Spec
CONSTANTS
  Release <- Releases
  Factory <- Delivered
  Offered <- Updates
  Blank = Blank
  Early = "no"
INVARIANTS TypeOK NeverBricked RecoveryKept
PROPERTY Recovers
CHECK_DEADLOCK FALSE

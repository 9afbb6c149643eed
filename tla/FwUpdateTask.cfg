CONSTANTS
  Control = {c1}
  Direct  = {d1}
  Image   = {good, bad}
  Signed  = {good}
  N       = 2
SPECIFICATION FairSpec
INVARIANTS TypeOK OneOwner InstalledVerified
PROPERTIES ConsumedBytesKept WriteIntact ImplementsSlot Answered

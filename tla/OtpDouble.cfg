CONSTANTS
  Manifests <- NoMasks
  Junk = {}
  Word <- MCWord
  Bytes = 2
  MaxCuts = 0
  MaxRefused = 0
  MaxWrong = 2
SPECIFICATION FairSpec
INVARIANTS DoubleDetected

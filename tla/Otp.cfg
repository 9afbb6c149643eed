CONSTANTS
  Manifests <- MCManifests
  Junk <- MCJunk
  Word <- MCWord
  Bytes = 2
  MaxCuts = 2
  MaxRefused = 3
  MaxWrong = 1
SPECIFICATION FairSpec
INVARIANTS TypeOK KeyReadable RevokedAsAsked
PROPERTIES Boots

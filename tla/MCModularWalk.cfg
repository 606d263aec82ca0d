SPECIFICATION FairSpec
CONSTANTS
  ThreadCount = 3
  ModSizes <- MCModSizes
  BlockBits = 6
  ExponentBits = 3
  BlockCount = 2
INVARIANTS
  TypeOK
  OriginalAhead
  WalksAreDisjoint
  BlockBelowCeiling
  IterationsBounded
PROPERTIES
  EveryBlockMet
CHECK_DEADLOCK FALSE

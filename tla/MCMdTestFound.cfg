SPECIFICATION FairSpec
CONSTANTS
  ThreadCount = 3
  BlockCount = 1
  Horizon = 3
  LineBase = 0
  LineStep = 1
  LineBound = 5
  Hits <- HitsFound
  Ceiling <- MCCeiling
  Original <- OriginalFound
INVARIANTS
  IInv
  NamedThreadMatches
  NotFoundMeansAbsent
  MismatchIsCollision
PROPERTIES
  VerdictIsFinal
  BuffersFrozen
  Terminates

SPECIFICATION FairSpec
CONSTANTS
  ThreadCount = 2
  BlockCount = 1
  Horizon = 4
  LineBase = 0
  LineStep = 1
  LineBound = 4
  Hits <- HitsAbsent
  Ceiling <- MCCeiling
  Original <- OriginalAbsent
INVARIANTS
  IInv
  DeleteRacesOnlyTheLastStore
PROPERTIES
  Terminates

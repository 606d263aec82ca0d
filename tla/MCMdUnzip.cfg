SPECIFICATION FairSpec
CONSTANTS
  ThreadCount = 2
  BlockCount = 3
  Horizon = 2
  LineBase = 0
  LineStep = 0
  LineBound = 1
  Hits <- HitsMixed
  Ceiling <- CeilingMixed
INVARIANTS
  TypeOK
  HandOverRacesOnlyTheLastStore
  VerdictIsOfThisBlock
  WrittenIsRight
  BlocksInOrder
PROPERTIES
  Terminates

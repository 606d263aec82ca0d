SPECIFICATION Spec
CONSTANTS
  ThreadCount = 2
  BlockCount = 1
  Horizon = 2
  LineBase = 0
  LineStep = 0
  LineBound = 1
  Hits <- HitsSingle
  Ceiling <- CeilingFar
INVARIANT WrittenBlocksMatch

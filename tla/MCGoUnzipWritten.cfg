SPECIFICATION Spec
CONSTANTS
  ThreadCount = 2
  BlockCount = 2
  Horizon = 2
  Hits <- HitsTwo
  Ceiling <- MCCeiling
INVARIANT WrittenBlocksMatch
CHECK_DEADLOCK FALSE

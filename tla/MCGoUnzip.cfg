SPECIFICATION FairSpec
CONSTANTS
  ThreadCount = 2
  BlockCount = 2
  Horizon = 2
  Hits <- HitsTwo
  Ceiling <- MCCeiling
INVARIANTS
  TypeOK
  HarmOnlyByStragglers
PROPERTIES
  CompletesUnlessCrowded
\* Main waits forever for a block that no goroutine matches.
CHECK_DEADLOCK FALSE

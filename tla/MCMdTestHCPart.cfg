SPECIFICATION FairSpec
CONSTANTS
  ThreadCount = 3
  Flags <- FlagsPart
PROPERTY Terminates
CHECK_DEADLOCK FALSE

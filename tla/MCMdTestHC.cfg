SPECIFICATION FairSpec
CONSTANTS
  ThreadCount = 3
  Flags <- FlagsAll
INVARIANTS
  TypeOK
  NotFoundIsTrue
  PanicOnlyAfterFound
PROPERTIES
  Terminates

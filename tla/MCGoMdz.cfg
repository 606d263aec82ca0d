CONSTANTS
  Commands <- CommandLines
  hlist <- Registry
  TextBytes = 2
SPECIFICATION Spec
INVARIANTS
  TypeOK
  WritesABeginning
  FailsOnlyWhenCut
CHECK_DEADLOCK FALSE

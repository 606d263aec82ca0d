SPECIFICATION Spec
CONSTANTS
  ThreadCount = 2
  ModSizes <- MCModSizes
  BlockBits = 8
  ExponentBits = 3
  BlockCount = 1
INVARIANT BlockBelowCeiling

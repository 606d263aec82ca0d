CONSTANTS
  KeySpan = 16
  Byte = 4
  Commands <- MCCommands
  Options <- MCOptions
  RandomKeys <- MCRandomKeys
  DefaultKey = 7
SPECIFICATION Spec
INVARIANTS
  TypeOK
  ValidationIsExact
  KeyLockstep
  ExponentSurvives
  UnzipIsExact
  ValVerdict
PROPERTY ChannelSpec
CHECK_DEADLOCK FALSE

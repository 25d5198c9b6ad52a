SPECIFICATION Spec
CONSTANTS
  SPM = 2
  MPH = 2
  N = 3
  NBUF = 2
  USHORT = 8
  Limit = 1
INVARIANTS
  LookupFindsOwnOrEarlier
  AnswerLostOnlyIfReleased
PROPERTIES
  WedgedForGood
  NoEarlyRelease

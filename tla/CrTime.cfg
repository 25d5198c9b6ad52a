SPECIFICATION CallSpec
CONSTANTS
  SPM = 5
  MPH = 3
INVARIANTS
  AheadAtMostTwo
PROPERTY Terminates
CHECK_DEADLOCK FALSE

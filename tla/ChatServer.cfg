SPECIFICATION Spec
CONSTANTS
  N = 4
  Idle = {1}
  Speakers = {3}
  Leavers = {1, 2}
  Slots = 2
  Numbers = 4
INVARIANTS TypeOK ListedWhileServed StrayedOnlyLeft
PROPERTY Admitted
CHECK_DEADLOCK FALSE

SPECIFICATION RegistrySpec
CONSTANTS
  NM = 2
  OWN = 1
INVARIANTS
  CancelledBeforeExit
  NeverWaitsInJoin
  DiesOnlyClosing
PROPERTIES
  NoStaleCancel
  AllThreadsEnd
CHECK_DEADLOCK FALSE

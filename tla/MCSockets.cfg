SPECIFICATION Spec
CONSTANTS
  MaxAddresses = 2
  MaxSockets = 6
  MaxStarts = 3
INVARIANTS
  NothingLeft
CHECK_DEADLOCK FALSE

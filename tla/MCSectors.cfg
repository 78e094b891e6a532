SPECIFICATION Spec
CONSTANTS
  kBlockSize = 3
  LongMax <- MCLongMax
  MaxLen = 19
  MaxAttempts = 3
INVARIANTS
  NoMisplacedByte HundredIsWhole
CHECK_DEADLOCK FALSE

SPECIFICATION Spec
CONSTANTS
  Files <- MCFiles
  Size <- MCSize
  Byte = 2
  IndexBytes = 2
  CommandIndexes <- MCCommandIndexes
  MaxCommands = 2
  MaxFaults = 1
PROPERTIES
  WaitsFiveSeconds
CHECK_DEADLOCK FALSE

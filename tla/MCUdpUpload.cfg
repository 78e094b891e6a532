SPECIFICATION FairSpec
CONSTANTS
  Files <- MCFiles
  Size <- MCSize
  Byte = 2
  IndexBytes = 2
  CommandIndexes <- MCCommandIndexes
  MaxCommands = 2
  MaxFaults = 2
INVARIANTS
  TypeOK IndexWraps WrittenIsSource AnswersOwn
PROPERTIES
  ServerReturns
CHECK_DEADLOCK FALSE

SPECIFICATION FairSpec
CONSTANTS
  NumSectors = 3
  Initiator = "up"
  MaxAttempts = 3
  MaxFaults = 2
PROPERTIES
  AttemptEnds ImplementsCopy
CHECK_DEADLOCK FALSE

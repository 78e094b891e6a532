SPECIFICATION FairSpec
CONSTANTS
  NumSectors = 3
  Initiator = "down"
  MaxAttempts = 3
  MaxFaults = 2
INVARIANTS
  TypeOK ResumePointCovered CompletedMeansStored AckMeansStored InOrder
  Agreement HandlesReleased
PROPERTIES
  AbortKeepsSectors AttemptEnds HealthyTransferCompletes ImplementsCopy
CHECK_DEADLOCK FALSE

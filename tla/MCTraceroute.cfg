SPECIFICATION FairSpec
CONSTANTS
  traceMaxHops = 3
  Strangers <- MCStrangers
  MaxQueued = 2
  MaxFaults = 1
INVARIANTS
  TypeOK LinesOwn VerdictTrue
PROPERTIES
  TraceEnds
CHECK_DEADLOCK FALSE

SPECIFICATION FairSpec
CONSTANTS
  N = 2
  switchBuffSize = 1
  Local <- MCLocal
  Strangers <- MCStrangers
  MaxTicks = 2
  MaxArrivals = 2
  MaxFaults = 1
INVARIANTS
  TypeOK StatsComplete CountedOnce OnlyTimeExceededStrays
PROPERTIES
  SwitchNotStuck InterruptEnds
CHECK_DEADLOCK FALSE

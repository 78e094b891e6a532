SPECIFICATION FairSpec
CONSTANTS
  c1 = c1  c2 = c2  f = f  g = g
  Clients <- MCClients
  Names <- MCOneName
  NumSectors = 2
  Posix = TRUE
  MaxConns = 2
  MaxCommands = 2
  MaxFaults = 1
PROPERTIES
  QueuedServed ClientReturns
CHECK_DEADLOCK FALSE

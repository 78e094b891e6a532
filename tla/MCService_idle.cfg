SPECIFICATION Spec
CONSTANTS
  c1 = c1  c2 = c2  f = f  g = g
  Clients <- MCClients
  Names <- MCTwoNames
  NumSectors = 2
  Posix = FALSE
  MaxConns = 2
  MaxCommands = 1
  MaxFaults = 0
INVARIANT
  UntilPeerShutsDown
SYMMETRY Symmetry
CHECK_DEADLOCK FALSE

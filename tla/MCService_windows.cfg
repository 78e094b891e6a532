SPECIFICATION Spec
CONSTANTS
  c1 = c1  c2 = c2  f = f  g = g
  Clients <- MCClients
  Names <- MCTwoNames
  NumSectors = 2
  Posix = FALSE
  MaxConns = 3
  MaxCommands = 2
  MaxFaults = 2
INVARIANTS
  TypeOK RestoreKept InStep AnswersMatch ResumeCovered CompletedIsOwn
SYMMETRY Symmetry
CHECK_DEADLOCK FALSE

SPECIFICATION Spec
CONSTANTS
  Conns = {c1, c2, c3, c4}
  Programs = {"multiprocess"}
  MaxFd <- MCMaxFd
  MaxClients <- MCMaxClients
  MaxMoves <- MCMaxMoves
  MAXLINE = 4
  None = None
  OPEN_MAX = 3
  FD_SETSIZE = 2
  RING = 2
  Patient = TRUE
  MaxProcs = 2
  MayDuplicate = FALSE
SYMMETRY Symmetry
INVARIANTS InterruptedAcceptGoesOn
CHECK_DEADLOCK FALSE

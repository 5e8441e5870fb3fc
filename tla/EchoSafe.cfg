SPECIFICATION Spec
CONSTANTS
  Conns = {c1, c2, c3, c4}
  Programs = {"epoll", "poll", "select", "select-primary", "local", "simple", "epollET", "epollET-nonblock", "epoll-ETLT", "multithread", "multiprocess", "UDP"}
  MaxFd <- MCMaxFd
  MaxClients <- MCMaxClients
  MaxMoves <- MCMaxMoves
  MAXLINE = 4
  None = None
  OPEN_MAX = 3
  FD_SETSIZE = 2
  RING = 2
  Patient = TRUE
  MaxProcs = 2
  MayDuplicate = FALSE
SYMMETRY Symmetry
INVARIANTS TypeOK TablesAgree ExitExplained StallExplained ZombiesNoticed DrainedWhenQuiet
PROPERTIES ImplementsEchoService
CHECK_DEADLOCK FALSE

SPECIFICATION FairSpec
CONSTANTS
  Conns = {c1, c2}
  Programs = {"poll", "select", "select-primary", "multithread", "multiprocess", "epoll-ETLT"}
  MaxFd <- MCLiveMaxFd
  MaxClients <- MCMaxClients
  MaxMoves <- MCMaxMoves
  MAXLINE = 4
  None = None
  OPEN_MAX = 3
  FD_SETSIZE = 2
  RING = 2
  Patient = TRUE
  MaxProcs = 3
  MayDuplicate = FALSE
PROPERTIES EveryClientServed
CHECK_DEADLOCK FALSE

SPECIFICATION FairSpec
CONSTANTS
  MAX_EVENTS = 1
  CHECKS = 2
  TIMEOUT = 2
  Conns = {c1, c2, c3}
  MaxFd = 2
  MaxRequests = 2
  Room = 1
  MayReset = FALSE
  None = None
  Listen = Listen
PROPERTIES EveryClientAccepted SilentClientsClosed
CHECK_DEADLOCK FALSE

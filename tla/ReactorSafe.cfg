SPECIFICATION Spec
CONSTANTS
  MAX_EVENTS = 3
  CHECKS = 2
  TIMEOUT = 1
  Conns = {c1, c2, c3}
  MaxFd = 3
  MaxRequests = 2
  Room = 1
  MayReset = TRUE
  None = None
  Listen = Listen
SYMMETRY Symmetry
INVARIANTS TypeOK TableMatchesEpoll HandledWhereReported RepliesFollowRequests IdleBounded ExitExplained NoForeignData
CHECK_DEADLOCK FALSE

SPECIFICATION FairSpec
CONSTANTS
  Conns = {c1, c2}
  Requests <- PlainRequests
  LINE = 4
  CHUNKS = 2
  Room = 3
  MaxOpen = 2
  Segmented = FALSE
  MayFinish = TRUE
  MayLeave = FALSE
  Listen = Listen
  Nobody = Nobody
INVARIANTS LinesAreRead AnswersWholeRequest
PROPERTY EveryRequestServed
CHECK_DEADLOCK FALSE

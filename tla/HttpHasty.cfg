SPECIFICATION Spec
CONSTANTS
  Conns = {c1, c2}
  Requests <- HastyRequests
  LINE = 4
  CHUNKS = 2
  Room = 1
  MaxOpen = 1
  Segmented = TRUE
  MayFinish = TRUE
  MayLeave = TRUE
  Listen = Listen
  Nobody = Nobody
SYMMETRY Symmetry
INVARIANTS TypeOK HandledWhileOpen NoLostEdge ExitExplained ResponseComplete ResponseInOrder
CHECK_DEADLOCK FALSE

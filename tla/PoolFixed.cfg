SPECIFICATION FairSpec
CONSTANTS
  min_thr_num = 2
  max_thr_num = 2
  taskq_capacity = 1
  MIN_WAIT_TASK_NUM = 1
  DEFAULT_THREAD_VARY = 1
  Producers = {p1, p2}
  Tasks = {t1, t2}
  Nothing = Nothing
  Nobody = Nobody
  Manager = Manager
  OwnerWaits = TRUE
  MaxSpurious = 0
INVARIANTS NoStrandedTask FreedAfterWorkers
PROPERTIES EveryTaskRuns CallersReturn WorkersStop
CHECK_DEADLOCK FALSE

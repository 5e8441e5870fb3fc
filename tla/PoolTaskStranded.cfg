SPECIFICATION FairSpec
CONSTANTS
  min_thr_num = 1
  max_thr_num = 2
  taskq_capacity = 2
  MIN_WAIT_TASK_NUM = 2
  DEFAULT_THREAD_VARY = 1
  Producers = {p1}
  Tasks = {t1, t2, t3}
  Nothing = Nothing
  Nobody = Nobody
  Manager = Manager
  OwnerWaits = TRUE
  MaxSpurious = 0
PROPERTY EveryTaskRuns
CHECK_DEADLOCK FALSE

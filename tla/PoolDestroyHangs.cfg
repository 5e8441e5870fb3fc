SPECIFICATION FairSpec
CONSTANTS
  min_thr_num = 1
  max_thr_num = 1
  taskq_capacity = 1
  MIN_WAIT_TASK_NUM = 1
  DEFAULT_THREAD_VARY = 1
  Producers = {p1}
  Tasks = {t1}
  Nothing = Nothing
  Nobody = Nobody
  Manager = Manager
  OwnerWaits = TRUE
  MaxSpurious = 0
PROPERTY DestroyReturns
CHECK_DEADLOCK FALSE

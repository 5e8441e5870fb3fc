SPECIFICATION Spec
CONSTANTS
  min_thr_num = 1
  max_thr_num = 3
  taskq_capacity = 2
  MIN_WAIT_TASK_NUM = 1
  DEFAULT_THREAD_VARY = 2
  Producers = {p1, p2}
  Tasks = {t1, t2, t3}
  Nothing = Nothing
  Nobody = Nobody
  Manager = Manager
  OwnerWaits = FALSE
  MaxSpurious = 1
SYMMETRY Symmetry
INVARIANTS TypeOK CountersExact JoinableSlots OnePlace
PROPERTY ImplementsTaskPool
CHECK_DEADLOCK FALSE

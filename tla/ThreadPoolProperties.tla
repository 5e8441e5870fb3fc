------------------------ MODULE ThreadPoolProperties ------------------------
(* What threadpool.c must keep true, and how it implements TaskPool. *)
EXTENDS ThreadPool

WorkerAt   == {"none", "top", "check", "wait", "blocked", "awake",
               "taken", "running", "retired", "stopped"}
ManagerAt  == {"loop", "sample", "sampled", "grow", "growing", "shrink",
               "signal", "exited"}
ProducerAt == {"idle", "check", "wait", "blocked", "awake"}
OwnerAt    == {"using", "join_manager", "broadcast", "join", "freed"}

\* Every variable keeps its C type and range: indices stay inside the arrays
\* and no counter of struct threadpool_t leaves its bounds.
TypeOK ==
  /\ task_queue \in [Indices -> Tasks \cup {Nothing}]
  /\ taskq_front \in Indices /\ taskq_rear \in Indices
  /\ taskq_size \in 0 .. taskq_capacity
  /\ live_thr_num \in min_thr_num .. max_thr_num
  /\ busy_thr_num \in Int
  /\ dying_thr_num \in 0 .. DEFAULT_THREAD_VARY
  /\ shutdown \in BOOLEAN
  /\ self_lock \in Slots \cup Producers \cup {Manager, Nobody}
  /\ wpc \in [Slots -> WorkerAt]
  /\ task \in [Slots -> Tasks \cup {Nothing}]
  /\ mpc \in ManagerAt
  /\ seen \in [taskq_size : Nat, live_thr_num : Nat, busy_thr_num : Int]
  /\ mi \in Nat /\ cnt \in 0 .. DEFAULT_THREAD_VARY
  /\ ppc \in [Producers -> ProducerAt]
  /\ arg \in [Producers -> Tasks \cup {Nothing}]
  /\ dpc \in OwnerAt /\ di \in Nat
  /\ fresh \in SUBSET Tasks
  /\ runs \in [Tasks -> Nat]
  /\ spurious \in Nat

-----------------------------------------------------------------------------
(* Counters and slots *)

LiveWorkers == {w \in Slots : wpc[w] \notin {"none", "retired"}}
BusyWorkers == {w \in Slots : wpc[w] = "running"}

\* The counters the manager decides on are exact, however the workers, the
\* manager and their two locks interleave: live_thr_num counts the threads
\* that were started and did not retire, busy_thr_num those in a callback.
CountersExact ==
  /\ live_thr_num = Cardinality(LiveWorkers)
  /\ busy_thr_num = Cardinality(BusyWorkers)

\* Every slot threadpool_destroy may join holds a thread: pthread_join is
\* never called on a worker_tids entry that is still 0.
JoinableSlots == \A w \in Slots : w < live_thr_num => wpc[w] # "none"

\* Who holds self_lock is exactly who is between taking and releasing it.
LockHolder ==
  /\ \A w \in Slots : wpc[w] \in {"check", "wait"} <=> self_lock = w
  /\ \A p \in Producers : ppc[p] \in {"check", "wait"} <=> self_lock = p
  /\ mpc = "growing" <=> self_lock = Manager

\* Slots are used in order, and the manager has passed no unused one.
SlotsInOrder ==
  /\ \A v, w \in Slots : v < w /\ wpc[w] # "none" => wpc[v] # "none"
  /\ mpc = "growing" => \A w \in Slots : w < mi => wpc[w] # "none"
  /\ mpc \notin {"growing", "signal"} => mi = 0

\* Between finding the queue empty and waiting, a worker keeps others out.
WaitsOnEmpty == \A w \in Slots : wpc[w] = "wait" => taskq_size = 0

-----------------------------------------------------------------------------
(* Tasks *)

\* Index i holds a queued task: it is within taskq_size steps of taskq_front.
Occupied(i) ==
  \E k \in {i, i + taskq_capacity} : taskq_front <= k /\ k < taskq_front + taskq_size

\* All the places where a task is on its way, or has been run.
Places(t) ==
  (IF t \in fresh THEN {<<"fresh">>} ELSE {})
    \cup {<<"caller", p>> : p \in {q \in Producers : arg[q] = t}}
    \cup {<<"queue", i>> : i \in {k \in Indices : Occupied(k) /\ task_queue[k] = t}}
    \cup {<<"worker", w>> : w \in {v \in Slots : task[v] = t}}
    \cup {<<"run", n>> : n \in 1 .. runs[t]}

\* No task is duplicated, overwritten in the ring or run twice, and while the
\* pool is open none is lost: each is in exactly one place.
OnePlace ==
  \A t \in Tasks :
    /\ \A a, b \in Places(t) : a = b
    /\ ~shutdown => Places(t) # {}

\* The queue from oldest to newest.
Pending == [k \in 1 .. taskq_size |-> task_queue[(taskq_front + k - 1) % taskq_capacity]]

Abstract == INSTANCE TaskPool WITH
  Capacity <- taskq_capacity,
  fresh    <- fresh \cup ({arg[p] : p \in Producers} \ {Nothing}),
  pending  <- Pending,
  running  <- {task[w] : w \in Slots} \ {Nothing},
  finished <- {t \in Tasks : runs[t] > 0},
  closed   <- shutdown

\* The threads, the lock and the circular array together behave as one FIFO
\* queue that is never overfull and whose tasks each run once.
ImplementsTaskPool == Abstract!Spec

-----------------------------------------------------------------------------
(* Wakeups, and the end of the pool *)

\* While a task is queued in an open pool, some worker is on its way to the
\* queue: no signal is lost between the test of taskq_size and the wait.
NoStrandedTask ==
  taskq_size > 0 /\ ~shutdown =>
    \E w \in Slots : wpc[w] \in {"top", "check", "awake", "taken", "running"}

\* threadpool_destroy frees the pool only when no worker can touch it again.
FreedAfterWorkers ==
  dpc = "freed" => \A w \in Slots : wpc[w] \in {"none", "retired", "stopped"}

Queued(t) == \E i \in Indices : Occupied(i) /\ task_queue[i] = t

\* A task that threadpool_addtask accepted is run, unless the pool is shut down.
EveryTaskRuns == \A t \in Tasks : Queued(t) ~> (runs[t] > 0 \/ shutdown)

\* A caller of threadpool_addtask that waits for room in the queue returns.
CallersReturn == \A p \in Producers : (ppc[p] = "blocked") ~> (ppc[p] = "idle")

\* A worker that has not yet decided to wait when the pool is shut down, or
\* that waits already, sees the shutdown and leaves.
WorkersStop ==
  \A w \in Slots :
    (dpc = "join_manager" /\ wpc[w] \notin {"none", "wait"})
      ~> (wpc[w] \in {"retired", "stopped"})

\* threadpool_destroy returns.
DestroyReturns == (dpc = "join_manager") ~> (dpc = "freed")
=============================================================================

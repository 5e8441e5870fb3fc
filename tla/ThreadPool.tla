----------------------------- MODULE ThreadPool -----------------------------
(***************************************************************************)
(* threadpool.c: a pool of worker threads that serve a bounded circular    *)
(* task queue, a manager thread that grows and shrinks the pool, callers   *)
(* of threadpool_addtask, and the owner that destroys the pool.            *)
(*                                                                         *)
(* A step is a stretch of code between two points where another thread can *)
(* see or disturb it: what runs under self_lock is split where the lock    *)
(* does not protect it (the owner writes shutdown and broadcasts without   *)
(* the lock, the manager signals without it).  The thread in               *)
(* worker_tids[i] is named by its slot i: no code writes 0 back to a slot, *)
(* so a slot holds one thread for ever.  Initially threadpool_create has   *)
(* returned; a worker it started and that has not run yet is at "top".     *)
(***************************************************************************)
EXTENDS Integers, FiniteSets, Sequences

CONSTANTS
  min_thr_num, max_thr_num, taskq_capacity,   \* arguments of threadpool_create
  MIN_WAIT_TASK_NUM, DEFAULT_THREAD_VARY,     \* threadpool.h
  Producers,       \* threads that call threadpool_addtask
  Tasks,           \* their calls, one element per call
  Nothing,         \* an empty queue slot or no task
  Nobody, Manager, \* holders of self_lock besides workers and producers
  OwnerWaits,      \* TRUE: destroy is called after the last addtask returned
  MaxSpurious      \* bound on the spurious wakeups of pthread_cond_wait

Slots == 0 .. max_thr_num - 1
Indices == 0 .. taskq_capacity - 1

ASSUME PoolAssumption ==
  /\ min_thr_num \in Nat /\ max_thr_num \in Nat /\ min_thr_num <= max_thr_num
  /\ taskq_capacity \in Nat \ {0}
  /\ MIN_WAIT_TASK_NUM \in Nat /\ DEFAULT_THREAD_VARY \in Nat
  /\ MaxSpurious \in Nat /\ OwnerWaits \in BOOLEAN

ASSUME NameAssumption ==
  /\ Nothing \notin Tasks
  /\ Slots \cap Producers = {}
  /\ Manager \notin Slots \cup Producers
  /\ Nobody \notin Slots \cup Producers \cup {Manager}

VARIABLES
  task_queue, taskq_front, taskq_rear, taskq_size,
  live_thr_num, busy_thr_num, dying_thr_num, shutdown,
  self_lock,      \* the thread that holds the mutex, or Nobody
  wpc, task,      \* each worker's position and its local variable task
  mpc, seen, mi, cnt,   \* the manager: position, sampled counters, i, cnt
  ppc, arg,       \* each producer's position and the task it submits
  dpc, di,        \* the owner in threadpool_destroy: position and i
  fresh,          \* calls of threadpool_addtask not made yet
  runs,           \* history: how often the callback of each task ran
  spurious        \* spurious wakeups so far

queueVars == <<task_queue, taskq_front, taskq_rear, taskq_size>>
numVars   == <<live_thr_num, busy_thr_num, dying_thr_num>>
manVars   == <<mpc, seen, mi, cnt>>
ownVars   == <<dpc, di>>
histVars  == <<fresh, runs, spurious>>
vars == <<queueVars, numVars, shutdown, self_lock, wpc, task, manVars,
          ppc, arg, ownVars, histVars>>

Unsampled == [taskq_size |-> 0, live_thr_num |-> 0, busy_thr_num |-> 0]

Init ==
  /\ task_queue = [k \in Indices |-> Nothing]
  /\ taskq_front = 0 /\ taskq_rear = 0 /\ taskq_size = 0
  /\ live_thr_num = min_thr_num /\ busy_thr_num = 0 /\ dying_thr_num = 0
  /\ shutdown = FALSE /\ self_lock = Nobody
  /\ wpc = [w \in Slots |-> IF w < min_thr_num THEN "top" ELSE "none"]
  /\ task = [w \in Slots |-> Nothing]
  /\ mpc = "loop" /\ seen = Unsampled /\ mi = 0 /\ cnt = 0
  /\ ppc = [p \in Producers |-> "idle"] /\ arg = [p \in Producers |-> Nothing]
  /\ dpc = "using" /\ di = 0
  /\ fresh = Tasks /\ runs = [t \in Tasks |-> 0] /\ spurious = 0

-----------------------------------------------------------------------------
(* The mutex and the condition variables.  The waiters on taskq_not_empty  *)
(* are the workers at "blocked", those on taskq_not_full the producers.    *)

Acquire(t) == self_lock = Nobody /\ self_lock' = t
Release == self_lock' = Nobody

WakeAll(pc) == [t \in DOMAIN pc |-> IF pc[t] = "blocked" THEN "awake" ELSE pc[t]]

\* pthread_cond_signal(taskq_not_empty) wakes one waiter, if there is one.
SignalNotEmpty ==
  IF \E w \in Slots : wpc[w] = "blocked"
  THEN \E w \in Slots : wpc[w] = "blocked" /\ wpc' = [wpc EXCEPT ![w] = "awake"]
  ELSE wpc' = wpc

-----------------------------------------------------------------------------
(* worker_callback *)

WorkerGoes(w, from, to) == wpc[w] = from /\ wpc' = [wpc EXCEPT ![w] = to]

WorkerLock(w) ==
  /\ WorkerGoes(w, "top", "check") /\ Acquire(w)
  /\ UNCHANGED <<queueVars, numVars, task, ppc, runs>>

\* The while condition holds: the worker is bound to call pthread_cond_wait.
WorkerFindsNothing(w) ==
  /\ taskq_size = 0 /\ ~shutdown
  /\ WorkerGoes(w, "check", "wait")
  /\ UNCHANGED <<queueVars, numVars, self_lock, task, ppc, runs>>

WorkerWait(w) ==
  /\ WorkerGoes(w, "wait", "blocked") /\ Release
  /\ UNCHANGED <<queueVars, numVars, task, ppc, runs>>

\* Mutants: the count of requests is not tested; the worker leaves the count
\* of live threads before the minimum is tested.
WorkerWokenUntested(w) ==
  /\ self_lock = Nobody
  /\ dying_thr_num' = dying_thr_num - 1
  /\ IF live_thr_num > min_thr_num
     THEN WorkerGoes(w, "awake", "retired") /\ live_thr_num' = live_thr_num - 1 /\ Release
     ELSE WorkerGoes(w, "awake", "check") /\ UNCHANGED live_thr_num /\ Acquire(w)
  /\ UNCHANGED <<queueVars, busy_thr_num, task, ppc, runs>>

WorkerWokenCountsFirst(w) ==
  /\ self_lock = Nobody
  /\ dying_thr_num' = IF dying_thr_num > 0 THEN dying_thr_num - 1 ELSE 0
  /\ live_thr_num' = IF dying_thr_num > 0 THEN live_thr_num - 1 ELSE live_thr_num
  /\ IF dying_thr_num > 0 /\ live_thr_num > min_thr_num
     THEN WorkerGoes(w, "awake", "retired") /\ Release
     ELSE WorkerGoes(w, "awake", "check") /\ Acquire(w)
  /\ UNCHANGED <<queueVars, busy_thr_num, task, ppc, runs>>

\* pthread_cond_wait returns with the lock.  Each return uses up one request
\* to die, but the worker leaves only if the pool is above its minimum.
WorkerWoken(w) ==
  /\ self_lock = Nobody
  /\ dying_thr_num' = IF dying_thr_num > 0 THEN dying_thr_num - 1 ELSE 0
  /\ IF dying_thr_num > 0 /\ live_thr_num > min_thr_num
     THEN WorkerGoes(w, "awake", "retired") /\ live_thr_num' = live_thr_num - 1 /\ Release
     ELSE WorkerGoes(w, "awake", "check") /\ UNCHANGED live_thr_num /\ Acquire(w)
  /\ UNCHANGED <<queueVars, busy_thr_num, task, ppc, runs>>

WorkerStop(w) ==
  /\ shutdown
  /\ WorkerGoes(w, "check", "stopped") /\ Release
  /\ UNCHANGED <<queueVars, numVars, task, ppc, runs>>

\* Mutants: the front moves before the task is read; nobody is told of the room.
WorkerTakeNext(w) ==
  /\ taskq_size > 0 /\ ~shutdown
  /\ WorkerGoes(w, "check", "taken") /\ Release
  /\ taskq_front' = (taskq_front + 1) % taskq_capacity
  /\ task' = [task EXCEPT ![w] = task_queue[taskq_front']]
  /\ taskq_size' = taskq_size - 1
  /\ ppc' = WakeAll(ppc)
  /\ UNCHANGED <<task_queue, taskq_rear, numVars, runs>>

WorkerTakeSilent(w) ==
  /\ taskq_size > 0 /\ ~shutdown
  /\ WorkerGoes(w, "check", "taken") /\ Release
  /\ task' = [task EXCEPT ![w] = task_queue[taskq_front]]
  /\ taskq_front' = (taskq_front + 1) % taskq_capacity
  /\ taskq_size' = taskq_size - 1
  /\ UNCHANGED <<task_queue, taskq_rear, numVars, ppc, runs>>

\* Take the oldest task and wake every producer that waits for room.
WorkerTake(w) ==
  /\ taskq_size > 0 /\ ~shutdown
  /\ WorkerGoes(w, "check", "taken") /\ Release
  /\ task' = [task EXCEPT ![w] = task_queue[taskq_front]]
  /\ taskq_front' = (taskq_front + 1) % taskq_capacity
  /\ taskq_size' = taskq_size - 1
  /\ ppc' = WakeAll(ppc)
  /\ UNCHANGED <<task_queue, taskq_rear, numVars, runs>>

WorkerBusy(w) ==
  /\ WorkerGoes(w, "taken", "running")
  /\ busy_thr_num' = busy_thr_num + 1
  /\ UNCHANGED <<queueVars, live_thr_num, dying_thr_num, self_lock, task, ppc, runs>>

\* The callback returns, then the worker stops being counted as busy.
WorkerRun(w) ==
  /\ WorkerGoes(w, "running", "top")
  /\ runs' = [runs EXCEPT ![task[w]] = @ + 1]
  /\ busy_thr_num' = busy_thr_num - 1
  /\ task' = [task EXCEPT ![w] = Nothing]
  /\ UNCHANGED <<queueVars, live_thr_num, dying_thr_num, self_lock, ppc>>

Worker(w) ==
  /\ UNCHANGED <<shutdown, manVars, arg, ownVars, fresh, spurious>>
  /\ \/ WorkerLock(w) \/ WorkerFindsNothing(w) \/ WorkerWait(w)
     \/ WorkerWoken(w) \/ WorkerStop(w) \/ WorkerTake(w)
     \/ WorkerBusy(w) \/ WorkerRun(w)

-----------------------------------------------------------------------------
(* manager_callback.  Its sleep is no step: the manager may be late anyway. *)

ManagerGoes(from, to) == mpc = from /\ mpc' = to

ManagerLoop ==
  /\ ManagerGoes("loop", IF shutdown THEN "exited" ELSE "sample")
  /\ UNCHANGED <<numVars, self_lock, wpc, seen, mi, cnt>>

ManagerSample ==
  /\ ManagerGoes("sample", "sampled") /\ self_lock = Nobody
  /\ seen' = [seen EXCEPT !.taskq_size = taskq_size, !.live_thr_num = live_thr_num]
  /\ UNCHANGED <<numVars, self_lock, wpc, mi, cnt>>

\* Both decisions are made on sampled values, whatever happened since.
WantsMore == seen.taskq_size >= MIN_WAIT_TASK_NUM /\ seen.live_thr_num <= max_thr_num
WantsLess == seen.busy_thr_num * 2 < seen.live_thr_num /\ seen.live_thr_num > min_thr_num

ManagerSampleBusy ==
  /\ ManagerGoes("sampled", IF WantsMore THEN "grow" ELSE "shrink")
  /\ seen' = [seen EXCEPT !.busy_thr_num = busy_thr_num]
  /\ UNCHANGED <<numVars, self_lock, wpc, mi, cnt>>

ManagerGrow ==
  /\ ManagerGoes("grow", "growing") /\ Acquire(Manager)
  /\ UNCHANGED <<numVars, wpc, seen, mi, cnt>>

GrowsOn == mi < max_thr_num /\ live_thr_num < max_thr_num /\ cnt < DEFAULT_THREAD_VARY

\* Mutant: cnt and live_thr_num are counted outside the if.
ManagerSpawnCountsAll ==
  /\ ManagerGoes("growing", "growing") /\ GrowsOn
  /\ mi' = mi + 1 /\ cnt' = cnt + 1 /\ live_thr_num' = live_thr_num + 1
  /\ wpc' = [wpc EXCEPT ![mi] = IF @ = "none" THEN "top" ELSE @]
  /\ UNCHANGED <<busy_thr_num, dying_thr_num, self_lock, seen>>

\* One iteration over worker_tids: a slot that was never used gets a thread.
ManagerSpawn ==
  /\ ManagerGoes("growing", "growing") /\ GrowsOn
  /\ mi' = mi + 1
  /\ IF wpc[mi] = "none"
     THEN /\ wpc' = [wpc EXCEPT ![mi] = "top"]
          /\ cnt' = cnt + 1 /\ live_thr_num' = live_thr_num + 1
     ELSE UNCHANGED <<wpc, cnt, live_thr_num>>
  /\ UNCHANGED <<busy_thr_num, dying_thr_num, self_lock, seen>>

ManagerGrown ==
  /\ ManagerGoes("growing", "shrink") /\ ~GrowsOn /\ Release
  /\ mi' = 0 /\ cnt' = 0
  /\ UNCHANGED <<numVars, wpc, seen>>

ManagerShrink ==
  /\ ManagerGoes("shrink", IF WantsLess THEN "signal" ELSE "loop")
  /\ IF WantsLess THEN self_lock = Nobody /\ dying_thr_num' = DEFAULT_THREAD_VARY
                  ELSE UNCHANGED dying_thr_num
  /\ seen' = Unsampled
  /\ UNCHANGED <<live_thr_num, busy_thr_num, self_lock, wpc, mi, cnt>>

\* One signal of the loop, sent without the lock.
ManagerSignal ==
  /\ mi < DEFAULT_THREAD_VARY
  /\ ManagerGoes("signal", "signal") /\ SignalNotEmpty /\ mi' = mi + 1
  /\ UNCHANGED <<numVars, self_lock, seen, cnt>>

ManagerSignalled ==
  /\ mi >= DEFAULT_THREAD_VARY
  /\ ManagerGoes("signal", "loop") /\ mi' = 0
  /\ UNCHANGED <<numVars, self_lock, wpc, seen, cnt>>

ManagerStep ==
  /\ UNCHANGED <<queueVars, shutdown, task, ppc, arg, ownVars, histVars>>
  /\ \/ ManagerLoop \/ ManagerSample \/ ManagerSampleBusy
     \/ ManagerGrow \/ ManagerSpawn \/ ManagerGrown
     \/ ManagerShrink \/ ManagerSignal \/ ManagerSignalled

-----------------------------------------------------------------------------
(* threadpool_addtask *)

ProducerGoes(p, from, to) == ppc[p] = from /\ ppc' = [ppc EXCEPT ![p] = to]

AddTask(p) ==
  /\ OwnerWaits => dpc = "using"
  /\ ProducerGoes(p, "idle", "check") /\ Acquire(p)
  /\ \E t \in fresh : arg' = [arg EXCEPT ![p] = t] /\ fresh' = fresh \ {t}
  /\ UNCHANGED <<queueVars, wpc>>

AddTaskFindsFull(p) ==
  /\ taskq_size = taskq_capacity /\ ~shutdown
  /\ ProducerGoes(p, "check", "wait")
  /\ UNCHANGED <<queueVars, self_lock, wpc, arg, fresh>>

AddTaskWait(p) ==
  /\ ProducerGoes(p, "wait", "blocked") /\ Release
  /\ UNCHANGED <<queueVars, wpc, arg, fresh>>

\* Mutant: "if" for "while", the caller stores without a second test.
AddTaskWokenStores(p) ==
  /\ self_lock = Nobody /\ ProducerGoes(p, "awake", "idle")
  /\ task_queue' = [task_queue EXCEPT ![taskq_rear] = arg[p]]
  /\ taskq_rear' = (taskq_rear + 1) % taskq_capacity
  /\ taskq_size' = taskq_size + 1
  /\ SignalNotEmpty
  /\ arg' = [arg EXCEPT ![p] = Nothing]
  /\ UNCHANGED <<taskq_front, self_lock, fresh>>

AddTaskWoken(p) ==
  /\ ProducerGoes(p, "awake", "check") /\ Acquire(p)
  /\ UNCHANGED <<queueVars, wpc, arg, fresh>>

AddTaskRefused(p) ==
  /\ shutdown
  /\ ProducerGoes(p, "check", "idle") /\ Release
  /\ wpc' = WakeAll(wpc)
  /\ arg' = [arg EXCEPT ![p] = Nothing]
  /\ UNCHANGED <<queueVars, fresh>>

\* Mutant: the signal is forgotten.
AddTaskStoreSilent(p) ==
  /\ taskq_size # taskq_capacity /\ ~shutdown
  /\ ProducerGoes(p, "check", "idle") /\ Release
  /\ task_queue' = [task_queue EXCEPT ![taskq_rear] = arg[p]]
  /\ taskq_rear' = (taskq_rear + 1) % taskq_capacity
  /\ taskq_size' = taskq_size + 1
  /\ arg' = [arg EXCEPT ![p] = Nothing]
  /\ UNCHANGED <<taskq_front, wpc, fresh>>

AddTaskStore(p) ==
  /\ taskq_size # taskq_capacity /\ ~shutdown
  /\ ProducerGoes(p, "check", "idle") /\ Release
  /\ task_queue' = [task_queue EXCEPT ![taskq_rear] = arg[p]]
  /\ taskq_rear' = (taskq_rear + 1) % taskq_capacity
  /\ taskq_size' = taskq_size + 1
  /\ SignalNotEmpty
  /\ arg' = [arg EXCEPT ![p] = Nothing]
  /\ UNCHANGED <<taskq_front, fresh>>

AddTaskGoesOn(p) ==
  \/ AddTaskFindsFull(p) \/ AddTaskWait(p) \/ AddTaskWoken(p)
  \/ AddTaskRefused(p) \/ AddTaskStore(p)

ProducerFrame == UNCHANGED <<numVars, shutdown, task, manVars, ownVars, runs, spurious>>

-----------------------------------------------------------------------------
(* threadpool_destroy, run by the pool's owner, all of it without the lock *)

OwnerGoes(from, to) == dpc = from /\ dpc' = to

Destroy ==
  /\ OwnerWaits => \A p \in Producers : ppc[p] = "idle"
  /\ OwnerGoes("using", "join_manager") /\ shutdown' = TRUE
  /\ UNCHANGED <<wpc, di>>

DestroyJoinManager ==
  /\ OwnerGoes("join_manager", "broadcast") /\ mpc = "exited"
  /\ UNCHANGED <<shutdown, wpc, di>>

\* Mutant: the broadcast goes to the wrong condition variable.
DestroyBroadcastNotFull ==
  /\ OwnerGoes("broadcast", IF di < live_thr_num THEN "broadcast" ELSE "join")
  /\ di' = IF di < live_thr_num THEN di + 1 ELSE 0
  /\ UNCHANGED <<shutdown, wpc>>

\* live_thr_num is read anew in every iteration of both loops.
DestroyBroadcast ==
  /\ OwnerGoes("broadcast", IF di < live_thr_num THEN "broadcast" ELSE "join")
  /\ IF di < live_thr_num THEN wpc' = WakeAll(wpc) /\ di' = di + 1
                          ELSE UNCHANGED wpc /\ di' = 0
  /\ UNCHANGED shutdown

\* pthread_join returns once the thread of the slot is gone.
DestroyJoin ==
  /\ di < live_thr_num /\ wpc[di] \in {"retired", "stopped"}
  /\ OwnerGoes("join", "join") /\ di' = di + 1
  /\ UNCHANGED <<shutdown, wpc>>

\* Mutant: the join loop stops one short.
DestroyFreeEarly ==
  /\ di >= live_thr_num - 1
  /\ OwnerGoes("join", "freed")
  /\ UNCHANGED <<shutdown, wpc, di>>

\* threadpool_free; a step of any thread after it would use freed memory.
DestroyFree ==
  /\ di >= live_thr_num
  /\ OwnerGoes("join", "freed")
  /\ UNCHANGED <<shutdown, wpc, di>>

DestroyGoesOn == DestroyJoinManager \/ DestroyBroadcast \/ DestroyJoin \/ DestroyFree

OwnerFrame == UNCHANGED <<queueVars, numVars, self_lock, task, manVars, ppc, arg, histVars>>

-----------------------------------------------------------------------------
\* POSIX lets pthread_cond_wait return without a signal.
SpuriousWakeup ==
  /\ spurious < MaxSpurious
  /\ spurious' = spurious + 1
  /\ \/ (\E w \in Slots : WorkerGoes(w, "blocked", "awake")) /\ UNCHANGED ppc
     \/ (\E p \in Producers : ProducerGoes(p, "blocked", "awake")) /\ UNCHANGED wpc
  /\ UNCHANGED <<queueVars, numVars, shutdown, self_lock, task, manVars, arg, ownVars, fresh, runs>>

\* Nothing is modelled after the pool's memory is gone.
Alive == dpc # "freed"

Next ==
  /\ Alive
  /\ \/ \E w \in Slots : Worker(w)
     \/ ManagerStep
     \/ \E p \in Producers : ProducerFrame /\ (AddTask(p) \/ AddTaskGoesOn(p))
     \/ OwnerFrame /\ (Destroy \/ DestroyGoesOn)
     \/ SpuriousWakeup

Spec == Init /\ [][Next]_vars

\* A thread that again and again could run runs: callbacks return, and who
\* wants self_lock gets it, since the one thread that takes it for ever, the
\* manager, sleeps MANAGE_INTERVAL seconds without it in every round.  To
\* call threadpool_addtask or threadpool_destroy is the user's choice.
Fairness ==
  /\ \A w \in Slots : SF_vars(Alive /\ Worker(w))
  /\ \A p \in Producers : SF_vars(Alive /\ ProducerFrame /\ AddTaskGoesOn(p))
  /\ SF_vars(Alive /\ ManagerStep)
  /\ WF_vars(OwnerFrame /\ DestroyGoesOn)

FairSpec == Spec /\ Fairness
=============================================================================

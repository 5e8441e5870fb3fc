-------------------------- MODULE ThreadPoolProofs --------------------------
(***************************************************************************)
(* Proofs about ThreadPool for every size of the pool, of the queue and of *)
(* the sets of callers and tasks.                                          *)
(***************************************************************************)
EXTENDS ThreadPoolProperties, FiniteSetTheorems, TLAPS

USE DEF Slots, Indices

\* Moving one step along the ring stays on the ring: the two assignments
\* that end in % taskq_capacity.
LEMMA RingStep ==
  ASSUME NEW i \in Indices
  PROVE  /\ (i + 1) % taskq_capacity = IF i + 1 = taskq_capacity THEN 0 ELSE i + 1
         /\ (i + 1) % taskq_capacity \in Indices
<1>1. taskq_capacity \in Nat \ {0}
  BY PoolAssumption
<1>2. CASE i + 1 = taskq_capacity
  BY <1>1, <1>2
<1>3. CASE i + 1 < taskq_capacity
  BY <1>1, <1>3
<1> QED
  BY <1>1, <1>2, <1>3

LEMMA TypeInit == Init => TypeOK
<1> USE PoolAssumption, NameAssumption DEF Init
<1> SUFFICES ASSUME Init PROVE TypeOK
  OBVIOUS
<1>1. /\ task_queue \in [Indices -> Tasks \cup {Nothing}]
      /\ task \in [Slots -> Tasks \cup {Nothing}]
      /\ arg \in [Producers -> Tasks \cup {Nothing}]
      /\ runs \in [Tasks -> Nat]
      /\ fresh \in SUBSET Tasks
  OBVIOUS
<1>2. /\ taskq_front \in Indices /\ taskq_rear \in Indices
      /\ taskq_size \in 0 .. taskq_capacity
      /\ live_thr_num \in min_thr_num .. max_thr_num
      /\ busy_thr_num \in Int /\ dying_thr_num \in 0 .. DEFAULT_THREAD_VARY
      /\ mi \in Nat /\ cnt \in 0 .. DEFAULT_THREAD_VARY /\ di \in Nat
      /\ spurious \in Nat
  OBVIOUS
<1>3. /\ wpc \in [Slots -> WorkerAt] /\ mpc \in ManagerAt
      /\ ppc \in [Producers -> ProducerAt] /\ dpc \in OwnerAt
      /\ shutdown \in BOOLEAN
      /\ self_lock \in Slots \cup Producers \cup {Manager, Nobody}
  BY DEF WorkerAt, ManagerAt, ProducerAt, OwnerAt
<1>4. seen \in [taskq_size : Nat, live_thr_num : Nat, busy_thr_num : Int]
  BY DEF Unsampled
<1> QED
  BY <1>1, <1>2, <1>3, <1>4 DEF TypeOK

LEMMA TypeWorker ==
  ASSUME TypeOK, NEW w \in Slots, Worker(w)
  PROVE  TypeOK'
<1> USE PoolAssumption, NameAssumption, RingStep
        DEF TypeOK, queueVars, numVars, manVars, ownVars, WorkerGoes, Acquire,
            Release, WorkerAt, ProducerAt
<1>0. UNCHANGED <<shutdown, manVars, arg, ownVars, fresh, spurious>>
  BY DEF Worker
<1>1. CASE WorkerLock(w)
  BY <1>0, <1>1 DEF WorkerLock
<1>2. CASE WorkerFindsNothing(w)
  BY <1>0, <1>2 DEF WorkerFindsNothing
<1>3. CASE WorkerWait(w)
  BY <1>0, <1>3 DEF WorkerWait
<1>4. CASE WorkerWoken(w)
  <2>1. dying_thr_num' \in 0 .. DEFAULT_THREAD_VARY
    BY <1>4 DEF WorkerWoken
  <2>2. CASE dying_thr_num > 0 /\ live_thr_num > min_thr_num
    <3>1. live_thr_num' \in min_thr_num .. max_thr_num
      BY <1>4, <2>2 DEF WorkerWoken
    <3> QED
      BY <1>0, <1>4, <2>1, <2>2, <3>1 DEF WorkerWoken
  <2>3. CASE ~(dying_thr_num > 0 /\ live_thr_num > min_thr_num)
    BY <1>0, <1>4, <2>1, <2>3 DEF WorkerWoken
  <2> QED
    BY <2>2, <2>3
<1>5. CASE WorkerStop(w)
  BY <1>0, <1>5 DEF WorkerStop
<1>6. CASE WorkerTake(w)
  BY <1>0, <1>6 DEF WorkerTake, WakeAll
<1>7. CASE WorkerBusy(w)
  BY <1>0, <1>7 DEF WorkerBusy
<1>8. CASE WorkerRun(w)
  <2>1. runs' \in [Tasks -> Nat]
    <3>1. runs' = [t \in Tasks |-> IF t = task[w] THEN runs[t] + 1 ELSE runs[t]]
      BY <1>8 DEF WorkerRun
    <3> QED
      BY <3>1
  <2>2. task' \in [Slots -> Tasks \cup {Nothing}] /\ wpc' \in [Slots -> WorkerAt]
    BY <1>8 DEF WorkerRun
  <2>3. busy_thr_num' \in Int
    BY <1>8 DEF WorkerRun
  <2> QED
    BY <1>0, <1>8, <2>1, <2>2, <2>3 DEF WorkerRun
<1> QED
  BY <1>1, <1>2, <1>3, <1>4, <1>5, <1>6, <1>7, <1>8 DEF Worker

LEMMA TypeManager ==
  ASSUME TypeOK, ManagerStep
  PROVE  TypeOK'
<1> USE PoolAssumption, NameAssumption
        DEF TypeOK, queueVars, numVars, ownVars, histVars, ManagerGoes, Acquire,
            Release, WorkerAt, ManagerAt
<1>0. UNCHANGED <<queueVars, shutdown, task, ppc, arg, ownVars, histVars>>
  BY DEF ManagerStep
<1>1. CASE ManagerLoop
  BY <1>0, <1>1 DEF ManagerLoop
<1>2. CASE ManagerSample
  <2>1. seen' \in [taskq_size : Nat, live_thr_num : Nat, busy_thr_num : Int]
    <3>1. taskq_size \in Nat /\ live_thr_num \in Nat
      OBVIOUS
    <3>2. seen' = [[seen EXCEPT !.taskq_size = taskq_size]
                     EXCEPT !.live_thr_num = live_thr_num]
      BY <1>2 DEF ManagerSample
    <3>3. seen \in [taskq_size : Nat, live_thr_num : Nat, busy_thr_num : Int]
      OBVIOUS
    <3> HIDE DEF TypeOK
    <3> QED
      BY <3>1, <3>2, <3>3
  <2> QED
    BY <1>0, <1>2, <2>1 DEF ManagerSample
<1>3. CASE ManagerSampleBusy
  BY <1>0, <1>3 DEF ManagerSampleBusy
<1>4. CASE ManagerGrow
  BY <1>0, <1>4 DEF ManagerGrow
<1>5. CASE ManagerSpawn
  <2>1. mi \in Slots /\ mi' \in Nat /\ cnt' \in 0 .. DEFAULT_THREAD_VARY
    BY <1>5 DEF ManagerSpawn, GrowsOn
  <2>2. live_thr_num' \in min_thr_num .. max_thr_num
    BY <1>5 DEF ManagerSpawn, GrowsOn
  <2>3. wpc' \in [Slots -> WorkerAt]
    BY <1>5, <2>1 DEF ManagerSpawn
  <2> QED
    BY <1>0, <1>5, <2>1, <2>2, <2>3 DEF ManagerSpawn
<1>6. CASE ManagerGrown
  BY <1>0, <1>6 DEF ManagerGrown
<1>7. CASE ManagerShrink
  BY <1>0, <1>7 DEF ManagerShrink, Unsampled
<1>8. CASE ManagerSignal
  BY <1>0, <1>8 DEF ManagerSignal, SignalNotEmpty
<1>9. CASE ManagerSignalled
  BY <1>0, <1>9 DEF ManagerSignalled
<1> QED
  BY <1>1, <1>2, <1>3, <1>4, <1>5, <1>6, <1>7, <1>8, <1>9 DEF ManagerStep

LEMMA TypeProducer ==
  ASSUME TypeOK, NEW p \in Producers, ProducerFrame, AddTask(p) \/ AddTaskGoesOn(p)
  PROVE  TypeOK'
<1> USE PoolAssumption, NameAssumption, RingStep
        DEF TypeOK, queueVars, numVars, manVars, ownVars, ProducerFrame,
            ProducerGoes, Acquire, Release, WorkerAt, ProducerAt
<1>1. CASE AddTask(p)
  BY <1>1 DEF AddTask
<1>2. CASE AddTaskFindsFull(p)
  BY <1>2 DEF AddTaskFindsFull
<1>3. CASE AddTaskWait(p)
  BY <1>3 DEF AddTaskWait
<1>4. CASE AddTaskWoken(p)
  BY <1>4 DEF AddTaskWoken
<1>5. CASE AddTaskRefused(p)
  BY <1>5 DEF AddTaskRefused, WakeAll
<1>6. CASE AddTaskStore(p)
  BY <1>6 DEF AddTaskStore, SignalNotEmpty
<1> QED
  BY <1>1, <1>2, <1>3, <1>4, <1>5, <1>6 DEF AddTaskGoesOn

LEMMA TypeOwner ==
  ASSUME TypeOK, OwnerFrame, Destroy \/ DestroyGoesOn
  PROVE  TypeOK'
<1> USE PoolAssumption, NameAssumption
        DEF TypeOK, queueVars, numVars, manVars, histVars, OwnerFrame, OwnerGoes,
            WorkerAt, OwnerAt
<1>1. CASE Destroy
  BY <1>1 DEF Destroy
<1>2. CASE DestroyJoinManager
  BY <1>2 DEF DestroyJoinManager
<1>3. CASE DestroyBroadcast
  BY <1>3 DEF DestroyBroadcast, WakeAll
<1>4. CASE DestroyJoin
  BY <1>4 DEF DestroyJoin
<1>5. CASE DestroyFree
  BY <1>5 DEF DestroyFree
<1> QED
  BY <1>1, <1>2, <1>3, <1>4, <1>5 DEF DestroyGoesOn

LEMMA TypeStep == TypeOK /\ [Next]_vars => TypeOK'
<1> SUFFICES ASSUME TypeOK, [Next]_vars PROVE TypeOK'
  OBVIOUS
<1>1. CASE SpuriousWakeup
  BY <1>1, PoolAssumption
  DEF SpuriousWakeup, TypeOK, queueVars, numVars, manVars, ownVars, WorkerGoes,
      ProducerGoes, WorkerAt, ProducerAt
<1>2. CASE UNCHANGED vars
  BY <1>2 DEF vars, queueVars, numVars, manVars, ownVars, histVars, TypeOK
<1> QED
  BY <1>1, <1>2, TypeWorker, TypeManager, TypeProducer, TypeOwner DEF Next

\* Every counter of struct threadpool_t stays in its range, and every index
\* into worker_tids and task_queue stays inside the array, for every pool.
THEOREM TypeCorrect == Spec => []TypeOK
<1>1. TypeOK /\ [Next]_vars => TypeOK'
  BY TypeStep
<1> QED
  BY TypeInit, <1>1, PTL DEF Spec
-----------------------------------------------------------------------------
\* self_lock is held by one thread at a time, and that thread is inside.
LEMMA LockHolderStep ==
  ASSUME TypeOK, LockHolder, [Next]_vars
  PROVE  LockHolder'
<1> USE NameAssumption DEF TypeOK, LockHolder,
        queueVars, numVars, manVars, ownVars, histVars,
        WorkerGoes, ManagerGoes, ProducerGoes, OwnerGoes, Acquire, Release
<1>1. ASSUME NEW w \in Slots, Worker(w) PROVE LockHolder'
  <2>0. UNCHANGED <<shutdown, manVars, arg, ownVars, fresh, spurious>>
    BY <1>1 DEF Worker
  <2>1. CASE WorkerLock(w)
    BY <2>0, <2>1 DEF WorkerLock
  <2>2. CASE WorkerFindsNothing(w)
    BY <2>0, <2>2 DEF WorkerFindsNothing
  <2>3. CASE WorkerWait(w)
    BY <2>0, <2>3 DEF WorkerWait
  <2>4. CASE WorkerWoken(w)
    <3>1. CASE wpc'[w] = "retired" /\ self_lock' = Nobody
      BY <2>0, <2>4, <3>1 DEF WorkerWoken
    <3>2. CASE wpc'[w] = "check" /\ self_lock' = w
      BY <2>0, <2>4, <3>2 DEF WorkerWoken
    <3> QED
      BY <2>4, <3>1, <3>2 DEF WorkerWoken
  <2>5. CASE WorkerStop(w)
    BY <2>0, <2>5 DEF WorkerStop
  <2>6. CASE WorkerTake(w)
    BY <2>0, <2>6 DEF WorkerTake, WakeAll
  <2>7. CASE WorkerBusy(w)
    BY <2>0, <2>7 DEF WorkerBusy
  <2>8. CASE WorkerRun(w)
    BY <2>0, <2>8 DEF WorkerRun
  <2> QED
    BY <1>1, <2>1, <2>2, <2>3, <2>4, <2>5, <2>6, <2>7, <2>8 DEF Worker
<1>2. ASSUME ManagerStep PROVE LockHolder'
  <2>0. UNCHANGED <<queueVars, shutdown, task, ppc, arg, ownVars, histVars>>
    BY <1>2 DEF ManagerStep
  <2>1. CASE ManagerLoop
    BY <2>0, <2>1 DEF ManagerLoop
  <2>2. CASE ManagerSample
    BY <2>0, <2>2 DEF ManagerSample
  <2>3. CASE ManagerSampleBusy
    BY <2>0, <2>3 DEF ManagerSampleBusy
  <2>4. CASE ManagerGrow
    BY <2>0, <2>4 DEF ManagerGrow
  <2>5. CASE ManagerSpawn
    BY <2>0, <2>5 DEF ManagerSpawn, GrowsOn
  <2>6. CASE ManagerGrown
    BY <2>0, <2>6 DEF ManagerGrown
  <2>7. CASE ManagerShrink
    BY <2>0, <2>7 DEF ManagerShrink
  <2>8. CASE ManagerSignal
    BY <2>0, <2>8 DEF ManagerSignal, SignalNotEmpty
  <2>9. CASE ManagerSignalled
    BY <2>0, <2>9 DEF ManagerSignalled
  <2> QED
    BY <1>2, <2>1, <2>2, <2>3, <2>4, <2>5, <2>6, <2>7, <2>8, <2>9 DEF ManagerStep
<1>3. ASSUME NEW p \in Producers, ProducerFrame, AddTask(p) \/ AddTaskGoesOn(p) PROVE LockHolder'
  <2>0. UNCHANGED <<numVars, shutdown, task, manVars, ownVars, runs, spurious>>
    BY <1>3 DEF ProducerFrame
  <2>1. CASE AddTask(p)
    BY <2>0, <2>1 DEF AddTask
  <2>2. CASE AddTaskFindsFull(p)
    BY <2>0, <2>2 DEF AddTaskFindsFull
  <2>3. CASE AddTaskWait(p)
    BY <2>0, <2>3 DEF AddTaskWait
  <2>4. CASE AddTaskWoken(p)
    BY <2>0, <2>4 DEF AddTaskWoken
  <2>5. CASE AddTaskRefused(p)
    BY <2>0, <2>5 DEF AddTaskRefused, WakeAll
  <2>6. CASE AddTaskStore(p)
    <3>1. \A w \in Slots : wpc'[w] \in {"check", "wait"} <=> wpc[w] \in {"check", "wait"}
      BY <2>6 DEF AddTaskStore, SignalNotEmpty
    <3> QED
      BY <2>0, <2>6, <3>1 DEF AddTaskStore
  <2> QED
    BY <1>3, <2>1, <2>2, <2>3, <2>4, <2>5, <2>6 DEF AddTaskGoesOn
<1>4. ASSUME OwnerFrame, Destroy \/ DestroyGoesOn PROVE LockHolder'
  <2>0. UNCHANGED <<queueVars, numVars, self_lock, task, manVars, ppc, arg, histVars>>
    BY <1>4 DEF OwnerFrame
  <2>1. CASE Destroy
    BY <2>0, <2>1 DEF Destroy
  <2>2. CASE DestroyJoinManager
    BY <2>0, <2>2 DEF DestroyJoinManager
  <2>3. CASE DestroyBroadcast
    BY <2>0, <2>3 DEF DestroyBroadcast, WakeAll
  <2>4. CASE DestroyJoin
    BY <2>0, <2>4 DEF DestroyJoin
  <2>5. CASE DestroyFree
    BY <2>0, <2>5 DEF DestroyFree
  <2> QED
    BY <1>4, <2>1, <2>2, <2>3, <2>4, <2>5 DEF DestroyGoesOn
<1>5. CASE SpuriousWakeup
  BY <1>5 DEF SpuriousWakeup
<1>6. CASE UNCHANGED vars
  BY <1>6 DEF vars
<1> QED
  BY <1>1, <1>2, <1>3, <1>4, <1>5, <1>6 DEF Next

\* No task is stored while a worker is between its test and its wait.
LEMMA WaitsOnEmptyStep ==
  ASSUME TypeOK, LockHolder, WaitsOnEmpty, [Next]_vars
  PROVE  WaitsOnEmpty'
<1> USE NameAssumption DEF TypeOK, LockHolder, WaitsOnEmpty,
        queueVars, numVars, manVars, ownVars, histVars,
        WorkerGoes, ManagerGoes, ProducerGoes, OwnerGoes, Acquire, Release
<1>1. ASSUME NEW w \in Slots, Worker(w) PROVE WaitsOnEmpty'
  <2>0. UNCHANGED <<shutdown, manVars, arg, ownVars, fresh, spurious>>
    BY <1>1 DEF Worker
  <2>1. CASE WorkerLock(w)
    BY <2>0, <2>1 DEF WorkerLock
  <2>2. CASE WorkerFindsNothing(w)
    BY <2>0, <2>2 DEF WorkerFindsNothing
  <2>3. CASE WorkerWait(w)
    BY <2>0, <2>3 DEF WorkerWait
  <2>4. CASE WorkerWoken(w)
    BY <2>0, <2>4 DEF WorkerWoken
  <2>5. CASE WorkerStop(w)
    BY <2>0, <2>5 DEF WorkerStop
  <2>6. CASE WorkerTake(w)
    BY <2>0, <2>6 DEF WorkerTake, WakeAll
  <2>7. CASE WorkerBusy(w)
    BY <2>0, <2>7 DEF WorkerBusy
  <2>8. CASE WorkerRun(w)
    BY <2>0, <2>8 DEF WorkerRun
  <2> QED
    BY <1>1, <2>1, <2>2, <2>3, <2>4, <2>5, <2>6, <2>7, <2>8 DEF Worker
<1>2. ASSUME ManagerStep PROVE WaitsOnEmpty'
  <2>0. UNCHANGED <<queueVars, shutdown, task, ppc, arg, ownVars, histVars>>
    BY <1>2 DEF ManagerStep
  <2>1. CASE ManagerLoop
    BY <2>0, <2>1 DEF ManagerLoop
  <2>2. CASE ManagerSample
    BY <2>0, <2>2 DEF ManagerSample
  <2>3. CASE ManagerSampleBusy
    BY <2>0, <2>3 DEF ManagerSampleBusy
  <2>4. CASE ManagerGrow
    BY <2>0, <2>4 DEF ManagerGrow
  <2>5. CASE ManagerSpawn
    BY <2>0, <2>5 DEF ManagerSpawn, GrowsOn
  <2>6. CASE ManagerGrown
    BY <2>0, <2>6 DEF ManagerGrown
  <2>7. CASE ManagerShrink
    BY <2>0, <2>7 DEF ManagerShrink
  <2>8. CASE ManagerSignal
    BY <2>0, <2>8 DEF ManagerSignal, SignalNotEmpty
  <2>9. CASE ManagerSignalled
    BY <2>0, <2>9 DEF ManagerSignalled
  <2> QED
    BY <1>2, <2>1, <2>2, <2>3, <2>4, <2>5, <2>6, <2>7, <2>8, <2>9 DEF ManagerStep
<1>3. ASSUME NEW p \in Producers, ProducerFrame, AddTask(p) \/ AddTaskGoesOn(p) PROVE WaitsOnEmpty'
  <2>0. UNCHANGED <<numVars, shutdown, task, manVars, ownVars, runs, spurious>>
    BY <1>3 DEF ProducerFrame
  <2>1. CASE AddTask(p)
    BY <2>0, <2>1 DEF AddTask
  <2>2. CASE AddTaskFindsFull(p)
    BY <2>0, <2>2 DEF AddTaskFindsFull
  <2>3. CASE AddTaskWait(p)
    BY <2>0, <2>3 DEF AddTaskWait
  <2>4. CASE AddTaskWoken(p)
    BY <2>0, <2>4 DEF AddTaskWoken
  <2>5. CASE AddTaskRefused(p)
    BY <2>0, <2>5 DEF AddTaskRefused, WakeAll
  <2>6. CASE AddTaskStore(p)
    BY <2>0, <2>6 DEF AddTaskStore, SignalNotEmpty
  <2> QED
    BY <1>3, <2>1, <2>2, <2>3, <2>4, <2>5, <2>6 DEF AddTaskGoesOn
<1>4. ASSUME OwnerFrame, Destroy \/ DestroyGoesOn PROVE WaitsOnEmpty'
  <2>0. UNCHANGED <<queueVars, numVars, self_lock, task, manVars, ppc, arg, histVars>>
    BY <1>4 DEF OwnerFrame
  <2>1. CASE Destroy
    BY <2>0, <2>1 DEF Destroy
  <2>2. CASE DestroyJoinManager
    BY <2>0, <2>2 DEF DestroyJoinManager
  <2>3. CASE DestroyBroadcast
    BY <2>0, <2>3 DEF DestroyBroadcast, WakeAll
  <2>4. CASE DestroyJoin
    BY <2>0, <2>4 DEF DestroyJoin
  <2>5. CASE DestroyFree
    BY <2>0, <2>5 DEF DestroyFree
  <2> QED
    BY <1>4, <2>1, <2>2, <2>3, <2>4, <2>5 DEF DestroyGoesOn
<1>5. CASE SpuriousWakeup
  BY <1>5 DEF SpuriousWakeup
<1>6. CASE UNCHANGED vars
  BY <1>6 DEF vars
<1> QED
  BY <1>1, <1>2, <1>3, <1>4, <1>5, <1>6 DEF Next

\* A new thread goes to the first slot that holds none.
LEMMA SlotsInOrderStep ==
  ASSUME TypeOK, SlotsInOrder, [Next]_vars
  PROVE  SlotsInOrder'
<1> USE PoolAssumption DEF TypeOK, SlotsInOrder,
        queueVars, numVars, manVars, ownVars, histVars,
        WorkerGoes, ManagerGoes, ProducerGoes, OwnerGoes, Acquire, Release
<1>1. ASSUME NEW w \in Slots, Worker(w) PROVE SlotsInOrder'
  <2>0. UNCHANGED <<shutdown, manVars, arg, ownVars, fresh, spurious>>
    BY <1>1 DEF Worker
  <2>1. CASE WorkerLock(w)
    BY <2>0, <2>1 DEF WorkerLock
  <2>2. CASE WorkerFindsNothing(w)
    BY <2>0, <2>2 DEF WorkerFindsNothing
  <2>3. CASE WorkerWait(w)
    BY <2>0, <2>3 DEF WorkerWait
  <2>4. CASE WorkerWoken(w)
    BY <2>0, <2>4 DEF WorkerWoken
  <2>5. CASE WorkerStop(w)
    BY <2>0, <2>5 DEF WorkerStop
  <2>6. CASE WorkerTake(w)
    BY <2>0, <2>6 DEF WorkerTake, WakeAll
  <2>7. CASE WorkerBusy(w)
    BY <2>0, <2>7 DEF WorkerBusy
  <2>8. CASE WorkerRun(w)
    BY <2>0, <2>8 DEF WorkerRun
  <2> QED
    BY <1>1, <2>1, <2>2, <2>3, <2>4, <2>5, <2>6, <2>7, <2>8 DEF Worker
<1>2. ASSUME ManagerStep PROVE SlotsInOrder'
  <2>0. UNCHANGED <<queueVars, shutdown, task, ppc, arg, ownVars, histVars>>
    BY <1>2 DEF ManagerStep
  <2>1. CASE ManagerLoop
    BY <2>0, <2>1 DEF ManagerLoop
  <2>2. CASE ManagerSample
    BY <2>0, <2>2 DEF ManagerSample
  <2>3. CASE ManagerSampleBusy
    BY <2>0, <2>3 DEF ManagerSampleBusy
  <2>4. CASE ManagerGrow
    BY <2>0, <2>4 DEF ManagerGrow
  <2>5. CASE ManagerSpawn
    BY <2>0, <2>5 DEF ManagerSpawn, GrowsOn
  <2>6. CASE ManagerGrown
    BY <2>0, <2>6 DEF ManagerGrown
  <2>7. CASE ManagerShrink
    BY <2>0, <2>7 DEF ManagerShrink
  <2>8. CASE ManagerSignal
    BY <2>0, <2>8 DEF ManagerSignal, SignalNotEmpty
  <2>9. CASE ManagerSignalled
    BY <2>0, <2>9 DEF ManagerSignalled
  <2> QED
    BY <1>2, <2>1, <2>2, <2>3, <2>4, <2>5, <2>6, <2>7, <2>8, <2>9 DEF ManagerStep
<1>3. ASSUME NEW p \in Producers, ProducerFrame, AddTask(p) \/ AddTaskGoesOn(p) PROVE SlotsInOrder'
  <2>0. UNCHANGED <<numVars, shutdown, task, manVars, ownVars, runs, spurious>>
    BY <1>3 DEF ProducerFrame
  <2>1. CASE AddTask(p)
    BY <2>0, <2>1 DEF AddTask
  <2>2. CASE AddTaskFindsFull(p)
    BY <2>0, <2>2 DEF AddTaskFindsFull
  <2>3. CASE AddTaskWait(p)
    BY <2>0, <2>3 DEF AddTaskWait
  <2>4. CASE AddTaskWoken(p)
    BY <2>0, <2>4 DEF AddTaskWoken
  <2>5. CASE AddTaskRefused(p)
    BY <2>0, <2>5 DEF AddTaskRefused, WakeAll
  <2>6. CASE AddTaskStore(p)
    BY <2>0, <2>6 DEF AddTaskStore, SignalNotEmpty
  <2> QED
    BY <1>3, <2>1, <2>2, <2>3, <2>4, <2>5, <2>6 DEF AddTaskGoesOn
<1>4. ASSUME OwnerFrame, Destroy \/ DestroyGoesOn PROVE SlotsInOrder'
  <2>0. UNCHANGED <<queueVars, numVars, self_lock, task, manVars, ppc, arg, histVars>>
    BY <1>4 DEF OwnerFrame
  <2>1. CASE Destroy
    BY <2>0, <2>1 DEF Destroy
  <2>2. CASE DestroyJoinManager
    BY <2>0, <2>2 DEF DestroyJoinManager
  <2>3. CASE DestroyBroadcast
    BY <2>0, <2>3 DEF DestroyBroadcast, WakeAll
  <2>4. CASE DestroyJoin
    BY <2>0, <2>4 DEF DestroyJoin
  <2>5. CASE DestroyFree
    BY <2>0, <2>5 DEF DestroyFree
  <2> QED
    BY <1>4, <2>1, <2>2, <2>3, <2>4, <2>5 DEF DestroyGoesOn
<1>5. CASE SpuriousWakeup
  BY <1>5 DEF SpuriousWakeup
<1>6. CASE UNCHANGED vars
  BY <1>6 DEF vars
<1> QED
  BY <1>1, <1>2, <1>3, <1>4, <1>5, <1>6 DEF Next
-----------------------------------------------------------------------------
\* The two sets the counters count are finite.
LEMMA SlotSetsFinite ==
  /\ IsFiniteSet(LiveWorkers) /\ Cardinality(LiveWorkers) \in Nat
  /\ IsFiniteSet(BusyWorkers) /\ Cardinality(BusyWorkers) \in Nat
<1>1. IsFiniteSet(0 .. max_thr_num - 1)
  BY FS_Interval, PoolAssumption
<1>2. LiveWorkers \in SUBSET (0 .. max_thr_num - 1) /\ BusyWorkers \in SUBSET (0 .. max_thr_num - 1)
  BY DEF LiveWorkers, BusyWorkers
<1>3. IsFiniteSet(LiveWorkers) /\ IsFiniteSet(BusyWorkers)
  BY <1>1, <1>2, FS_Subset
<1> QED
  BY <1>3, FS_CardinalityType

\* A step that starts, retires and busies no worker leaves the counters exact.
LEMMA CountersKept ==
  ASSUME CountersExact, UNCHANGED <<live_thr_num, busy_thr_num>>,
         \A v \in Slots : /\ wpc'[v] \in {"none", "retired"} <=> wpc[v] \in {"none", "retired"}
                          /\ wpc'[v] = "running" <=> wpc[v] = "running"
  PROVE  CountersExact'
<1>1. LiveWorkers' = LiveWorkers /\ BusyWorkers' = BusyWorkers
  BY DEF LiveWorkers, BusyWorkers
<1> QED
  BY <1>1 DEF CountersExact

\* Each counter changes together with the set it counts.
LEMMA CountersStep ==
  ASSUME TypeOK, CountersExact, [Next]_vars
  PROVE  CountersExact'
<1> USE CountersKept DEF TypeOK,
        queueVars, numVars, manVars, ownVars, histVars,
        WorkerGoes, ManagerGoes, ProducerGoes, OwnerGoes, Acquire, Release
<1>1. ASSUME NEW w \in Slots, Worker(w) PROVE CountersExact'
  <2>0. UNCHANGED <<shutdown, manVars, arg, ownVars, fresh, spurious>>
    BY <1>1 DEF Worker
  <2>1. CASE WorkerLock(w)
    BY <2>0, <2>1 DEF WorkerLock
  <2>2. CASE WorkerFindsNothing(w)
    BY <2>0, <2>2 DEF WorkerFindsNothing
  <2>3. CASE WorkerWait(w)
    BY <2>0, <2>3 DEF WorkerWait
  <2>4. CASE WorkerWoken(w)
    <3>1. CASE dying_thr_num > 0 /\ live_thr_num > min_thr_num
      <4>1. LiveWorkers' = LiveWorkers \ {w} /\ w \in LiveWorkers
        BY <2>4, <3>1 DEF WorkerWoken, LiveWorkers
      <4>2. BusyWorkers' = BusyWorkers /\ busy_thr_num' = busy_thr_num
        BY <2>4, <3>1 DEF WorkerWoken, BusyWorkers
      <4>3. live_thr_num' = live_thr_num - 1
        BY <2>4, <3>1 DEF WorkerWoken
      <4>4. Cardinality(LiveWorkers') = Cardinality(LiveWorkers) - 1
        BY <4>1, FS_RemoveElement, SlotSetsFinite
      <4> QED
        BY <4>2, <4>3, <4>4 DEF CountersExact
    <3>2. CASE ~(dying_thr_num > 0 /\ live_thr_num > min_thr_num)
      BY <2>4, <3>2 DEF WorkerWoken
    <3> QED
      BY <3>1, <3>2
  <2>5. CASE WorkerStop(w)
    BY <2>0, <2>5 DEF WorkerStop
  <2>6. CASE WorkerTake(w)
    BY <2>0, <2>6 DEF WorkerTake, WakeAll
  <2>7. CASE WorkerBusy(w)
    <3>1. BusyWorkers' = BusyWorkers \cup {w} /\ w \notin BusyWorkers
      BY <2>7 DEF WorkerBusy, BusyWorkers
    <3>2. LiveWorkers' = LiveWorkers /\ live_thr_num' = live_thr_num
      BY <2>7 DEF WorkerBusy, LiveWorkers
    <3>3. Cardinality(BusyWorkers') = Cardinality(BusyWorkers) + 1
      BY <3>1, FS_AddElement, SlotSetsFinite
    <3> QED
      BY <2>7, <3>2, <3>3 DEF CountersExact, WorkerBusy
  <2>8. CASE WorkerRun(w)
    <3>1. BusyWorkers' = BusyWorkers \ {w} /\ w \in BusyWorkers
      BY <2>8 DEF WorkerRun, BusyWorkers
    <3>2. LiveWorkers' = LiveWorkers /\ live_thr_num' = live_thr_num
      BY <2>8 DEF WorkerRun, LiveWorkers
    <3>3. Cardinality(BusyWorkers') = Cardinality(BusyWorkers) - 1
      BY <3>1, FS_RemoveElement, SlotSetsFinite
    <3> QED
      BY <2>8, <3>2, <3>3 DEF CountersExact, WorkerRun
  <2> QED
    BY <1>1, <2>1, <2>2, <2>3, <2>4, <2>5, <2>6, <2>7, <2>8 DEF Worker
<1>2. ASSUME ManagerStep PROVE CountersExact'
  <2>0. UNCHANGED <<queueVars, shutdown, task, ppc, arg, ownVars, histVars>>
    BY <1>2 DEF ManagerStep
  <2>1. CASE ManagerLoop
    BY <2>0, <2>1 DEF ManagerLoop
  <2>2. CASE ManagerSample
    BY <2>0, <2>2 DEF ManagerSample
  <2>3. CASE ManagerSampleBusy
    BY <2>0, <2>3 DEF ManagerSampleBusy
  <2>4. CASE ManagerGrow
    BY <2>0, <2>4 DEF ManagerGrow
  <2>5. CASE ManagerSpawn
    <3>1. mi \in Slots
      BY <2>5, PoolAssumption DEF ManagerSpawn, GrowsOn
    <3>2. CASE wpc[mi] = "none"
      <4>1. LiveWorkers' = LiveWorkers \cup {mi} /\ mi \notin LiveWorkers
        BY <2>5, <3>1, <3>2 DEF ManagerSpawn, LiveWorkers
      <4>2. BusyWorkers' = BusyWorkers
        BY <2>5, <3>1, <3>2 DEF ManagerSpawn, BusyWorkers
      <4>3. Cardinality(LiveWorkers') = Cardinality(LiveWorkers) + 1
        BY <4>1, FS_AddElement, SlotSetsFinite
      <4> QED
        BY <2>5, <3>2, <4>2, <4>3 DEF CountersExact, ManagerSpawn
    <3>3. CASE wpc[mi] # "none"
      BY <2>5, <3>3 DEF ManagerSpawn
    <3> QED
      BY <3>2, <3>3
  <2>6. CASE ManagerGrown
    BY <2>0, <2>6 DEF ManagerGrown
  <2>7. CASE ManagerShrink
    BY <2>0, <2>7 DEF ManagerShrink
  <2>8. CASE ManagerSignal
    BY <2>0, <2>8 DEF ManagerSignal, SignalNotEmpty
  <2>9. CASE ManagerSignalled
    BY <2>0, <2>9 DEF ManagerSignalled
  <2> QED
    BY <1>2, <2>1, <2>2, <2>3, <2>4, <2>5, <2>6, <2>7, <2>8, <2>9 DEF ManagerStep
<1>3. ASSUME NEW p \in Producers, ProducerFrame, AddTask(p) \/ AddTaskGoesOn(p) PROVE CountersExact'
  <2>0. UNCHANGED <<numVars, shutdown, task, manVars, ownVars, runs, spurious>>
    BY <1>3 DEF ProducerFrame
  <2>1. CASE AddTask(p)
    BY <2>0, <2>1 DEF AddTask
  <2>2. CASE AddTaskFindsFull(p)
    BY <2>0, <2>2 DEF AddTaskFindsFull
  <2>3. CASE AddTaskWait(p)
    BY <2>0, <2>3 DEF AddTaskWait
  <2>4. CASE AddTaskWoken(p)
    BY <2>0, <2>4 DEF AddTaskWoken
  <2>5. CASE AddTaskRefused(p)
    BY <2>0, <2>5 DEF AddTaskRefused, WakeAll
  <2>6. CASE AddTaskStore(p)
    BY <2>0, <2>6 DEF AddTaskStore, SignalNotEmpty
  <2> QED
    BY <1>3, <2>1, <2>2, <2>3, <2>4, <2>5, <2>6 DEF AddTaskGoesOn
<1>4. ASSUME OwnerFrame, Destroy \/ DestroyGoesOn PROVE CountersExact'
  <2>0. UNCHANGED <<queueVars, numVars, self_lock, task, manVars, ppc, arg, histVars>>
    BY <1>4 DEF OwnerFrame
  <2>1. CASE Destroy
    BY <2>0, <2>1 DEF Destroy
  <2>2. CASE DestroyJoinManager
    BY <2>0, <2>2 DEF DestroyJoinManager
  <2>3. CASE DestroyBroadcast
    BY <2>0, <2>3 DEF DestroyBroadcast, WakeAll
  <2>4. CASE DestroyJoin
    BY <2>0, <2>4 DEF DestroyJoin
  <2>5. CASE DestroyFree
    BY <2>0, <2>5 DEF DestroyFree
  <2> QED
    BY <1>4, <2>1, <2>2, <2>3, <2>4, <2>5 DEF DestroyGoesOn
<1>5. CASE SpuriousWakeup
  <2>1. \A v \in Slots : wpc'[v] = wpc[v] \/ (wpc[v] = "blocked" /\ wpc'[v] = "awake")
    BY <1>5 DEF SpuriousWakeup
  <2> QED
    BY <1>5, <2>1 DEF SpuriousWakeup
<1>6. CASE UNCHANGED vars
  BY <1>6 DEF vars
<1> QED
  BY <1>1, <1>2, <1>3, <1>4, <1>5, <1>6 DEF Next

\* The threads that live are among the first slots, so as many of those as
\* live_thr_num counts hold a thread.
LEMMA InOrderJoinable ==
  ASSUME TypeOK, CountersExact, SlotsInOrder
  PROVE  JoinableSlots
<1> SUFFICES ASSUME NEW w \in Slots, w < live_thr_num, wpc[w] = "none"
             PROVE  FALSE
  BY DEF JoinableSlots
<1>1. LiveWorkers \subseteq 0 .. w - 1
  BY PoolAssumption DEF LiveWorkers, SlotsInOrder
<1>2. IsFiniteSet(0 .. w - 1) /\ Cardinality(0 .. w - 1) = w
  <2>1. w \in Nat
    BY PoolAssumption
  <2>2. /\ IsFiniteSet(0 .. w - 1)
        /\ Cardinality(0 .. w - 1) = IF 0 > w - 1 THEN 0 ELSE (w - 1) - 0 + 1
    <3> HIDE DEF Slots
    <3>1. 0 \in Int /\ w - 1 \in Int
      BY <2>1
    <3> QED
      BY <3>1, FS_Interval
  <2> QED
    BY <2>1, <2>2
<1>3. Cardinality(LiveWorkers) <= w
  BY <1>1, <1>2, FS_Subset
<1>4. live_thr_num = Cardinality(LiveWorkers) /\ live_thr_num \in Int /\ w \in Int
  BY PoolAssumption DEF CountersExact, TypeOK
<1> QED
  BY <1>3, <1>4

\* The inductive invariant of the counters, the slots and the lock.
IInv == TypeOK /\ LockHolder /\ WaitsOnEmpty /\ CountersExact /\ SlotsInOrder

LEMMA IInvInit == Init => IInv
<1> SUFFICES ASSUME Init PROVE IInv
  OBVIOUS
<1>1. TypeOK
  BY TypeInit
<1>2. LockHolder /\ WaitsOnEmpty
  BY NameAssumption DEF Init, LockHolder, WaitsOnEmpty
<1>3. SlotsInOrder
  BY PoolAssumption DEF Init, SlotsInOrder
<1>4. CountersExact
  <2>1. LiveWorkers = 0 .. min_thr_num - 1 /\ BusyWorkers = {}
    BY PoolAssumption DEF Init, LiveWorkers, BusyWorkers
  <2>2. Cardinality(0 .. min_thr_num - 1) = min_thr_num /\ Cardinality({}) = 0
    BY FS_Interval, FS_EmptySet, PoolAssumption
  <2> QED
    BY <2>1, <2>2 DEF Init, CountersExact
<1> QED
  BY <1>1, <1>2, <1>3, <1>4 DEF IInv

LEMMA IInvStep == IInv /\ [Next]_vars => IInv'
<1> SUFFICES ASSUME IInv, [Next]_vars PROVE IInv'
  OBVIOUS
<1> QED
  BY TypeStep, LockHolderStep, WaitsOnEmptyStep, CountersStep, SlotsInOrderStep
  DEF IInv

LEMMA IInvAlways == Spec => []IInv
<1>1. IInv /\ [Next]_vars => IInv'
  BY IInvStep
<1> QED
  BY IInvInit, <1>1, PTL DEF Spec

\* live_thr_num and busy_thr_num are exact in every pool, although they are
\* protected by two different locks and the workers change both.
THEOREM CountersAreExact == Spec => []CountersExact
<1>1. IInv => CountersExact
  BY DEF IInv
<1> QED
  BY <1>1, IInvAlways, PTL

\* threadpool_destroy never joins a worker_tids entry that holds no thread.
THEOREM SlotsAreJoinable == Spec => []JoinableSlots
<1>1. IInv => JoinableSlots
  BY InOrderJoinable DEF IInv
<1> QED
  BY <1>1, IInvAlways, PTL
-----------------------------------------------------------------------------
\* A pool that cannot grow or shrink, the way to avoid what a retired thread
\* leaves behind.
FixedSize == min_thr_num = max_thr_num /\ max_thr_num > 0

FixedInv ==
  /\ live_thr_num = max_thr_num
  /\ \A w \in Slots : wpc[w] \notin {"none", "retired"}
  /\ ~shutdown => \A w \in Slots : wpc[w] # "stopped"
  /\ NoStrandedTask
  /\ dpc \in {"join", "freed"} => \A w \in Slots : w < di => wpc[w] = "stopped"
  /\ dpc = "freed" => di >= max_thr_num

LEMMA FixedStep ==
  ASSUME FixedSize, TypeOK, LockHolder, WaitsOnEmpty, FixedInv, [Next]_vars
  PROVE  FixedInv'
<1> USE DEF TypeOK, FixedInv, NoStrandedTask,
        queueVars, numVars, manVars, ownVars, histVars,
        WorkerGoes, ManagerGoes, ProducerGoes, OwnerGoes, Acquire, Release
<1>1. ASSUME NEW w \in Slots, Worker(w) PROVE FixedInv'
  <2>0. UNCHANGED <<shutdown, manVars, arg, ownVars, fresh, spurious>>
    BY <1>1 DEF Worker
  <2>1. CASE WorkerLock(w)
    BY <2>0, <2>1 DEF WorkerLock
  <2>2. CASE WorkerFindsNothing(w)
    BY <2>0, <2>2 DEF WorkerFindsNothing
  <2>3. CASE WorkerWait(w)
    BY <2>0, <2>3 DEF WorkerWait
  <2>4. CASE WorkerWoken(w)
    <3>1. ~(dying_thr_num > 0 /\ live_thr_num > min_thr_num)
      BY PoolAssumption DEF FixedSize
    <3> QED
      BY <2>0, <2>4, <3>1 DEF WorkerWoken
  <2>5. CASE WorkerStop(w)
    BY <2>0, <2>5 DEF WorkerStop
  <2>6. CASE WorkerTake(w)
    BY <2>0, <2>6 DEF WorkerTake, WakeAll
  <2>7. CASE WorkerBusy(w)
    BY <2>0, <2>7 DEF WorkerBusy
  <2>8. CASE WorkerRun(w)
    BY <2>0, <2>8 DEF WorkerRun
  <2> QED
    BY <1>1, <2>1, <2>2, <2>3, <2>4, <2>5, <2>6, <2>7, <2>8 DEF Worker
<1>2. ASSUME ManagerStep PROVE FixedInv'
  <2>0. UNCHANGED <<queueVars, shutdown, task, ppc, arg, ownVars, histVars>>
    BY <1>2 DEF ManagerStep
  <2>1. CASE ManagerLoop
    BY <2>0, <2>1 DEF ManagerLoop
  <2>2. CASE ManagerSample
    BY <2>0, <2>2 DEF ManagerSample
  <2>3. CASE ManagerSampleBusy
    BY <2>0, <2>3 DEF ManagerSampleBusy
  <2>4. CASE ManagerGrow
    BY <2>0, <2>4 DEF ManagerGrow
  <2>5. CASE ManagerSpawn
    BY <2>0, <2>5 DEF ManagerSpawn, GrowsOn
  <2>6. CASE ManagerGrown
    BY <2>0, <2>6 DEF ManagerGrown
  <2>7. CASE ManagerShrink
    BY <2>0, <2>7 DEF ManagerShrink
  <2>8. CASE ManagerSignal
    BY <2>0, <2>8 DEF ManagerSignal, SignalNotEmpty
  <2>9. CASE ManagerSignalled
    BY <2>0, <2>9 DEF ManagerSignalled
  <2> QED
    BY <1>2, <2>1, <2>2, <2>3, <2>4, <2>5, <2>6, <2>7, <2>8, <2>9 DEF ManagerStep
<1>3. ASSUME NEW p \in Producers, ProducerFrame, AddTask(p) \/ AddTaskGoesOn(p) PROVE FixedInv'
  <2>0. UNCHANGED <<numVars, shutdown, task, manVars, ownVars, runs, spurious>>
    BY <1>3 DEF ProducerFrame
  <2>1. CASE AddTask(p)
    BY <2>0, <2>1 DEF AddTask
  <2>2. CASE AddTaskFindsFull(p)
    BY <2>0, <2>2 DEF AddTaskFindsFull
  <2>3. CASE AddTaskWait(p)
    BY <2>0, <2>3 DEF AddTaskWait
  <2>4. CASE AddTaskWoken(p)
    BY <2>0, <2>4 DEF AddTaskWoken
  <2>5. CASE AddTaskRefused(p)
    BY <2>0, <2>5 DEF AddTaskRefused, WakeAll
  <2>6. CASE AddTaskStore(p)
    <3>1. \A w \in Slots : wpc'[w] = wpc[w] \/ (wpc[w] = "blocked" /\ wpc'[w] = "awake")
      BY <2>6 DEF AddTaskStore, SignalNotEmpty
    <3>2. \A w \in Slots : wpc[w] # "wait"
      BY <2>6, NameAssumption DEF AddTaskStore, LockHolder
    <3>3. 0 \in Slots /\ ~shutdown
      BY <2>6, PoolAssumption DEF AddTaskStore, FixedSize
    <3>4. \E w \in Slots : wpc'[w] \in {"top", "check", "awake", "taken", "running"}
      <4>1. CASE \E w \in Slots : wpc[w] = "blocked"
        <5>1. PICK w \in Slots : wpc[w] = "blocked" /\ wpc' = [wpc EXCEPT ![w] = "awake"]
          BY <2>6, <4>1 DEF AddTaskStore, SignalNotEmpty
        <5> QED
          BY <5>1
      <4>2. CASE wpc[0] # "blocked"
        BY <3>1, <3>2, <3>3, <4>2 DEF WorkerAt
      <4> QED
        BY <3>3, <4>1, <4>2
    <3> QED
      BY <2>0, <2>6, <3>1, <3>4 DEF AddTaskStore
  <2> QED
    BY <1>3, <2>1, <2>2, <2>3, <2>4, <2>5, <2>6 DEF AddTaskGoesOn
<1>4. ASSUME OwnerFrame, Destroy \/ DestroyGoesOn PROVE FixedInv'
  <2>0. UNCHANGED <<queueVars, numVars, self_lock, task, manVars, ppc, arg, histVars>>
    BY <1>4 DEF OwnerFrame
  <2>1. CASE Destroy
    BY <2>0, <2>1 DEF Destroy
  <2>2. CASE DestroyJoinManager
    BY <2>0, <2>2 DEF DestroyJoinManager
  <2>3. CASE DestroyBroadcast
    BY <2>0, <2>3 DEF DestroyBroadcast, WakeAll
  <2>4. CASE DestroyJoin
    BY <2>0, <2>4 DEF DestroyJoin
  <2>5. CASE DestroyFree
    BY <2>0, <2>5 DEF DestroyFree
  <2> QED
    BY <1>4, <2>1, <2>2, <2>3, <2>4, <2>5 DEF DestroyGoesOn
<1>5. CASE SpuriousWakeup
  BY <1>5 DEF SpuriousWakeup
<1>6. CASE UNCHANGED vars
  BY <1>6 DEF vars
<1> QED
  BY <1>1, <1>2, <1>3, <1>4, <1>5, <1>6 DEF Next

LEMMA FixedInit == FixedSize /\ Init => FixedInv
  BY PoolAssumption DEF FixedSize, FixedInv, NoStrandedTask, Init

LEMMA FixedAlways ==
  ASSUME FixedSize
  PROVE  Spec => [](IInv /\ FixedInv)
<1>1. Init => IInv /\ FixedInv
  BY IInvInit, FixedInit
<1>2. IInv /\ FixedInv /\ [Next]_vars => (IInv /\ FixedInv)'
  <2> SUFFICES ASSUME IInv, FixedInv, [Next]_vars PROVE IInv' /\ FixedInv'
    OBVIOUS
  <2>1. IInv'
    BY IInvStep
  <2>2. FixedInv'
    BY FixedStep DEF IInv
  <2> QED
    BY <2>1, <2>2
<1> QED
  BY <1>1, <1>2, PTL DEF Spec

\* In a pool of fixed size no wakeup is lost while it is open: a queued task
\* has a worker that is awake and will come to the queue.
THEOREM NoTaskIsStranded ==
  ASSUME FixedSize
  PROVE  Spec => []NoStrandedTask
<1>1. IInv /\ FixedInv => NoStrandedTask
  BY DEF FixedInv
<1> QED
  BY <1>1, FixedAlways, PTL

\* In a pool of fixed size threadpool_destroy frees the pool only after every
\* worker is gone.
THEOREM FreedAfterAllWorkers ==
  ASSUME FixedSize
  PROVE  Spec => []FreedAfterWorkers
<1>1. IInv /\ FixedInv => FreedAfterWorkers
  BY PoolAssumption DEF IInv, TypeOK, FixedInv, FreedAfterWorkers, WorkerAt
<1> QED
  BY <1>1, FixedAlways, PTL
=============================================================================

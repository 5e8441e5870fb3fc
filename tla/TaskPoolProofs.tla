---------------------------- MODULE TaskPoolProofs ----------------------------
(***************************************************************************)
(* Proofs about the tasks of ThreadPool: each is in one place, and the     *)
(* threads with their ring implement the FIFO queue of TaskPool.           *)
(***************************************************************************)
EXTENDS ThreadPoolProofs, SequenceTheorems

USE DEF Indices

-----------------------------------------------------------------------------
(* The steps of ThreadPool, as far as they touch tasks *)

HasTask(w) == wpc[w] \in {"taken", "running"}
KeepsIdle(P) == \A p \in P : ppc'[p] = "idle" <=> ppc[p] = "idle"
KeepsBusy(W) == \A w \in W : HasTask(w)' <=> HasTask(w)

Quiet ==
  /\ UNCHANGED <<queueVars, task, arg, fresh, runs>> /\ (shutdown => shutdown')
  /\ KeepsIdle(Producers) /\ KeepsBusy(Slots)
Submits(p, t) ==
  /\ t \in fresh /\ fresh' = fresh \ {t} /\ arg' = [arg EXCEPT ![p] = t]
  /\ ppc[p] = "idle" /\ ppc'[p] # "idle" /\ KeepsIdle(Producers \ {p}) /\ KeepsBusy(Slots)
  /\ UNCHANGED <<queueVars, task, runs, shutdown>>
Stores(p) ==
  /\ ~shutdown /\ taskq_size # taskq_capacity
  /\ task_queue' = [task_queue EXCEPT ![taskq_rear] = arg[p]]
  /\ taskq_rear' = (taskq_rear + 1) % taskq_capacity /\ taskq_size' = taskq_size + 1
  /\ arg' = [arg EXCEPT ![p] = Nothing]
  /\ ppc[p] # "idle" /\ ppc'[p] = "idle" /\ KeepsIdle(Producers \ {p}) /\ KeepsBusy(Slots)
  /\ UNCHANGED <<taskq_front, task, fresh, runs, shutdown>>
Refuses(p) ==
  /\ shutdown /\ arg' = [arg EXCEPT ![p] = Nothing]
  /\ ppc[p] # "idle" /\ ppc'[p] = "idle" /\ KeepsIdle(Producers \ {p}) /\ KeepsBusy(Slots)
  /\ UNCHANGED <<queueVars, task, fresh, runs, shutdown>>
Takes(w) ==
  /\ ~shutdown /\ taskq_size > 0
  /\ task' = [task EXCEPT ![w] = task_queue[taskq_front]]
  /\ taskq_front' = (taskq_front + 1) % taskq_capacity /\ taskq_size' = taskq_size - 1
  /\ ~HasTask(w) /\ HasTask(w)' /\ KeepsBusy(Slots \ {w}) /\ KeepsIdle(Producers)
  /\ UNCHANGED <<task_queue, taskq_rear, arg, fresh, runs, shutdown>>
Runs(w) ==
  /\ runs' = [runs EXCEPT ![task[w]] = @ + 1] /\ task' = [task EXCEPT ![w] = Nothing]
  /\ HasTask(w) /\ ~HasTask(w)' /\ KeepsBusy(Slots \ {w}) /\ KeepsIdle(Producers)
  /\ UNCHANGED <<queueVars, arg, fresh, shutdown>>

LEMMA TaskSteps ==
  ASSUME TypeOK, [Next]_vars
  PROVE  \/ Quiet
         \/ \E p \in Producers : (\E t \in Tasks : Submits(p, t)) \/ Stores(p) \/ Refuses(p)
         \/ \E w \in Slots : Takes(w) \/ Runs(w)
<1> USE DEF KeepsIdle, KeepsBusy, HasTask
<1>1. ASSUME NEW w \in Slots, Worker(w) PROVE Quiet \/ Takes(w) \/ Runs(w)
  <2>0. UNCHANGED <<shutdown, arg, fresh>>
    BY <1>1 DEF Worker
  <2>1. CASE WorkerLock(w) \/ WorkerFindsNothing(w) \/ WorkerWait(w) \/ WorkerWoken(w) \/ WorkerStop(w)
    BY <2>0, <2>1 DEF WorkerLock, WorkerFindsNothing, WorkerWait, WorkerWoken, WorkerStop,
                      WorkerGoes, Quiet, TypeOK
  <2>2. CASE WorkerTake(w)
    BY <2>0, <2>2 DEF WorkerTake, WorkerGoes, WakeAll, Takes, TypeOK
  <2>3. CASE WorkerBusy(w)
    BY <2>0, <2>3 DEF WorkerBusy, WorkerGoes, Quiet, TypeOK
  <2>4. CASE WorkerRun(w)
    BY <2>0, <2>4 DEF WorkerRun, WorkerGoes, Runs, TypeOK
  <2>. QED  BY <1>1, <2>1, <2>2, <2>3, <2>4 DEF Worker
<1>2. ASSUME SignalNotEmpty PROVE KeepsBusy(Slots)
  BY <1>2 DEF SignalNotEmpty, TypeOK
<1>3. ASSUME ManagerStep PROVE Quiet
  <2>0. UNCHANGED <<queueVars, shutdown, task, ppc, arg, fresh, runs>>
    BY <1>3 DEF ManagerStep, histVars
  <2>1. CASE ManagerSpawn
    BY <2>0, <2>1 DEF ManagerSpawn, Quiet, TypeOK
  <2>2. CASE ManagerSignal
    BY <1>2, <2>0, <2>2 DEF ManagerSignal, Quiet
  <2>3. CASE \/ ManagerLoop \/ ManagerSample \/ ManagerSampleBusy \/ ManagerGrow \/ ManagerGrown
             \/ ManagerShrink \/ ManagerSignalled
    BY <2>0, <2>3 DEF ManagerLoop, ManagerSample, ManagerSampleBusy, ManagerGrow, ManagerGrown,
                      ManagerShrink, ManagerSignalled, Quiet
  <2>. QED  BY <1>3, <2>1, <2>2, <2>3 DEF ManagerStep
<1>4. ASSUME NEW p \in Producers, ProducerFrame, AddTask(p) \/ AddTaskGoesOn(p)
      PROVE  Quiet \/ (\E t \in Tasks : Submits(p, t)) \/ Stores(p) \/ Refuses(p)
  <2>0. UNCHANGED <<shutdown, task, runs>>
    BY <1>4 DEF ProducerFrame
  <2>1. CASE AddTask(p)
    BY <2>0, <2>1 DEF AddTask, ProducerGoes, Submits, TypeOK
  <2>2. CASE AddTaskFindsFull(p) \/ AddTaskWait(p) \/ AddTaskWoken(p)
    BY <2>0, <2>2 DEF AddTaskFindsFull, AddTaskWait, AddTaskWoken, ProducerGoes, Quiet, TypeOK
  <2>3. CASE AddTaskRefused(p)
    BY <2>0, <2>3 DEF AddTaskRefused, ProducerGoes, WakeAll, Refuses, TypeOK
  <2>4. CASE AddTaskStore(p)
    BY <1>2, <2>0, <2>4 DEF AddTaskStore, ProducerGoes, Stores, TypeOK
  <2>. QED  BY <1>4, <2>1, <2>2, <2>3, <2>4 DEF AddTaskGoesOn
<1>5. ASSUME OwnerFrame, Destroy \/ DestroyGoesOn PROVE Quiet
  <2>0. UNCHANGED <<queueVars, task, ppc, arg, fresh, runs>>
    BY <1>5 DEF OwnerFrame, histVars
  <2>. QED  BY <1>5, <2>0 DEF Destroy, DestroyGoesOn, DestroyJoinManager, DestroyBroadcast,
                             DestroyJoin, DestroyFree, WakeAll, Quiet, TypeOK
<1>6. ASSUME SpuriousWakeup PROVE Quiet
  BY <1>6 DEF SpuriousWakeup, WorkerGoes, ProducerGoes, Quiet, TypeOK
<1>7. ASSUME UNCHANGED vars PROVE Quiet
  BY <1>7 DEF vars, queueVars, histVars, Quiet
<1>. QED
  BY <1>1, <1>3, <1>4, <1>5, <1>6, <1>7 DEF Next

-----------------------------------------------------------------------------
(* The ring *)

Wrap(n) == IF n < taskq_capacity THEN n ELSE n - taskq_capacity

\* What is held: callers between entry and return, workers from taking to
\* running a task, and the occupied indices, which end just before taskq_rear.
Held ==
  /\ \A p \in Producers : arg[p] = Nothing <=> ppc[p] = "idle"
  /\ \A w \in Slots : task[w] = Nothing <=> ~HasTask(w)
Ring ==
  /\ taskq_rear = Wrap(taskq_front + taskq_size)
  /\ \A i \in Indices : Occupied(i) => task_queue[i] \in Tasks

LEMMA OccupiedIs ==
  ASSUME TypeOK, NEW i \in Indices
  PROVE  Occupied(i) <=> \/ taskq_front <= i /\ i < taskq_front + taskq_size
                         \/ i + taskq_capacity < taskq_front + taskq_size
<1>1. taskq_capacity \in Nat \ {0} /\ taskq_front \in Indices /\ taskq_size \in Nat /\ i \in Nat
  BY PoolAssumption DEF TypeOK
<1>. QED  BY <1>1 DEF Occupied

LEMMA RingStores ==
  ASSUME TypeOK, TypeOK', Ring, taskq_size # taskq_capacity,
         taskq_rear' = (taskq_rear + 1) % taskq_capacity, taskq_size' = taskq_size + 1,
         taskq_front' = taskq_front
  PROVE  /\ taskq_rear' = Wrap(taskq_front + taskq_size)' /\ ~Occupied(taskq_rear)
         /\ \A i \in Indices : Occupied(i)' <=> (Occupied(i) \/ i = taskq_rear)
<1>0. taskq_capacity \in Nat \ {0} /\ taskq_rear \in Indices
  BY PoolAssumption DEF TypeOK
<1>1. taskq_rear' = IF taskq_rear + 1 = taskq_capacity THEN 0 ELSE taskq_rear + 1
  BY <1>0, RingStep
<1>2. ASSUME NEW i \in Indices
      PROVE  /\ Occupied(i)  <=> \/ taskq_front <= i /\ i < taskq_front + taskq_size
                                 \/ i + taskq_capacity < taskq_front + taskq_size
             /\ Occupied(i)' <=> \/ taskq_front' <= i /\ i < taskq_front' + taskq_size'
                                 \/ i + taskq_capacity < taskq_front' + taskq_size'
  <2>1. /\ taskq_capacity \in Nat \ {0} /\ i \in Nat
        /\ taskq_front' \in Indices /\ taskq_size' \in Nat
    BY <1>0 DEF TypeOK
  <2>. QED  BY <2>1, OccupiedIs DEF Occupied
<1>3. /\ taskq_front \in 0 .. taskq_capacity - 1 /\ taskq_size \in 0 .. taskq_capacity - 1
      /\ taskq_rear = IF taskq_front + taskq_size < taskq_capacity
                      THEN taskq_front + taskq_size ELSE taskq_front + taskq_size - taskq_capacity
  BY <1>0 DEF TypeOK, Ring, Wrap
<1>4. taskq_rear' = Wrap(taskq_front + taskq_size)'
  BY <1>0, <1>1, <1>3 DEF Wrap
<1>5. ~Occupied(taskq_rear)
  BY <1>0, <1>2, <1>3
<1>6. \A i \in Indices : Occupied(i)' <=> (Occupied(i) \/ i = taskq_rear)
  BY <1>0, <1>2, <1>3
<1>. QED  BY <1>4, <1>5, <1>6

LEMMA RingTakes ==
  ASSUME TypeOK, TypeOK', Ring, taskq_size > 0,
         taskq_front' = (taskq_front + 1) % taskq_capacity, taskq_size' = taskq_size - 1,
         taskq_rear' = taskq_rear
  PROVE  /\ taskq_rear' = Wrap(taskq_front + taskq_size)' /\ Occupied(taskq_front)
         /\ \A i \in Indices : Occupied(i)' <=> (Occupied(i) /\ i # taskq_front)
<1>0. taskq_capacity \in Nat \ {0} /\ taskq_front \in Indices
  BY PoolAssumption DEF TypeOK
<1>1. taskq_front' = IF taskq_front + 1 = taskq_capacity THEN 0 ELSE taskq_front + 1
  BY <1>0, RingStep
<1>2. ASSUME NEW i \in Indices
      PROVE  /\ Occupied(i)  <=> \/ taskq_front <= i /\ i < taskq_front + taskq_size
                                 \/ i + taskq_capacity < taskq_front + taskq_size
             /\ Occupied(i)' <=> \/ taskq_front' <= i /\ i < taskq_front' + taskq_size'
                                 \/ i + taskq_capacity < taskq_front' + taskq_size'
  <2>1. /\ taskq_capacity \in Nat \ {0} /\ i \in Nat
        /\ taskq_front' \in Indices /\ taskq_size' \in Nat
    BY <1>0 DEF TypeOK
  <2>. QED  BY <2>1, OccupiedIs DEF Occupied
<1>3. /\ taskq_front \in 0 .. taskq_capacity - 1 /\ taskq_size \in 1 .. taskq_capacity
      /\ taskq_rear = IF taskq_front + taskq_size < taskq_capacity
                      THEN taskq_front + taskq_size ELSE taskq_front + taskq_size - taskq_capacity
  BY <1>0 DEF TypeOK, Ring, Wrap
<1>4. taskq_rear' = Wrap(taskq_front + taskq_size)'
  BY <1>0, <1>1, <1>3 DEF Wrap
<1>5. Occupied(taskq_front)
  BY <1>0, <1>2, <1>3
<1>6. \A i \in Indices : Occupied(i)' <=> (Occupied(i) /\ i # taskq_front)
  BY <1>0, <1>1, <1>2, <1>3
<1>. QED  BY <1>4, <1>5, <1>6

LEMMA HeldNext == TypeOK /\ Held /\ Ring /\ [Next]_vars => Held' /\ Ring'
<1> SUFFICES ASSUME TypeOK, TypeOK', Held, Ring, [Next]_vars PROVE Held' /\ Ring'
  BY TypeStep
<1> USE NameAssumption DEF Held, KeepsIdle, KeepsBusy
<1>0. ASSUME UNCHANGED queueVars PROVE Ring'
  BY <1>0 DEF queueVars, Ring, Wrap, Occupied
<1>1. CASE Quiet
  <2>1. Held'
    BY <1>1 DEF Quiet, HasTask
  <2>. QED  BY <1>0, <1>1, <2>1 DEF Quiet
<1>a. ASSUME NEW p \in Producers, UNCHANGED task, KeepsBusy(Slots), KeepsIdle(Producers \ {p}),
             NEW t, arg' = [arg EXCEPT ![p] = t], t = Nothing <=> ppc'[p] = "idle"
      PROVE  Held'
  <2>1. \A q \in Producers : arg'[q] = IF q = p THEN t ELSE arg[q]
    BY <1>a DEF TypeOK
  <2>2. \A q \in Producers : arg'[q] = Nothing <=> ppc'[q] = "idle"
    BY <1>a, <2>1
  <2>3. \A w \in Slots : task'[w] = Nothing <=> ~HasTask(w)'
    BY <1>a
  <2>. QED  BY <2>2, <2>3
<1>b. ASSUME NEW w \in Slots, UNCHANGED arg, KeepsIdle(Producers), KeepsBusy(Slots \ {w}),
             NEW t, task' = [task EXCEPT ![w] = t], t = Nothing <=> ~HasTask(w)'
      PROVE  Held'
  <2>1. \A v \in Slots : task'[v] = IF v = w THEN t ELSE task[v]
    BY <1>b DEF TypeOK
  <2>2. \A v \in Slots : task'[v] = Nothing <=> ~HasTask(v)'
    BY <1>b, <2>1
  <2>3. \A q \in Producers : arg'[q] = Nothing <=> ppc'[q] = "idle"
    BY <1>b
  <2>. QED  BY <2>2, <2>3
<1>2. ASSUME NEW p \in Producers, NEW t \in Tasks, Submits(p, t) PROVE Held' /\ Ring'
  <2>1. Held'
    BY <1>a, <1>2 DEF Submits
  <2>. QED  BY <1>0, <1>2, <2>1 DEF Submits
<1>3. ASSUME NEW p \in Producers, Refuses(p) PROVE Held' /\ Ring'
  <2>1. Held'
    BY <1>a, <1>3 DEF Refuses
  <2>. QED  BY <1>0, <1>3, <2>1 DEF Refuses
<1>4. ASSUME NEW p \in Producers, Stores(p) PROVE Held' /\ Ring'
  <2>1. Held'
    BY <1>a, <1>4 DEF Stores
  <2>2. /\ taskq_rear' = Wrap(taskq_front + taskq_size)' /\ ~Occupied(taskq_rear)
        /\ \A i \in Indices : Occupied(i)' <=> (Occupied(i) \/ i = taskq_rear)
    BY <1>4, RingStores DEF Stores
  <2>3. arg[p] \in Tasks /\ \A i \in Indices : task_queue'[i] = IF i = taskq_rear THEN arg[p] ELSE task_queue[i]
    BY <1>4 DEF Stores, TypeOK
  <2>. QED  BY <2>1, <2>2, <2>3 DEF Ring
<1>5. ASSUME NEW w \in Slots, Takes(w) PROVE Held' /\ Ring'
  <2>1. /\ taskq_rear' = Wrap(taskq_front + taskq_size)' /\ Occupied(taskq_front)
        /\ \A i \in Indices : Occupied(i)' <=> (Occupied(i) /\ i # taskq_front)
    BY <1>5, RingTakes DEF Takes
  <2>2. task_queue[taskq_front] \in Tasks /\ task_queue' = task_queue
    BY <1>5, <2>1 DEF Takes, Ring, TypeOK
  <2>3. Held'
    BY <1>5, <1>b, <2>2 DEF Takes
  <2>. QED  BY <2>1, <2>2, <2>3 DEF Ring
<1>6. ASSUME NEW w \in Slots, Runs(w) PROVE Held' /\ Ring'
  <2>1. Held'
    BY <1>6, <1>b DEF Runs
  <2>. QED  BY <1>0, <1>6, <2>1 DEF Runs
<1>. QED  BY <1>1, <1>2, <1>3, <1>4, <1>5, <1>6, TaskSteps

-----------------------------------------------------------------------------
(* Each task is in one place *)

Caller(t, p) == arg[p] = t
Cell(t, i)   == Occupied(i) /\ task_queue[i] = t
Holder(t, w) == task[w] = t

AtMostOne(t) ==
  /\ \A p, q \in Producers : Caller(t, p) /\ Caller(t, q) => p = q
  /\ \A i, j \in Indices : Cell(t, i) /\ Cell(t, j) => i = j
  /\ \A v, w \in Slots : Holder(t, v) /\ Holder(t, w) => v = w
  /\ runs[t] \in {0, 1}
  /\ t \in fresh => /\ \A p \in Producers : ~Caller(t, p)
                    /\ \A i \in Indices : ~Cell(t, i)
                    /\ \A w \in Slots : ~Holder(t, w)
                    /\ runs[t] = 0
  /\ \A p \in Producers : Caller(t, p) => /\ runs[t] = 0
                                          /\ \A i \in Indices : ~Cell(t, i)
                                          /\ \A w \in Slots : ~Holder(t, w)
  /\ \A i \in Indices : Cell(t, i) => (\A w \in Slots : ~Holder(t, w)) /\ runs[t] = 0
  /\ \A w \in Slots : Holder(t, w) => runs[t] = 0
Somewhere(t) ==
  \/ t \in fresh
  \/ \E p \in Producers : Caller(t, p)
  \/ \E i \in Indices : Cell(t, i)
  \/ \E w \in Slots : Holder(t, w)
  \/ runs[t] = 1
Placed == \A t \in Tasks : AtMostOne(t) /\ (~shutdown => Somewhere(t))

TaskInv == TypeOK /\ Held /\ Ring /\ Placed

LEMMA PlacedIsOnePlace ==
  ASSUME TypeOK, Placed
  PROVE  OnePlace
<1> SUFFICES ASSUME NEW t \in Tasks
             PROVE  (\A a, b \in Places(t) : a = b) /\ (~shutdown => Places(t) # {})
  BY DEF OnePlace
<1>0. AtMostOne(t) /\ (~shutdown => Somewhere(t))
  BY DEF Placed
<1>1. \A x : x \in Places(t) <=>
        \/ t \in fresh /\ x = <<"fresh">>
        \/ \E p \in Producers : Caller(t, p) /\ x = <<"caller", p>>
        \/ \E i \in Indices : Cell(t, i) /\ x = <<"queue", i>>
        \/ \E w \in Slots : Holder(t, w) /\ x = <<"worker", w>>
        \/ \E m \in 1 .. runs[t] : x = <<"run", m>>
  BY DEF Places, Caller, Cell, Holder
<1>2. runs[t] \in {0, 1} /\ \A m \in 1 .. runs[t] : m = 1 /\ runs[t] = 1
  BY <1>0 DEF AtMostOne
<1>3. runs[t] = 1 => 1 \in 1 .. runs[t]
  OBVIOUS
<1>4. \A x : x \in Places(t) <=>
        \/ t \in fresh /\ x = <<"fresh">>
        \/ \E p \in Producers : Caller(t, p) /\ x = <<"caller", p>>
        \/ \E i \in Indices : Cell(t, i) /\ x = <<"queue", i>>
        \/ \E w \in Slots : Holder(t, w) /\ x = <<"worker", w>>
        \/ runs[t] = 1 /\ x = <<"run", 1>>
  BY <1>1, <1>2, <1>3
<1>5. ASSUME NEW a \in Places(t), NEW b \in Places(t) PROVE a = b
  <2>1. CASE t \in fresh
    BY <1>0, <1>4, <2>1 DEF AtMostOne
  <2>2. CASE \E p \in Producers : Caller(t, p)
    <3>1. PICK p \in Producers : Caller(t, p)
      BY <2>2
    <3>2. /\ t \notin fresh /\ runs[t] = 0
          /\ \A q \in Producers : Caller(t, q) => q = p
          /\ \A i \in Indices : ~Cell(t, i)
          /\ \A w \in Slots : ~Holder(t, w)
      BY <1>0, <3>1 DEF AtMostOne
    <3>3. \A x : x \in Places(t) => x = <<"caller", p>>
      BY <1>4, <3>2
    <3>. QED  BY <3>3
  <2>3. CASE \E i \in Indices : Cell(t, i)
    <3>1. PICK i \in Indices : Cell(t, i)
      BY <2>3
    <3>2. a = <<"queue", i>>
      BY <1>0, <1>4, <3>1 DEF AtMostOne
    <3>3. b = <<"queue", i>>
      BY <1>0, <1>4, <3>1 DEF AtMostOne
    <3>. QED  BY <3>2, <3>3
  <2>4. CASE \E w \in Slots : Holder(t, w)
    <3>1. PICK w \in Slots : Holder(t, w)
      BY <2>4
    <3>2. a = <<"worker", w>>
      BY <1>0, <1>4, <3>1 DEF AtMostOne
    <3>3. b = <<"worker", w>>
      BY <1>0, <1>4, <3>1 DEF AtMostOne
    <3>. QED  BY <3>2, <3>3
  <2>5. CASE runs[t] = 1
    BY <1>0, <1>4, <2>5 DEF AtMostOne
  <2>6. \/ t \in fresh \/ runs[t] = 1
        \/ \E p \in Producers : Caller(t, p)
        \/ \E i \in Indices : Cell(t, i)
        \/ \E w \in Slots : Holder(t, w)
    BY <1>4
  <2>. QED  BY <2>1, <2>2, <2>3, <2>4, <2>5, <2>6
<1>6. ~shutdown => Places(t) # {}
  BY <1>0, <1>4 DEF Somewhere
<1>. QED  BY <1>5, <1>6

LEMMA PlacedNext == TaskInv /\ [Next]_vars => Placed'
<1> SUFFICES ASSUME TaskInv, TypeOK', [Next]_vars, NEW t \in Tasks
             PROVE  AtMostOne(t)' /\ (~shutdown' => Somewhere(t)')
  BY TypeStep DEF TaskInv, Placed
<1> USE DEF TaskInv
<1>0. AtMostOne(t) /\ (~shutdown => Somewhere(t)) /\ t # Nothing /\ runs[t] \in Nat
  BY NameAssumption DEF Placed, TypeOK
<1>1. ASSUME UNCHANGED <<queueVars, task, arg, fresh, runs>>, shutdown => shutdown'
      PROVE  AtMostOne(t)' /\ (~shutdown' => Somewhere(t)')
  BY <1>0, <1>1 DEF AtMostOne, Somewhere, Caller, Cell, Holder, Occupied, queueVars
<1>2. ASSUME UNCHANGED queueVars
      PROVE  \A i \in Indices : Cell(t, i)' <=> Cell(t, i)
  BY <1>2 DEF Cell, Occupied, queueVars
<1>3. ASSUME NEW p \in Producers, NEW s \in Tasks, Submits(p, s)
      PROVE  AtMostOne(t)' /\ (~shutdown' => Somewhere(t)')
  <2>1. arg[p] = Nothing
    BY <1>3 DEF Held, Submits
  <2>2. /\ \A q \in Producers : Caller(t, q)' <=> (IF q = p THEN t = s ELSE Caller(t, q))
        /\ \A w \in Slots : Holder(t, w)' <=> Holder(t, w)
        /\ \A i \in Indices : Cell(t, i)' <=> Cell(t, i)
        /\ t \in fresh' <=> (t \in fresh /\ t # s)
        /\ runs' = runs /\ shutdown' = shutdown /\ s \in fresh /\ ~Caller(t, p)
    BY <1>0, <1>2, <1>3, <2>1 DEF Submits, Caller, Holder, TypeOK
  <2>. QED  BY <1>0, <2>2 DEF AtMostOne, Somewhere
<1>4. ASSUME NEW p \in Producers, Refuses(p)
      PROVE  AtMostOne(t)' /\ (~shutdown' => Somewhere(t)')
  <2>1. /\ \A q \in Producers : Caller(t, q)' => Caller(t, q)
        /\ \A w \in Slots : Holder(t, w)' <=> Holder(t, w)
        /\ \A i \in Indices : Cell(t, i)' <=> Cell(t, i)
        /\ UNCHANGED <<fresh, runs>> /\ shutdown'
    BY <1>0, <1>2, <1>4 DEF Refuses, Caller, Holder, TypeOK
  <2>. QED  BY <1>0, <2>1 DEF AtMostOne
<1>5. ASSUME NEW p \in Producers, Stores(p)
      PROVE  AtMostOne(t)' /\ (~shutdown' => Somewhere(t)')
  <2>1. taskq_rear \in Indices /\ arg[p] \in Tasks
    BY <1>5 DEF Stores, Held, TypeOK
  <2>2. /\ ~Occupied(taskq_rear)
        /\ \A i \in Indices : Occupied(i)' <=> (Occupied(i) \/ i = taskq_rear)
    BY <1>5, RingStores DEF Stores
  <2>3. \A i \in Indices : Cell(t, i)' <=> (IF i = taskq_rear THEN Caller(t, p) ELSE Cell(t, i))
    BY <1>5, <2>1, <2>2 DEF Stores, Cell, Caller, TypeOK
  <2>4. /\ \A q \in Producers : Caller(t, q)' <=> (Caller(t, q) /\ q # p)
        /\ \A w \in Slots : Holder(t, w)' <=> Holder(t, w)
        /\ UNCHANGED <<fresh, runs, shutdown>> /\ ~Cell(t, taskq_rear)
    BY <1>0, <1>5, <2>2 DEF Stores, Caller, Cell, Holder, TypeOK
  <2>5. CASE Caller(t, p)
    <3>0. /\ \A q \in Producers : Caller(t, q) => q = p
          /\ \A i \in Indices : ~Cell(t, i)
          /\ \A w \in Slots : ~Holder(t, w)
          /\ t \notin fresh /\ runs[t] = 0
      BY <1>0, <2>5 DEF AtMostOne
    <3>1. /\ \A q \in Producers : ~Caller(t, q)'
          /\ \A i \in Indices : Cell(t, i)' <=> i = taskq_rear
          /\ \A w \in Slots : ~Holder(t, w)'
          /\ t \notin fresh' /\ runs'[t] = 0
      BY <2>3, <2>4, <2>5, <3>0
    <3>. QED  BY <2>1, <3>1 DEF AtMostOne, Somewhere
  <2>6. CASE ~Caller(t, p)
    <3>1. /\ \A q \in Producers : Caller(t, q)' <=> Caller(t, q)
          /\ \A i \in Indices : Cell(t, i)' <=> Cell(t, i)
      BY <2>3, <2>4, <2>6
    <3>. QED  BY <1>0, <2>4, <3>1 DEF AtMostOne, Somewhere
  <2>. QED  BY <2>5, <2>6
<1>6. ASSUME NEW w \in Slots, Takes(w)
      PROVE  AtMostOne(t)' /\ (~shutdown' => Somewhere(t)')
  <2>1. taskq_front \in Indices
    BY DEF TypeOK
  <2>2. /\ Occupied(taskq_front)
        /\ \A i \in Indices : Occupied(i)' <=> (Occupied(i) /\ i # taskq_front)
    BY <1>6, RingTakes DEF Takes
  <2>3. \A i \in Indices : Cell(t, i)' <=> (Cell(t, i) /\ i # taskq_front)
    BY <1>6, <2>2 DEF Takes, Cell
  <2>4. ~Holder(t, w)
    BY <1>0, <1>6 DEF Takes, Held, Holder
  <2>5. /\ \A v \in Slots : Holder(t, v)' <=> (IF v = w THEN Cell(t, taskq_front) ELSE Holder(t, v))
        /\ \A q \in Producers : Caller(t, q)' <=> Caller(t, q)
        /\ UNCHANGED <<fresh, runs, shutdown>>
    BY <1>6, <2>1, <2>2 DEF Takes, Caller, Cell, Holder, TypeOK
  <2>. QED  BY <1>0, <2>1, <2>3, <2>4, <2>5 DEF AtMostOne, Somewhere
<1>7. ASSUME NEW w \in Slots, Runs(w)
      PROVE  AtMostOne(t)' /\ (~shutdown' => Somewhere(t)')
  <2>1. task[w] \in Tasks
    BY <1>7 DEF Runs, Held, TypeOK
  <2>2. /\ \A v \in Slots : Holder(t, v)' <=> (Holder(t, v) /\ v # w)
        /\ \A q \in Producers : Caller(t, q)' <=> Caller(t, q)
        /\ \A i \in Indices : Cell(t, i)' <=> Cell(t, i)
        /\ UNCHANGED <<fresh, shutdown>>
    BY <1>0, <1>2, <1>7 DEF Runs, Caller, Holder, TypeOK
  <2>3. runs'[t] = IF Holder(t, w) THEN runs[t] + 1 ELSE runs[t]
    BY <1>7, <2>1 DEF Runs, Holder, TypeOK
  <2>4. CASE Holder(t, w)
    <3>1. runs[t] = 0 /\ runs'[t] = 1
      BY <1>0, <2>3, <2>4 DEF AtMostOne
    <3>. QED  BY <1>0, <2>2, <2>4, <3>1 DEF AtMostOne, Somewhere
  <2>5. CASE ~Holder(t, w)
    <3>1. runs'[t] = runs[t]
      BY <2>3, <2>5
    <3>. QED  BY <1>0, <2>2, <2>5, <3>1 DEF AtMostOne, Somewhere
  <2>. QED  BY <2>4, <2>5
<1>. QED  BY <1>1, <1>3, <1>4, <1>5, <1>6, <1>7, TaskSteps DEF Quiet
LEMMA TaskInit == Init => TaskInv
<1> SUFFICES ASSUME Init PROVE Held /\ Ring /\ Placed
  BY TypeInit DEF TaskInv
<1> USE DEF Init
<1>0. taskq_capacity \in Nat \ {0} /\ TypeOK
  BY PoolAssumption, TypeInit
<1>1. Held
  BY DEF Held, HasTask
<1>2. \A i \in Indices : ~Occupied(i)
  BY <1>0, OccupiedIs
<1>3. Ring
  BY <1>0, <1>2 DEF Ring, Wrap
<1>4. ASSUME NEW t \in Tasks PROVE AtMostOne(t) /\ Somewhere(t)
  BY <1>2, <1>4, NameAssumption DEF AtMostOne, Somewhere, Caller, Cell, Holder
<1>. QED  BY <1>1, <1>3, <1>4 DEF Placed

\* Whatever the threads do, a call of threadpool_addtask stays in one place:
\* with its caller, in one cell of the ring, with one worker, or executed once.
THEOREM EachTaskInOnePlace == Spec => []OnePlace
<1>1. TaskInv /\ [Next]_vars => TaskInv'
  BY TypeStep, HeldNext, PlacedNext DEF TaskInv
<1>2. TaskInv => OnePlace
  BY PlacedIsOnePlace DEF TaskInv
<1>. QED  BY TaskInit, <1>1, <1>2, PTL DEF Spec

-----------------------------------------------------------------------------
(* The pool implements TaskPool *)

\* The index of the k-th oldest task in the array.
Nth(k) == Wrap(taskq_front + k - 1)

\* Pending is a sequence of tasks, read off the occupied part of the ring.
InOrder ==
  /\ Pending \in Seq(Tasks) /\ Len(Pending) = taskq_size
  /\ \A k \in 1 .. taskq_size : /\ Nth(k) \in Indices /\ Occupied(Nth(k))
                                /\ Pending[k] = task_queue[Nth(k)]
LEMMA PendingIs == TypeOK /\ Ring => InOrder
<1> SUFFICES ASSUME TypeOK, Ring PROVE InOrder
  OBVIOUS
<1>0. /\ taskq_capacity \in Nat \ {0} /\ taskq_front \in Indices
      /\ taskq_size \in 0 .. taskq_capacity
  BY PoolAssumption DEF TypeOK
<1>1. ASSUME NEW k \in 1 .. taskq_size
      PROVE  /\ Nth(k) \in Indices /\ Occupied(Nth(k))
             /\ (taskq_front + k - 1) % taskq_capacity = Nth(k)
  <2>1. CASE taskq_front + k - 1 < taskq_capacity
    <3>1. Nth(k) = taskq_front + k - 1 /\ Nth(k) \in Indices
      BY <1>0, <2>1 DEF Nth, Wrap
    <3>2. (taskq_front + k - 1) % taskq_capacity = taskq_front + k - 1
      BY <1>0, <2>1
    <3>. QED  BY <1>0, <3>1, <3>2, OccupiedIs
  <2>2. CASE taskq_front + k - 1 >= taskq_capacity
    <3>1. /\ Nth(k) = taskq_front + k - 1 - taskq_capacity /\ Nth(k) \in Indices
      BY <1>0, <2>2 DEF Nth, Wrap
    <3>2. (taskq_front + k - 1) % taskq_capacity = taskq_front + k - 1 - taskq_capacity
      BY <1>0, <2>2
    <3>. QED  BY <1>0, <3>1, <3>2, OccupiedIs
  <2>. QED  BY <1>0, <2>1, <2>2
<1>2. Pending \in [1 .. taskq_size -> Tasks]
  BY <1>1 DEF Pending, Ring
<1>3. Pending \in Seq(Tasks) /\ Len(Pending) = taskq_size
  BY <1>0, <1>2, SeqDef
<1>. QED  BY <1>1, <1>3 DEF Pending, InOrder

LEMMA PendingIsNext == TypeOK' /\ Ring' => InOrder'
BY PendingIs, PTL

LEMMA PendingStays ==
  ASSUME UNCHANGED queueVars
  PROVE  Pending' = Pending
BY DEF Pending, queueVars

LEMMA StoreAppends ==
  ASSUME TypeOK, TypeOK', Ring, Ring', NEW p \in Producers, arg[p] \in Tasks, Stores(p)
  PROVE  Pending' = Append(Pending, arg[p]) /\ Len(Pending) < taskq_capacity
<1>0. /\ taskq_capacity \in Nat \ {0} /\ taskq_front \in Indices
      /\ taskq_size \in 0 .. taskq_capacity - 1 /\ taskq_rear \in Indices
      /\ taskq_size' = taskq_size + 1 /\ taskq_front' = taskq_front
  BY PoolAssumption DEF TypeOK, Stores
<1>1. ~Occupied(taskq_rear)
  BY RingStores DEF Stores
<1>2. \A i \in Indices : task_queue'[i] = IF i = taskq_rear THEN arg[p] ELSE task_queue[i]
  BY DEF Stores, TypeOK
<1>3. /\ Pending \in Seq(Tasks) /\ Len(Pending) = taskq_size
      /\ \A k \in 1 .. taskq_size : /\ Nth(k) \in Indices /\ Occupied(Nth(k))
                                    /\ Pending[k] = task_queue[Nth(k)]
  BY PendingIs DEF InOrder
<1>4. /\ Pending' \in Seq(Tasks) /\ Len(Pending') = taskq_size + 1
      /\ \A k \in 1 .. taskq_size + 1 : Pending'[k] = task_queue'[Nth(k)]
  <2>1. \A k \in 1 .. taskq_size + 1 : Nth(k)' = Nth(k)
    BY <1>0 DEF Nth, Wrap
  <2>. QED  BY <1>0, <2>1, PendingIsNext DEF InOrder
<1>5. Nth(taskq_size + 1) = taskq_rear
  BY <1>0 DEF Nth, Wrap, Ring
<1>6. Append(Pending, arg[p]) \in Seq(Tasks) /\ Len(Append(Pending, arg[p])) = taskq_size + 1
  BY <1>3
<1>7. ASSUME NEW k \in 1 .. taskq_size + 1 PROVE Pending'[k] = Append(Pending, arg[p])[k]
  <2>1. CASE k = taskq_size + 1
    <3>1. Append(Pending, arg[p])[k] = arg[p]
      BY <1>3, <2>1
    <3>2. Pending'[k] = task_queue'[taskq_rear]
      BY <1>4, <1>5, <2>1
    <3>3. task_queue'[taskq_rear] = arg[p]
      BY <1>0, <1>2
    <3>. QED  BY <3>1, <3>2, <3>3, Zenon
  <2>2. CASE k \in 1 .. taskq_size
    <3>1. Nth(k) # taskq_rear /\ Nth(k) \in Indices
      BY <1>1, <1>3, <2>2
    <3>2. Append(Pending, arg[p])[k] = Pending[k]
      BY <1>3, <2>2
    <3>. QED  BY <1>2, <1>3, <1>4, <2>2, <3>1, <3>2
  <2>3. k = taskq_size + 1 \/ k \in 1 .. taskq_size
    BY <1>0
  <2>. QED  BY <2>1, <2>2, <2>3, Zenon
<1>8. Pending' = Append(Pending, arg[p])
  BY <1>4, <1>6, <1>7, SeqEqual
<1>. QED  BY <1>0, <1>3, <1>8

LEMMA TakeRemovesOldest ==
  ASSUME TypeOK, TypeOK', Ring, Ring', NEW w \in Slots, Takes(w)
  PROVE  /\ Pending # <<>> /\ Head(Pending) = task_queue[taskq_front]
         /\ Pending' = Tail(Pending)
<1>0. /\ taskq_capacity \in Nat \ {0} /\ taskq_front \in Indices
      /\ taskq_size \in 1 .. taskq_capacity
      /\ taskq_size' = taskq_size - 1 /\ task_queue' = task_queue
      /\ taskq_front' = IF taskq_front + 1 = taskq_capacity THEN 0 ELSE taskq_front + 1
  BY PoolAssumption, RingStep DEF TypeOK, Takes
<1>1. /\ Pending \in Seq(Tasks) /\ Len(Pending) = taskq_size
      /\ \A k \in 1 .. taskq_size : Pending[k] = task_queue[Nth(k)]
  BY PendingIs DEF InOrder
<1>2. /\ Pending' \in Seq(Tasks) /\ Len(Pending') = taskq_size - 1
      /\ \A k \in 1 .. taskq_size - 1 : Pending'[k] = task_queue[Nth(k + 1)]
  <2>1. \A k \in 1 .. taskq_size - 1 : Nth(k)' = Nth(k + 1)
    BY <1>0 DEF Nth, Wrap
  <2>. QED  BY <1>0, <2>1, PendingIsNext DEF InOrder
<1>3. Nth(1) = taskq_front
  BY <1>0 DEF Nth, Wrap
<1>4. Pending # <<>> /\ Head(Pending) = task_queue[taskq_front]
  BY <1>0, <1>1, <1>3
<1>5. /\ Tail(Pending) \in Seq(Tasks) /\ Len(Tail(Pending)) = taskq_size - 1
      /\ \A k \in 1 .. taskq_size - 1 : Tail(Pending)[k] = Pending[k + 1]
  BY <1>1, <1>4, HeadTailProperties
<1>6. \A k \in 1 .. taskq_size - 1 : Pending'[k] = Tail(Pending)[k]
  BY <1>0, <1>1, <1>2, <1>5
<1>7. Pending' = Tail(Pending)
  BY <1>2, <1>5, <1>6, SeqEqual
<1>. QED  BY <1>4, <1>7

LEMMA AbstractInit == Init => Abstract!Init
<1> SUFFICES ASSUME Init PROVE Abstract!Init
  OBVIOUS
<1> USE DEF Init
<1>1. Pending = <<>>
  BY DEF Pending
<1>2. /\ {arg[p] : p \in Producers} \ {Nothing} = {}
      /\ {task[w] : w \in Slots} \ {Nothing} = {}
      /\ {t \in Tasks : runs[t] > 0} = {}
  OBVIOUS
<1>. QED  BY <1>1, <1>2 DEF Abstract!Init

Submitted == fresh \cup ({arg[p] : p \in Producers} \ {Nothing})
InHand    == {task[w] : w \in Slots} \ {Nothing}
Done      == {t \in Tasks : runs[t] > 0}

LEMMA AbstractNext ==
  ASSUME TaskInv, TaskInv', [Next]_vars
  PROVE  [Abstract!Next]_Abstract!vars
<1> USE DEF TaskInv
<1>0. /\ \A x : x \in Submitted <=> x \in fresh \/ (x # Nothing /\ \E q \in Producers : arg[q] = x)
      /\ \A x : x \in Submitted' <=> x \in fresh' \/ (x # Nothing /\ \E q \in Producers : arg'[q] = x)
      /\ \A x : x \in InHand <=> x # Nothing /\ \E v \in Slots : task[v] = x
      /\ \A x : x \in InHand' <=> x # Nothing /\ \E v \in Slots : task'[v] = x
  BY DEF Submitted, InHand
<1>1. CASE Quiet
  <2>1. UNCHANGED <<Submitted, Pending, InHand, Done>>
    BY <1>1, PendingStays DEF Quiet, Submitted, InHand, Done
  <2>2. CASE shutdown' = shutdown
    BY <2>1, <2>2 DEF Abstract!vars, Submitted, InHand, Done
  <2>3. CASE shutdown' # shutdown
    <3>1. ~shutdown /\ shutdown' = TRUE
      <4>1. shutdown \in BOOLEAN /\ shutdown' \in BOOLEAN /\ (shutdown => shutdown')
        BY <1>1 DEF Quiet, TypeOK
      <4>2. CASE shutdown = TRUE
        <5>1. shutdown' = TRUE
          BY <4>1, <4>2
        <5>. QED  BY <2>3, <4>2, <5>1
      <4>3. CASE shutdown = FALSE
        <5>1. shutdown' = TRUE \/ shutdown' = FALSE
          BY <4>1
        <5>. QED  BY <2>3, <4>3, <5>1
      <4>. QED  BY <4>1, <4>2, <4>3
    <3>. QED  BY <2>1, <3>1 DEF Abstract!Next, Abstract!Close, Submitted, InHand, Done
  <2>. QED  BY <2>2, <2>3
<1>2. ASSUME NEW p \in Producers, NEW t \in Tasks, Submits(p, t)
      PROVE  [Abstract!Next]_Abstract!vars
  <2>1. UNCHANGED <<Pending, InHand, Done, shutdown>>
    BY <1>2, PendingStays DEF Submits, InHand, Done
  <2>2. /\ arg[p] = Nothing /\ t # Nothing /\ t \in fresh /\ fresh' = fresh \ {t}
        /\ \A q \in Producers : arg'[q] = IF q = p THEN t ELSE arg[q]
    BY <1>2, NameAssumption DEF Submits, Held, TypeOK
  <2>3. Submitted' = Submitted
    <3>1. \A x : x \in Submitted' <=> x \in Submitted
      BY <1>0, <2>2
    <3>. QED  BY <3>1 DEF Submitted
  <2>. QED  BY <2>1, <2>3 DEF Abstract!vars, Submitted, InHand, Done
<1>3. ASSUME NEW p \in Producers, arg' = [arg EXCEPT ![p] = Nothing], fresh' = fresh, ppc[p] # "idle"
      PROVE  \E t \in Tasks : t = arg[p] /\ t \in Submitted /\ Submitted' = Submitted \ {t}
  <2>1. PICK t \in Tasks : t = arg[p]
    BY <1>3 DEF Held, TypeOK
  <2>2. AtMostOne(t) /\ Caller(t, p) /\ t # Nothing
    BY <2>1, NameAssumption DEF Placed, Caller
  <2>3. t \notin fresh /\ \A q \in Producers : arg[q] = t => q = p
    BY <2>2 DEF AtMostOne, Caller
  <2>4. \A q \in Producers : arg'[q] = IF q = p THEN Nothing ELSE arg[q]
    BY <1>3 DEF TypeOK
  <2>5. \A x : x \in Submitted' <=> x \in Submitted \ {t}
    BY <1>0, <1>3, <2>1, <2>2, <2>3, <2>4
  <2>6. t \in Submitted
    BY <1>0, <2>1, <2>2
  <2>7. Submitted' = Submitted \ {t}
    BY <2>5
  <2>. QED  BY <2>1, <2>6, <2>7
<1>4. ASSUME NEW p \in Producers, Refuses(p) PROVE [Abstract!Next]_Abstract!vars
  <2>1. UNCHANGED <<Pending, InHand, Done, shutdown>> /\ shutdown
    BY <1>4, PendingStays DEF Refuses, InHand, Done
  <2>2. PICK t \in Tasks : t = arg[p] /\ t \in Submitted /\ Submitted' = Submitted \ {t}
    BY <1>3, <1>4 DEF Refuses
  <2>3. Abstract!Refuse(t)
    BY <2>1, <2>2 DEF Abstract!Refuse, Submitted, InHand, Done
  <2>. QED  BY <2>3 DEF Abstract!Next
<1>5. ASSUME NEW p \in Producers, Stores(p) PROVE [Abstract!Next]_Abstract!vars
  <2>1. UNCHANGED <<InHand, Done, shutdown>> /\ ~shutdown
    BY <1>5 DEF Stores, InHand, Done
  <2>2. PICK t \in Tasks : t = arg[p] /\ t \in Submitted /\ Submitted' = Submitted \ {t}
    BY <1>3, <1>5 DEF Stores
  <2>3. Pending' = Append(Pending, t) /\ Len(Pending) < taskq_capacity
    BY <1>5, <2>2, StoreAppends
  <2>4. Abstract!Accept(t)
    BY <2>1, <2>2, <2>3 DEF Abstract!Accept, Submitted, InHand, Done
  <2>. QED  BY <2>4 DEF Abstract!Next
<1>6. ASSUME NEW w \in Slots, Takes(w) PROVE [Abstract!Next]_Abstract!vars
  <2>1. UNCHANGED <<Submitted, Done, shutdown>> /\ ~shutdown
    BY <1>6 DEF Takes, Submitted, Done
  <2>2. /\ Pending # <<>> /\ Head(Pending) = task_queue[taskq_front]
        /\ Pending' = Tail(Pending)
    BY <1>6, TakeRemovesOldest
  <2>3. /\ task[w] = Nothing /\ task'[w] # Nothing
        /\ \A v \in Slots : task'[v] = IF v = w THEN Head(Pending) ELSE task[v]
    BY <1>6, <2>2 DEF Takes, Held, TypeOK
  <2>4. InHand' = InHand \cup {Head(Pending)}
    <3>1. \A x : x \in InHand' <=> x \in InHand \cup {Head(Pending)}
      BY <1>0, <2>3
    <3>. QED  BY <3>1
  <2>5. Abstract!Take
    BY <2>1, <2>2, <2>4 DEF Abstract!Take, Submitted, InHand, Done
  <2>. QED  BY <2>5 DEF Abstract!Next
<1>7. ASSUME NEW w \in Slots, Runs(w) PROVE [Abstract!Next]_Abstract!vars
  <2>1. UNCHANGED <<Submitted, Pending, shutdown>>
    BY <1>7, PendingStays DEF Runs, Submitted
  <2>2. PICK t \in Tasks : t = task[w]
    BY <1>7 DEF Runs, Held, TypeOK
  <2>3. AtMostOne(t) /\ Holder(t, w) /\ t # Nothing
    BY <2>2, NameAssumption DEF Placed, Holder
  <2>4. /\ \A v \in Slots : task[v] = t => v = w
        /\ \A v \in Slots : task'[v] = IF v = w THEN Nothing ELSE task[v]
    BY <1>7, <2>3 DEF AtMostOne, Holder, Runs, TypeOK
  <2>5. t \in InHand /\ InHand' = InHand \ {t}
    <3>1. \A x : x \in InHand' <=> x \in InHand \ {t}
      BY <1>0, <2>2, <2>3, <2>4
    <3>. QED  BY <1>0, <2>2, <2>3, <3>1
  <2>6. \A s \in Tasks : runs[s] \in Nat /\ runs'[s] = IF s = t THEN runs[s] + 1 ELSE runs[s]
    BY <1>7, <2>2 DEF Runs, TypeOK
  <2>7. Done' = Done \cup {t}
    <3>1. \A s \in Tasks : runs'[s] > 0 <=> runs[s] > 0 \/ s = t
      BY <2>6
    <3>. QED  BY <3>1 DEF Done
  <2>8. Abstract!Finish(t)
    BY <2>1, <2>5, <2>7 DEF Abstract!Finish, Submitted, InHand, Done
  <2>. QED  BY <2>8 DEF Abstract!Next
<1>. QED  BY <1>1, <1>2, <1>4, <1>5, <1>6, <1>7, TaskSteps

\* The threads, the mutex and the circular array implement one FIFO queue:
\* threadpool_addtask appends to it, workers take its oldest task, and each
\* task taken is executed once.
THEOREM PoolImplementsTaskPool == Spec => ImplementsTaskPool
<1>1. TaskInv /\ [Next]_vars => TaskInv'
  BY TypeStep, HeldNext, PlacedNext DEF TaskInv
<1>2. TaskInv /\ TaskInv' /\ [Next]_vars => [Abstract!Next]_Abstract!vars
  BY AbstractNext
<1>. QED  BY TaskInit, AbstractInit, <1>1, <1>2, PTL DEF Spec, ImplementsTaskPool, Abstract!Spec
=============================================================================

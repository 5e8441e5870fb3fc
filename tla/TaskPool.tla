------------------------------ MODULE TaskPool ------------------------------
(***************************************************************************)
(* What a user of threadpool.h is promised, without threads, locks or      *)
(* indices: tasks enter one bounded FIFO queue, leave it in the order they *)
(* entered it, and each is executed at most once.  ThreadPool implements   *)
(* this specification (see ThreadPool!Abstract).                           *)
(***************************************************************************)
EXTENDS Naturals, Sequences

CONSTANTS
  Tasks,      \* the calls of threadpool_addtask, one element per call
  Capacity    \* how many accepted tasks may wait at once

VARIABLES
  fresh,      \* calls not yet answered
  pending,    \* accepted tasks, oldest first
  running,    \* tasks a thread has taken and not yet completed
  finished,   \* tasks whose callback has returned
  closed      \* threadpool_destroy was called

vars == <<fresh, pending, running, finished, closed>>

Init ==
  /\ fresh = Tasks
  /\ pending = <<>>
  /\ running = {}
  /\ finished = {}
  /\ closed = FALSE

\* A closed pool accepts nothing and starts nothing: what still waits is dropped.
Accept(t) ==
  /\ t \in fresh /\ ~closed
  /\ Len(pending) < Capacity
  /\ fresh' = fresh \ {t}
  /\ pending' = Append(pending, t)
  /\ UNCHANGED <<running, finished, closed>>

\* Only a closed pool turns a task away; an open one makes the caller wait.
Refuse(t) ==
  /\ t \in fresh
  /\ closed
  /\ fresh' = fresh \ {t}
  /\ UNCHANGED <<pending, running, finished, closed>>

Take ==
  /\ pending # <<>> /\ ~closed
  /\ running' = running \cup {Head(pending)}
  /\ pending' = Tail(pending)
  /\ UNCHANGED <<fresh, finished, closed>>

Finish(t) ==
  /\ t \in running
  /\ running' = running \ {t}
  /\ finished' = finished \cup {t}
  /\ UNCHANGED <<fresh, pending, closed>>

Close ==
  /\ ~closed
  /\ closed' = TRUE
  /\ UNCHANGED <<fresh, pending, running, finished>>

Next ==
  \/ \E t \in Tasks : Accept(t) \/ Refuse(t) \/ Finish(t)
  \/ Take
  \/ Close

Spec == Init /\ [][Next]_vars
=============================================================================

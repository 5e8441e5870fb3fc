---------------------------- MODULE ThreadServer -----------------------------
(***************************************************************************)
(* server-multithread.c and server-multithread-reuseaddr.c: a thread for   *)
(* each connection.  It gets a pointer into the ring addr_fd, and loads    *)
(* its descriptor from there for every call.                               *)
(***************************************************************************)
EXTENDS EchoKernel

CONSTANTS
  RING,      \* entries of addr_fd
  Patient    \* TRUE: a client connects only when the entry it will get is not in use

ASSUME ThreadAssumption == RING \in Nat \ {0} /\ Patient \in BOOLEAN

\* Each worker: where it is, its entry, the connection its read waits on, and
\* what it read.  new is the connection main has accepted and not yet handed over.
Idle == [at |-> "none", slot |-> 0, on |-> None, buf |-> <<>>]

ThreadInit ==
  /\ pc = "accept"
  /\ mem = [addr_fd |-> [k \in 0 .. RING - 1 |-> None], i |-> 0, new |-> None,
            worker |-> [c \in Conns |-> Idle]]

ThreadAccept ==
  /\ At({"multithread"}, "accept") /\ pc' = "create"
  /\ \E c \in Conns :
       Accepts(c) /\ mem' = [mem EXCEPT !.addr_fd[mem.i] = NewFd, !.new = c]
  /\ UNCHANGED <<ending, closed, stream>>

\* Mutant: i runs past the end of the ring.
ThreadCreateUnwrapped ==
  /\ At({"multithread"}, "create") /\ pc' = "accept"
  /\ mem' = [mem EXCEPT !.i = @ + 1, !.new = None,
               !.worker[mem.new] = [Idle EXCEPT !.at = "read", !.slot = mem.i]]
  /\ UNCHANGED <<ending, sockets, stream>>

ThreadCreate ==
  /\ At({"multithread"}, "create") /\ pc' = "accept"
  /\ mem' = [mem EXCEPT !.i = (@ + 1) % RING, !.new = None,
               !.worker[mem.new] = [Idle EXCEPT !.at = "read", !.slot = mem.i]]
  /\ UNCHANGED <<ending, sockets, stream>>

-----------------------------------------------------------------------------
WorkerAt(w, where) ==
  program = "multithread" /\ ending = "none" /\ mem.worker[w].at = where
Steps(w, to) == mem' = [mem EXCEPT !.worker[w].at = to] /\ UNCHANGED <<pc, ending>>

EntryFd(w) == mem.addr_fd[mem.worker[w].slot]

\* read is called; it waits on the connection its descriptor stands for now.
WorkerReads(w) ==
  /\ WorkerAt(w, "read") /\ file[EntryFd(w)] # None
  /\ mem' = [mem EXCEPT !.worker[w].at = "blocked", !.worker[w].on = file[EntryFd(w)]]
  /\ UNCHANGED <<pc, ending, sockets, stream>>

WorkerReceives(w) ==
  LET bytes == Arrived(mem.worker[w].on, MAXLINE) IN
  /\ WorkerAt(w, "blocked") /\ Takes(mem.worker[w].on, bytes)
  /\ mem' = [mem EXCEPT !.worker[w].at = "reply", !.worker[w].buf = bytes]
  /\ UNCHANGED <<pc, ending, sockets>>

WorkerEnds(w) ==
  /\ WorkerAt(w, "blocked") /\ AtEnd(mem.worker[w].on) /\ Steps(w, "close")
  /\ UNCHANGED <<sockets, stream>>

\* After an error the write fails too, since read returned -1; then it reads again.
WorkerErrs(w) ==
  /\ WorkerAt(w, "blocked") /\ TakesError(mem.worker[w].on) /\ Steps(w, "read")
  /\ UNCHANGED sockets

\* A descriptor somebody else has closed only makes the write fail.
WorkerWrites(w) ==
  /\ WorkerAt(w, "reply") /\ Steps(w, "read") /\ UNCHANGED sockets
  /\ IF file[EntryFd(w)] = None THEN UNCHANGED stream
     ELSE Writes(file[EntryFd(w)], mem.worker[w].buf)

WorkerKilled(w) ==
  /\ WorkerAt(w, "reply") /\ file[EntryFd(w)] # None /\ Dead(file[EntryFd(w)])
  /\ Ends("SIGPIPE")

WorkerCloses(w) ==
  /\ WorkerAt(w, "close") /\ Steps(w, "done") /\ UNCHANGED stream
  /\ IF file[EntryFd(w)] = None THEN UNCHANGED sockets ELSE Closes(EntryFd(w))

\* The main thread, and the worker started for connection w.
Acceptor == ThreadAccept \/ ThreadCreate
Worker(w) ==
  \/ WorkerReads(w) \/ WorkerReceives(w) \/ WorkerEnds(w) \/ WorkerErrs(w)
  \/ WorkerWrites(w) \/ WorkerKilled(w) \/ WorkerCloses(w)

\* The entry the next connection to arrive will get, and whether it is in use.
Pending == Cardinality(backlog) + (IF mem.new = None THEN 0 ELSE 1)
RingHasRoom ==
  /\ Pending < RING
  /\ \A w \in Conns :
       mem.worker[w].slot # (mem.i + Pending) % RING \/ WorkerAt(w, "none") \/ WorkerAt(w, "done")
=============================================================================

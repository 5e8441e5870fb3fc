---------------------------- MODULE ProcessServer ----------------------------
(***************************************************************************)
(* server-multiprocess.c: a child process for each connection, and a       *)
(* handler of SIGCHLD that reaps them.                                     *)
(***************************************************************************)
EXTENDS EchoKernel

CONSTANT MaxProcs   \* children and zombies the system lets the server have

ASSUME ProcessAssumption == MaxProcs \in Nat \ {0}

\* pending is a SIGCHLD not yet handled, installed whether there is a handler.
\* Each child is none, at read, at reply, a zombie, or reaped.
ProcessInit ==
  /\ pc = "accept"
  /\ mem = [clientfd |-> LISTEN, installed |-> FALSE, pending |-> FALSE, errno |-> "0",
            child |-> [c \in Conns |-> [at |-> "none", buf |-> <<>>]]]

In(where) == {c \in Conns : program = "multiprocess" /\ mem.child[c].at \in where}
Zombies == In({"zombie"})
Running == In({"read", "reply"})

ProcessAccept ==
  /\ At({"multiprocess"}, "accept") /\ \E c \in Conns : Accepts(c)
  /\ mem' = [mem EXCEPT !.clientfd = NewFd] /\ pc' = "fork"
  /\ UNCHANGED <<ending, closed, stream>>

CanFork == Cardinality(Zombies \cup Running) < MaxProcs

Fork ==
  /\ At({"multiprocess"}, "fork") /\ CanFork /\ pc' = "parent"
  /\ mem' = [mem EXCEPT !.child[file[mem.clientfd]].at = "read"]
  /\ UNCHANGED <<ending, sockets, stream>>

ForkFails == At({"multiprocess"}, "fork") /\ ~CanFork /\ Ends("fork error")

\* A connection is closed when neither process has it open any more.
ParentCloses ==
  /\ At({"multiprocess"}, "parent") /\ pc' = "accept"
  /\ file' = [file EXCEPT ![mem.clientfd] = None]
  /\ closed' = closed \cup ({file[mem.clientfd]} \ Running)
  /\ mem' = [mem EXCEPT !.installed = TRUE, !.clientfd = LISTEN]
  /\ UNCHANGED <<program, ending, backlog, stream>>

-----------------------------------------------------------------------------
(* The child of connection c *)

ChildReceives(c) ==
  /\ c \in In({"read"}) /\ Takes(c, Arrived(c, MAXLINE))
  /\ mem' = [mem EXCEPT !.child[c] = [at |-> "reply", buf |-> Arrived(c, MAXLINE)]]
  /\ UNCHANGED <<pc, ending, sockets>>

ChildWrites(c) ==
  /\ c \in In({"reply"}) /\ Writes(c, mem.child[c].buf)
  /\ mem' = [mem EXCEPT !.child[c] = [at |-> "read", buf |-> <<>>]]
  /\ UNCHANGED <<pc, ending, sockets>>

\* read returned -1; so does the write.
ChildErrs(c) ==
  c \in In({"read"}) /\ TakesError(c) /\ UNCHANGED <<pc, mem, ending, sockets>>

\* It exits when the connection ends, or dies of SIGPIPE.  SIGCHLD is ignored
\* until the handler is there.
ChildExits(c) ==
  /\ \/ c \in In({"read"}) /\ AtEnd(c)
     \/ c \in In({"reply"}) /\ Dead(c)
  /\ closed' = closed \cup ({c} \ Range(file))
  /\ mem' = [mem EXCEPT !.child[c] = [at |-> "zombie", buf |-> <<>>], !.pending = mem.installed]
  /\ UNCHANGED <<program, pc, ending, file, backlog, stream>>

-----------------------------------------------------------------------------
(* Signals *)

\* Whether the signal finds main waiting in accept, or where it needs not.
Interrupting == IF pc = "accept" /\ backlog = {} THEN BOOLEAN ELSE {FALSE}

\* Mutant: the handler waits for one child only.
CatchOne ==
  /\ program = "multiprocess" /\ ending = "none" /\ mem.pending
  /\ \E interrupts \in Interrupting, c \in Zombies :
       /\ pc' = IF interrupts THEN "failed" ELSE pc
       /\ mem' = [mem EXCEPT !.pending = FALSE, !.child[c].at = "reaped",
                    !.errno = IF interrupts THEN "EINTR" ELSE @]
  /\ UNCHANGED <<ending, sockets, stream>>

\* catch_child runs wherever main is; if accept was waiting, it then fails with
\* EINTR.  The last waitpid sets errno when it finds no child at all.
catch_child ==
  /\ program = "multiprocess" /\ ending = "none" /\ mem.pending
  /\ \E interrupts \in Interrupting :
       /\ pc' = IF interrupts THEN "failed" ELSE pc
       /\ mem' = [mem EXCEPT
            !.pending = FALSE,
            !.child = [c \in Conns |-> IF c \in Zombies THEN [@[c] EXCEPT !.at = "reaped"] ELSE @[c]],
            !.errno = CASE interrupts -> "EINTR"
                        [] ~interrupts /\ Running = {} -> "ECHILD"
                        [] OTHER -> @]
  /\ UNCHANGED <<ending, sockets, stream>>

\* Accept tries again after EINTR, and else ends the program.
AcceptAgain ==
  /\ At({"multiprocess"}, "failed") /\ mem.errno = "EINTR" /\ pc' = "accept"
  /\ UNCHANGED <<mem, ending, sockets, stream>>
AcceptGivesUp == At({"multiprocess"}, "failed") /\ mem.errno # "EINTR" /\ Ends("accept error")

Parent ==
  \/ ProcessAccept \/ Fork \/ ForkFails \/ ParentCloses \/ AcceptAgain \/ AcceptGivesUp
Child(c) == ChildReceives(c) \/ ChildWrites(c) \/ ChildErrs(c) \/ ChildExits(c)
=============================================================================

------------------------ MODULE EchoServersProperties ------------------------
(* What the example servers must keep true, together and each for itself. *)
EXTENDS EchoServers

OpenFds == Fds \ FreeFds

Memory ==
  LET served == [fd : {LISTEN} \cup Fds, buf : Seq(Conns \X Nat)] IN
  CASE program = "epoll" ->
         /\ [fd |-> mem.fd, buf |-> mem.buf] \in served
         /\ mem.ep \in Seq({LISTEN} \cup Fds) /\ mem.i \in Nat
         /\ mem.watched \subseteq {LISTEN} \cup Fds
    [] program = "poll" ->
         /\ [fd |-> mem.fd, buf |-> mem.buf] \in served
         /\ mem.client \in [Entries -> Fds \cup {None}]
         /\ mem.revents \subseteq 0 .. OPEN_MAX - 1 /\ mem.maxi \in 0 .. OPEN_MAX - 1
    [] program \in {"select", "select-primary"} ->
         /\ [fd |-> mem.fd, buf |-> mem.buf] \in served
         /\ mem.client \in [0 .. FD_SETSIZE - 1 -> Fds \cup {None}]
         /\ mem.rset \subseteq {LISTEN} \cup Fds /\ mem.allset \subseteq {LISTEN} \cup Fds
         /\ mem.N \in 0 .. Cardinality(mem.rset)
    [] program = "multithread" ->
         /\ mem.i \in 0 .. RING - 1 /\ mem.addr_fd \in [0 .. RING - 1 -> Fds \cup {None}]
    [] program = "multiprocess" ->
         mem.installed \in BOOLEAN /\ (mem.pending => mem.installed)
    [] OTHER -> TRUE

\* Every variable keeps its type, and each program's loop variables their range.
TypeOK ==
  /\ program \in Programs /\ Memory
  /\ file \in [Fds -> Conns \cup {None}] /\ IsInjective(Restrict(file, OpenFds))
  /\ backlog \subseteq Conns /\ closed \subseteq Conns /\ edge \subseteq Conns
  /\ peer \in [Conns -> {"new", "open", "finished", "reset", "gone"}]
  /\ \A c \in Conns :
       sent[c] \in 0 .. MaxMoves[program] /\ taken[c] \in 0 .. sent[c]

-----------------------------------------------------------------------------
(* Tables *)

\* A table of clients has each open descriptor once, below its high-water mark.
Registers(table, last) ==
  /\ OpenFds = Range(table) \ {None}
  /\ \A j, k \in DOMAIN table : table[j] # None =>
       j <= last /\ (table[j] = table[k] => j = k)

\* What a program keeps of its connections agrees with the connections it has:
\* every open descriptor is watched, entered once and within the range that is
\* scanned, whatever was closed and reused before; a thread finds its own
\* connection in the ring; and the parent process holds none.
TablesAgree ==
  /\ program = "epoll" => mem.watched = {LISTEN} \cup OpenFds
  /\ program = "poll" => Registers(mem.client, mem.maxi)
  /\ program = "select" => Registers(mem.client, mem.maxi)
  /\ program \in {"select", "select-primary"} =>
       mem.allset = {LISTEN} \cup OpenFds /\ \A f \in OpenFds : f <= mem.maxfd
  /\ program = "multithread" /\ Patient =>
       \A c \in Conns : mem.worker[c].at \in {"none", "done"} \/ file[EntryFd(c)] = c
  /\ program = "multiprocess" => OpenFds \subseteq {mem.clientfd}

-----------------------------------------------------------------------------
(* Endings and stalls *)

Alive == {c \in Conns : peer[c] # "new" /\ c \notin closed}

\* A program ends only for a reason: its descriptors, its table or its
\* processes are all in use at once by connections that are not closed, none
\* leaked; a client broke off; an address length was never set; and two
\* faults of the programs: epoll's loop came back to a descriptor it had
\* closed, and the handler of SIGCHLD replaced the errno of accept.
ExitExplained ==
  CASE ending = "none" -> TRUE
    [] ending = "no descriptor" -> Cardinality(Alive) >= MaxFd[program]
    [] ending = "too many clients" ->
         Cardinality(Alive) > (IF program = "poll" THEN OPEN_MAX - 1 ELSE FD_SETSIZE)
    [] ending = "fork error" -> Cardinality(Zombies \cup Running) = MaxProcs
    [] ending = "read error" -> program = "epoll" /\ \E c \in Conns : peer[c] = "reset"
    [] ending = "SIGPIPE" -> program # "multiprocess" /\ \E c \in Conns : Dead(c)
    [] ending = "bad descriptor" -> program = "epoll" /\ closed # {}
    [] ending = "accept error" ->
         \/ program = "simple"
         \/ program = "multiprocess" /\ Cardinality(In({"reaped"})) > 1

\* The descriptor the only thread of a program reads or accepts on.
Awaited ==
  CASE Handling -> {Handled}
    [] program = "poll" /\ pc = "scan" /\ PollHits # {} -> {PollHit}
    [] program \in {"select", "select-primary"} /\ pc = "scan" /\ SelectHits # {} -> {SelectHit}
    [] program \in {"poll", "select", "select-primary"} /\ pc = "accept" -> {LISTEN}
    [] OTHER -> {}

\* A program that multiplexes does not wait for one client while others could
\* be served: not even poll, whose count N ends the scan before an entry whose
\* revents were never set.  The exception is epoll on an event it handles
\* again, never one of the first two.
StallExplained == \A f \in Awaited : ~Ready(f) => program = "epoll" /\ mem.i >= 2

-----------------------------------------------------------------------------
(* Single programs *)

\* Although one signal may stand for several children, none of them waits to
\* be reaped with no signal under way: only the first, which may have ended
\* before there was a handler, and only until the handler runs once.
ZombiesNoticed ==
  program = "multiprocess" /\ ~mem.pending =>
    Zombies = {} \/ (Cardinality(Zombies) = 1 /\ In({"reaped"}) = {})

\* The nonblocking reader waits for the next edge only when it has read all:
\* a byte it left would stay until another one arrives.
DrainedWhenQuiet ==
  program = "epollET-nonblock" /\ pc = "wait" /\ file[mem.fd] \notin edge =>
    Unread(file[mem.fd]) = 0

\* A signal that interrupts accept does not end the server: Accept "tries
\* again" after EINTR (wrap.c:13).
InterruptedAcceptGoesOn == program = "multiprocess" => ending # "accept error"

-----------------------------------------------------------------------------
\* The nonblocking reader shows one byte of each read, which is no echo.
Service == INSTANCE EchoService WITH
  got <- IF program = "epollET-nonblock" THEN [c \in Conns |-> <<>>] ELSE got,
  client <- [c \in Conns |-> CASE peer[c] \in {"new", "open"} -> "open"
                               [] peer[c] = "finished" -> "finished"
                               [] OTHER -> "broken"],
  over <- closed

\* Every server echoes to each client what that client sent, in order and
\* once, and closes only what is answered or broken off.
ImplementsEchoService == Service!Spec

Broken(c) == peer[c] \in {"reset", "gone"} \/ ending # "none"

\* Every byte a client sends is answered in the end, whatever the others do,
\* and the connection of a client that finishes is closed in the end (the
\* pipe stays open).
EveryClientServed ==
  \A c \in Conns :
    /\ sent[c] > Len(got[c]) ~> sent[c] = Len(got[c]) \/ Broken(c)
    /\ peer[c] = "finished" ~> c \in closed \/ Broken(c) \/ program = "epoll-ETLT"
=============================================================================

------------------------- MODULE EchoServersProofs -------------------------
(***************************************************************************)
(* The example servers, for any number of connections, descriptors, table  *)
(* entries and processes.  Each program has its own inductive invariant,   *)
(* beside that of the kernel it runs on; every step keeps the one of the   *)
(* program that runs, and is a step of EchoService.                        *)
(***************************************************************************)
EXTENDS EchoServersProperties, NaturalFacts, SequenceTheorems

-----------------------------------------------------------------------------
(* The kernel: what the system calls keep *)

\* What the kernel keeps, whatever program runs.
FilesInv ==
  /\ program \in Programs
  /\ file \in [Fds -> Conns \cup {None}]
  /\ \A f, g \in Fds : file[f] # None /\ file[f] = file[g] => f = g
  /\ backlog \subseteq Conns /\ closed \subseteq Conns
  /\ \A f \in Fds : file[f] \notin backlog \cup closed
  /\ backlog \cap closed = {}

\* Each client's stream: what was read of it is a part of what was sent.
StreamInv ==
  /\ edge \subseteq Conns
  /\ peer \in [Conns -> {"new", "open", "finished", "reset", "gone"}]
  /\ sent \in [Conns -> Nat] /\ taken \in [Conns -> Nat]
  /\ \A c \in Conns : taken[c] <= sent[c]
  /\ got \in [Conns -> Seq(Conns \X Nat)]

\* Connections begin with the client.
BegunInv ==
  \A c \in Conns : peer[c] = "new" =>
    c \notin backlog /\ c \notin closed /\ \A f \in Fds : file[f] # c

\* What holds of the kernel's state, and every program relies on.
KernelInv == FilesInv /\ StreamInv /\ BegunInv

\* The least element of a set of naturals.
LEMMA MinIs == ASSUME NEW S \in SUBSET Nat, S # {}
  PROVE Min(S) \in S /\ \A y \in S : Min(S) <= y
<1>1. \E x \in S : \A y \in S : x <= y
  BY LeastExists
<1>. QED  BY <1>1 DEF Min

\* The lesser of two naturals.
LEMMA MinOfTwo == ASSUME NEW a \in Nat, NEW b \in Nat
  PROVE Min({a, b}) \in Nat /\ Min({a, b}) <= a /\ Min({a, b}) <= b /\ Min({a, b}) \in {a, b}
<1>1. {a, b} \in SUBSET Nat /\ {a, b} # {}
  OBVIOUS
<1>2. Min({a, b}) \in {a, b} /\ \A y \in {a, b} : Min({a, b}) <= y
  BY <1>1, MinIs
<1>. QED  BY <1>2

\* The greater of two integers.
LEMMA MaxOfTwo == ASSUME NEW a \in Int, NEW b \in Int
  PROVE Max({a, b}) = IF a >= b THEN a ELSE b
<1>1. \E x \in {a, b} : \A y \in {a, b} : x >= y
  OBVIOUS
<1>2. Max({a, b}) \in {a, b} /\ \A y \in {a, b} : Max({a, b}) >= y
  BY <1>1 DEF Max
<1>. QED  BY <1>2

\* accept returns the least free descriptor.
LEMMA NewFdIs ==
  ASSUME KernelInv, FreeFds # {}
  PROVE  NewFd \in FreeFds /\ NewFd \in Fds /\ file[NewFd] = None /\ \A f \in FreeFds : NewFd <= f
<1>1. FreeFds \in SUBSET Nat
  BY DEF FreeFds, Fds
<1>2. NewFd \in FreeFds /\ \A f \in FreeFds : NewFd <= f
  BY <1>1, MinIs DEF NewFd
<1>. QED  BY <1>2 DEF FreeFds

\* What one read returns: the next bytes of the stream, as many as there are or
\* as it asks for.
LEMMA ArrivedType ==
  ASSUME KernelInv, NEW c \in Conns, NEW size \in Nat
  PROVE  /\ Arrived(c, size) \in Seq(Conns \X Nat)
         /\ Len(Arrived(c, size)) \in Nat /\ Len(Arrived(c, size)) <= Unread(c)
         /\ Len(Arrived(c, size)) <= size
         /\ Len(Arrived(c, size)) = size \/ Len(Arrived(c, size)) = Unread(c)
         /\ Arrived(c, size) = [k \in 1 .. Len(Arrived(c, size)) |-> <<c, taken[c] + k>>]
         /\ Unread(c) \in Nat
<1>1. taken[c] \in Nat /\ sent[c] \in Nat /\ taken[c] <= sent[c]
  BY DEF KernelInv, StreamInv
<1>2. Unread(c) \in Nat
  BY <1>1 DEF Unread
<1> DEFINE n == Min({Unread(c), size})
<1>3. n \in Nat /\ n <= Unread(c) /\ n <= size /\ n \in {Unread(c), size}
  BY <1>2, MinOfTwo
<1>4. Arrived(c, size) = [k \in 1 .. n |-> <<c, taken[c] + k>>]
  BY DEF Arrived
<1> HIDE DEF n
<1>5. [k \in 1 .. n |-> <<c, taken[c] + k>>] \in Seq(Conns \X Nat)
  <2>1. \A k \in 1 .. n : <<c, taken[c] + k>> \in Conns \X Nat
    BY <1>1, <1>3
  <2>. QED  BY <1>3, <2>1, IsASeq
<1>6. Len(Arrived(c, size)) = n
  <2>1. DOMAIN Arrived(c, size) = 1 .. n
    BY <1>4
  <2>. QED  BY <1>3, <1>4, <1>5, <2>1, LenProperties
<1>. QED  BY <1>2, <1>3, <1>4, <1>5, <1>6

\* accept: the connection moves from the backlog to the least free descriptor.
LEMMA AcceptsKeeps ==
  ASSUME KernelInv, NEW c \in Conns, Accepts(c), UNCHANGED <<closed, stream>>
  PROVE  /\ KernelInv' /\ c \in backlog /\ NewFd \in FreeFds /\ program' = program /\ Fds' = Fds
         /\ file' = [file EXCEPT ![NewFd] = c] /\ backlog' = backlog \ {c}
         /\ FreeFds' = FreeFds \ {NewFd} /\ OpenFds' = OpenFds \cup {NewFd}
<1>1. /\ c \in backlog /\ FreeFds # {} /\ backlog' = backlog \ {c}
      /\ file' = [file EXCEPT ![NewFd] = c] /\ program' = program
  BY DEF Accepts
<1>2. NewFd \in FreeFds /\ NewFd \in Fds /\ file[NewFd] = None
  BY <1>1, NewFdIs
<1>3. Fds' = Fds
  BY <1>1 DEF Fds
<1>4. None \notin Conns
  BY KernelAssumption
<1>5. \A f \in Fds : file'[f] = IF f = NewFd THEN c ELSE file[f]
  BY <1>1, <1>2 DEF KernelInv, FilesInv
<1>6. FreeFds' = FreeFds \ {NewFd} /\ OpenFds' = OpenFds \cup {NewFd}
  BY <1>2, <1>3, <1>4, <1>5 DEF FreeFds, OpenFds
<1>7. FilesInv'
  <2>1. \A f, g \in Fds : file'[f] # None /\ file'[f] = file'[g] => f = g
    BY <1>1, <1>5 DEF KernelInv, FilesInv
  <2>2. file' \in [Fds -> Conns \cup {None}]
    BY <1>1 DEF KernelInv, FilesInv
  <2>3. \A f \in Fds : file'[f] \notin backlog' \cup closed
    BY <1>1, <1>5 DEF KernelInv, FilesInv
  <2>. QED  BY <1>1, <1>3, <2>1, <2>2, <2>3 DEF KernelInv, FilesInv
<1>8. UNCHANGED <<peer, sent, taken, got, edge, closed>>
  BY DEF stream
<1>9. StreamInv'
  BY <1>8 DEF KernelInv, StreamInv
<1>10. BegunInv'
  BY <1>1, <1>3, <1>5, <1>8 DEF KernelInv, BegunInv
<1>. QED  BY <1>1, <1>2, <1>3, <1>6, <1>7, <1>9, <1>10 DEF KernelInv

\* The end of a connection is also met after an error, which read reports once.
StreamEnds(c) == (AtEnd(c) /\ UNCHANGED stream) \/ TakesError(c)

\* A read that reports an error takes no data and begins nothing.
LEMMA ErrorKeeps ==
  ASSUME KernelInv, NEW c, TakesError(c)
  PROVE  StreamInv' /\ UNCHANGED <<sent, taken, got, edge>> /\ \A d \in Conns : peer'[d] = "new" <=> peer[d] = "new"
<1>1. peer' = [peer EXCEPT ![c] = "gone"] /\ UNCHANGED <<sent, taken, got, edge>> /\ peer[c] = "reset"
  BY DEF TakesError, Failing
<1>2. StreamInv'
  BY <1>1 DEF KernelInv, StreamInv
<1>3. \A d \in Conns : peer'[d] = "new" <=> peer[d] = "new"
  BY <1>1 DEF KernelInv, StreamInv
<1>. QED  BY <1>1, <1>2, <1>3

\* close: the descriptor is free, its connection closed for good.
LEMMA ClosesKeeps ==
  ASSUME KernelInv, NEW f \in Fds, file[f] # None, Closes(f), StreamEnds(file[f])
  PROVE  /\ KernelInv' /\ program' = program /\ Fds' = Fds /\ UNCHANGED <<backlog, sent, taken, got, edge>>
         /\ file' = [file EXCEPT ![f] = None] /\ closed' = closed \cup {file[f]}
         /\ FreeFds' = FreeFds \cup {f} /\ OpenFds' = OpenFds \ {f}
         /\ \A d \in Conns : peer'[d] = "new" <=> peer[d] = "new"
<1>1. /\ file' = [file EXCEPT ![f] = None] /\ closed' = closed \cup {file[f]}
      /\ program' = program /\ backlog' = backlog
  BY DEF Closes
<1>2. Fds' = Fds /\ None \notin Conns
  BY <1>1, KernelAssumption DEF Fds
<1>3. \A g \in Fds : file'[g] = IF g = f THEN None ELSE file[g]
  BY <1>1 DEF KernelInv, FilesInv
<1>4. FreeFds' = FreeFds \cup {f} /\ OpenFds' = OpenFds \ {f}
  BY <1>2, <1>3 DEF FreeFds, OpenFds
<1>5. /\ StreamInv' /\ UNCHANGED <<sent, taken, got, edge>>
      /\ \A d \in Conns : peer'[d] = "new" <=> peer[d] = "new"
  <2>1. CASE UNCHANGED stream
    BY <2>1 DEF stream, KernelInv, StreamInv
  <2>2. CASE TakesError(file[f])
    BY <2>2, ErrorKeeps
  <2>. QED  BY <2>1, <2>2 DEF StreamEnds
<1>6. file[f] \in Conns
  BY DEF KernelInv, FilesInv
<1>7. FilesInv'
  <2>1. \A g, h \in Fds : file'[g] # None /\ file'[g] = file'[h] => g = h
    BY <1>3 DEF KernelInv, FilesInv
  <2>2. file' \in [Fds -> Conns \cup {None}]
    BY <1>1 DEF KernelInv, FilesInv
  <2>3. \A g \in Fds : file'[g] \notin backlog' \cup closed'
    BY <1>1, <1>2, <1>3 DEF KernelInv, FilesInv
  <2>4. closed' \subseteq Conns /\ backlog \cap closed' = {}
    BY <1>1, <1>6 DEF KernelInv, FilesInv
  <2>. QED  BY <1>1, <1>2, <2>1, <2>2, <2>3, <2>4 DEF KernelInv, FilesInv
<1>8. BegunInv'
  BY <1>1, <1>2, <1>3, <1>5 DEF KernelInv, BegunInv
<1>. QED  BY <1>1, <1>2, <1>4, <1>5, <1>7, <1>8 DEF KernelInv

\* Nothing happens to the sockets, and the streams keep their invariant.
LEMMA SocketsStay ==
  ASSUME KernelInv, UNCHANGED sockets, StreamInv', \A d \in Conns : peer'[d] = "new" => peer[d] = "new"
  PROVE  KernelInv' /\ program' = program /\ Fds' = Fds /\ FreeFds' = FreeFds /\ OpenFds' = OpenFds
<1>1. UNCHANGED <<program, file, backlog, closed>>
  BY DEF sockets
<1>2. Fds' = Fds
  BY <1>1 DEF Fds
<1>3. FreeFds' = FreeFds /\ OpenFds' = OpenFds
  BY <1>1, <1>2 DEF FreeFds, OpenFds
<1>. QED  BY <1>1, <1>2, <1>3 DEF KernelInv, FilesInv, BegunInv

\* A read with data changes only how much was taken.
LEMMA TakesKeeps ==
  ASSUME KernelInv, NEW c \in Conns, NEW size \in Nat, Takes(c, Arrived(c, size)), UNCHANGED sockets
  PROVE  /\ KernelInv' /\ UNCHANGED <<peer, sent, got, edge>>
         /\ taken' = [taken EXCEPT ![c] = taken[c] + Len(Arrived(c, size))]
<1>1. taken' = [taken EXCEPT ![c] = taken[c] + Len(Arrived(c, size))] /\ UNCHANGED <<peer, sent, got, edge>>
  BY DEF Takes
<1>2. Len(Arrived(c, size)) \in Nat /\ Len(Arrived(c, size)) <= Unread(c)
  BY ArrivedType
<1>3. taken[c] \in Nat /\ sent[c] \in Nat /\ \A d \in Conns : taken[d] <= sent[d]
  BY DEF KernelInv, StreamInv
<1> DEFINE n == Len(Arrived(c, size))
<1> HIDE DEF n
<1>4. taken[c] + n \in Nat /\ taken[c] + n <= sent[c]
  BY <1>2, <1>3 DEF Unread, n
<1>5. taken' \in [Conns -> Nat] /\ \A d \in Conns : taken'[d] = IF d = c THEN taken[c] + n ELSE taken[d]
  BY <1>1, <1>4 DEF n, KernelInv, StreamInv
<1>6. StreamInv'
  BY <1>1, <1>3, <1>4, <1>5 DEF KernelInv, StreamInv
<1>. QED  BY <1>1, <1>6, SocketsStay

\* An error reported with the connection left open.
LEMMA ErrorStays ==
  ASSUME KernelInv, NEW c, TakesError(c), UNCHANGED sockets
  PROVE  KernelInv' /\ UNCHANGED <<sent, taken, got, edge>>
BY ErrorKeeps, SocketsStay

\* A write changes what the client got, or finds that it broke off.
LEMMA WritesKeeps ==
  ASSUME KernelInv, NEW c \in Conns, NEW bytes \in Seq(Conns \X Nat), Writes(c, bytes), UNCHANGED sockets
  PROVE  /\ KernelInv' /\ UNCHANGED <<sent, taken, edge>>
<1>1. CASE peer[c] \in {"open", "finished"} /\ got' = [got EXCEPT ![c] = got[c] \o bytes] /\ UNCHANGED peer
  <2>1. got[c] \o bytes \in Seq(Conns \X Nat)
    BY ConcatProperties DEF KernelInv, StreamInv
  <2>2. got' \in [Conns -> Seq(Conns \X Nat)]
    BY <1>1, <2>1 DEF KernelInv, StreamInv
  <2>3. UNCHANGED <<sent, taken, edge>>
    BY DEF Writes
  <2>4. StreamInv'
    BY <1>1, <2>2, <2>3 DEF KernelInv, StreamInv
  <2>. QED  BY <1>1, <2>3, <2>4, SocketsStay
<1>2. CASE peer[c] = "reset" /\ peer' = [peer EXCEPT ![c] = "gone"] /\ UNCHANGED got
  <2>1. UNCHANGED <<sent, taken, edge>>
    BY DEF Writes
  <2>2. StreamInv' /\ \A d \in Conns : peer'[d] = "new" => peer[d] = "new"
    BY <1>2, <2>1 DEF KernelInv, StreamInv
  <2>. QED  BY <2>1, <2>2, SocketsStay
<1>. QED  BY <1>1, <1>2 DEF Writes

\* A step that touches neither sockets nor streams.
LEMMA StillKeeps ==
  ASSUME KernelInv, UNCHANGED <<sockets, stream>>
  PROVE  /\ KernelInv' /\ UNCHANGED <<program, file, backlog, closed, peer, sent, taken, got, edge>>
         /\ Fds' = Fds /\ FreeFds' = FreeFds /\ OpenFds' = OpenFds
<1>1. UNCHANGED <<program, file, backlog, closed, peer, sent, taken, got, edge>>
  BY DEF sockets, stream
<1>2. StreamInv'
  BY <1>1 DEF KernelInv, StreamInv
<1>. QED  BY <1>1, <1>2, SocketsStay

-----------------------------------------------------------------------------
(* The clients, and why a program ends *)

\* What a client may change: more connections wait, more bytes are sent, and
\* what was readable stays so.
LEMMA ClientKeeps ==
  ASSUME KernelInv, NEW c \in Conns, Client(c)
  PROVE  /\ KernelInv' /\ UNCHANGED <<pc, mem, ending, program, file, closed, taken, got>>
         /\ Fds' = Fds /\ FreeFds' = FreeFds /\ OpenFds' = OpenFds
         /\ ending = "none" /\ program # "UDP"
<1>1. UNCHANGED <<pc, mem, ending, taken, got>> /\ ending = "none" /\ program # "UDP" /\ c \notin closed
  BY DEF Client, Connect, Send, Finish, Reset, Acts
<1>2. CASE Connect(c)
  <2>1. /\ peer[c] = "new" /\ peer' = [peer EXCEPT ![c] = "open"] /\ backlog' = backlog \cup {c}
        /\ UNCHANGED <<program, file, closed, sent, edge>>
    BY <1>2 DEF Connect
  <2>2. Fds' = Fds
    BY <2>1 DEF Fds
  <2>3. FreeFds' = FreeFds /\ OpenFds' = OpenFds
    BY <2>1, <2>2 DEF FreeFds, OpenFds
  <2>4. StreamInv'
    BY <1>1, <2>1 DEF KernelInv, StreamInv
  <2>5. c \notin backlog /\ c \notin closed /\ \A f \in Fds : file[f] # c
    BY <2>1 DEF KernelInv, BegunInv
  <2>6. FilesInv'
    BY <2>1, <2>2, <2>5 DEF KernelInv, FilesInv
  <2>7. BegunInv'
    BY <2>1, <2>2 DEF KernelInv, BegunInv, StreamInv
  <2>. QED  BY <1>1, <2>1, <2>2, <2>3, <2>4, <2>6, <2>7 DEF KernelInv
<1>3. ASSUME UNCHANGED sockets, edge' \in {edge, edge \cup {c}},
             sent' \in {sent, [sent EXCEPT ![c] = sent[c] + 1]},
             peer' = peer \/ \E how \in {"finished", "reset", "gone"} : peer' = [peer EXCEPT ![c] = how]
      PROVE  /\ KernelInv' /\ UNCHANGED <<program, file, closed>>
             /\ Fds' = Fds /\ FreeFds' = FreeFds /\ OpenFds' = OpenFds
  <2>0. sent \in [Conns -> Nat] /\ sent[c] + 1 \in Nat
    BY DEF KernelInv, StreamInv
  <2>1. sent' \in [Conns -> Nat] /\ \A d \in Conns : sent'[d] \in Nat /\ sent'[d] >= sent[d]
    <3>1. CASE sent' = sent
      BY <2>0, <3>1
    <3>2. CASE sent' = [sent EXCEPT ![c] = sent[c] + 1]
      BY <2>0, <3>2
    <3>. QED  BY <1>3, <3>1, <3>2
  <2>3. \A d \in Conns : taken'[d] <= sent'[d]
    BY <1>1, <2>1 DEF KernelInv, StreamInv
  <2>4. peer' \in [Conns -> {"new", "open", "finished", "reset", "gone"}] /\ \A d \in Conns : peer'[d] = "new" => peer[d] = "new"
    BY <1>3 DEF KernelInv, StreamInv
  <2>5. StreamInv'
    BY <1>1, <1>3, <2>1, <2>3, <2>4 DEF KernelInv, StreamInv
  <2>6. UNCHANGED <<program, file, closed>>
    BY <1>3 DEF sockets
  <2>. QED  BY <1>3, <2>4, <2>5, <2>6, SocketsStay
<1>4. edge' = edge \/ edge' = edge \cup {c} \/ Connect(c)
  BY DEF Client, Send, Finish, Reset, Arrives
<1>5. CASE Send(c)
  BY <1>1, <1>3, <1>5 DEF Send, Arrives
<1>6. CASE Finish(c)
  BY <1>1, <1>3, <1>6 DEF Finish, Arrives
<1>7. CASE Reset(c)
  BY <1>1, <1>3, <1>7 DEF Reset, Arrives
<1>. QED  BY <1>1, <1>2, <1>5, <1>6, <1>7 DEF Client

\* What is ready stays ready when clients act.
LEMMA ReadyStays ==
  ASSUME KernelInv, NEW c \in Conns, Client(c), NEW f \in {LISTEN} \cup Fds, Ready(f)
  PROVE  Ready(f)'
<1>1. UNCHANGED <<program, file, closed, taken>>
  BY ClientKeeps
<1>2. CASE f = LISTEN
  <2>1. backlog \subseteq backlog'
    BY DEF Client, Connect, Send, Finish, Reset, sockets
  <2>. QED  BY <1>2, <2>1 DEF Ready
<1>3. CASE f # LISTEN
  <2>0. PICK d : d = file[f]
    OBVIOUS
  <2>1. d \in Conns /\ Readable(d) /\ d # None
    BY <1>3, <2>0 DEF Ready, KernelInv, FilesInv
  <2>2. /\ taken[d] \in Nat /\ sent[d] \in Nat /\ taken[d] <= sent[d] /\ taken' = taken
        /\ peer \in [Conns -> {"new", "open", "finished", "reset", "gone"}]
        /\ sent \in [Conns -> Nat]
    BY <1>1, <2>1 DEF KernelInv, StreamInv
  <2>3. Readable(d)'
    <3>1. CASE Connect(c)
      <4>1. sent' = sent /\ peer' = [peer EXCEPT ![c] = "open"] /\ peer[c] = "new"
        BY <3>1 DEF Connect
      <4>. QED  BY <2>1, <2>2, <4>1 DEF Readable, AtEnd, Failing, Unread
    <3>2. CASE Send(c)
      <4>1. sent' = [sent EXCEPT ![c] = sent[c] + 1] /\ peer' = peer /\ peer[c] = "open"
        BY <3>2 DEF Send
      <4>. QED  BY <2>1, <2>2, <4>1 DEF Readable, AtEnd, Failing, Unread
    <3>3. CASE Finish(c)
      <4>1. sent' = sent /\ peer' = [peer EXCEPT ![c] = "finished"] /\ peer[c] = "open"
        BY <3>3 DEF Finish
      <4>. QED  BY <2>1, <2>2, <4>1 DEF Readable, AtEnd, Failing, Unread
    <3>4. CASE Reset(c)
      <4>1. /\ sent' = sent
            /\ \/ peer[c] = "open" /\ peer' = [peer EXCEPT ![c] = "reset"]
               \/ peer[c] = "finished" /\ peer' = [peer EXCEPT ![c] = "gone"]
        BY <3>4 DEF Reset
      <4>. QED  BY <2>1, <2>2, <4>1 DEF Readable, AtEnd, Failing, Unread
    <3>. QED  BY <3>1, <3>2, <3>3, <3>4 DEF Client
  <2>. QED  BY <1>1, <1>3, <2>0, <2>1, <2>3 DEF Ready
<1>. QED  BY <1>2, <1>3

\* Which steps each program has.
LEMMA StepsOfPrograms ==
  ASSUME Next
  PROVE  \/ program = "epoll" /\ Epoll
         \/ program = "poll" /\ Poll
         \/ program \in Selects /\ Select
         \/ program \in Sequentials /\ Sequential
         \/ program \in Edges /\ EdgeServer
         \/ program = "multithread" /\ (Acceptor \/ \E c \in Conns : Worker(c))
         \/ program = "multiprocess" /\ (Parent \/ catch_child \/ \E c \in Conns : Child(c))
         \/ program = "UDP" /\ Udp
         \/ AcceptFails \/ WriteKills
         \/ \E c \in Conns : Client(c)
<1>1. CASE Epoll
  BY <1>1 DEF Epoll, EpollWait, EpollBatchDone, EpollAccept, EpollRead, EpollReply, EpollClose,
     EpollReadFails, EpollBadDescriptor, Handling, Replies, At
<1>2. CASE Poll
  BY <1>2 DEF Poll, PollWait, PollAccept, PollTableFull, PollRead, PollReply, PollClose, Replies, At
<1>3. CASE Select
  BY <1>3 DEF Select, SelectWait, SelectAccept, SelectTableFull, SelectRead, SelectReply, SelectClose,
     SelectReadFails, Replies, At
<1>4. CASE Sequential
  BY <1>4 DEF Sequential, SequentialAccept, SequentialAcceptFails, SequentialRead, SequentialReply,
     LocalClose, SimpleReadFails, SimpleKilled, Replies, At, Sequentials
<1>5. CASE EdgeServer
  BY <1>5 DEF EdgeServer, EdgeStart, EdgeWait, EdgeReadOnce, EdgeReadAgain, EdgeReadEnds, Edge, Edges, At
<1>6. CASE Acceptor
  BY <1>6 DEF Acceptor, ThreadAccept, ThreadCreate, At
<1>7. ASSUME NEW c \in Conns, Worker(c) PROVE program = "multithread"
  BY <1>7 DEF Worker, WorkerReads, WorkerReceives, WorkerEnds, WorkerErrs, WorkerWrites, WorkerKilled,
     WorkerCloses, WorkerAt
<1>8. CASE Parent
  BY <1>8 DEF Parent, ProcessAccept, Fork, ForkFails, ParentCloses, AcceptAgain, AcceptGivesUp, At
<1>9. CASE catch_child
  BY <1>9 DEF catch_child
<1>10. ASSUME NEW c \in Conns, Child(c) PROVE program = "multiprocess"
  BY <1>10 DEF Child, ChildReceives, ChildWrites, ChildErrs, ChildExits, In
<1>11. CASE Udp
  BY <1>11 DEF Udp, UdpServe, UdpLoses, UdpSend, UdpFinish, UdpReceive
<1>. QED  BY <1>1, <1>2, <1>3, <1>4, <1>5, <1>6, <1>7, <1>8, <1>9, <1>10, <1>11 DEF Next, Main, Server

\* n different connections that are alive.
LEMMA AliveBound ==
  ASSUME NEW n \in Nat, NEW m \in [1 .. n -> Alive], \A j, k \in 1 .. n : m[j] = m[k] => j = k
  PROVE  Cardinality(Alive) >= n /\ Cardinality(Alive) \in Nat
<1>1. IsFiniteSet(Alive)
  BY FS_Subset, KernelAssumption DEF Alive
<1>2. m \in Injection(1 .. n, Alive)
  BY DEF Injection, IsInjective
<1>3. Cardinality(1 .. n) <= Cardinality(Alive)
  BY <1>1, <1>2, FS_Injection
<1>4. Cardinality(1 .. n) = n
  BY FS_Interval
<1>. QED  BY <1>1, <1>3, <1>4, FS_CardinalityType

\* The connection behind a descriptor has a client and is not closed.
LEMMA OpenAreAlive == ASSUME KernelInv, NEW f \in OpenFds PROVE file[f] \in Alive
<1>1. f \in Fds /\ file[f] # None /\ file[f] \in Conns
  BY DEF OpenFds, FreeFds, KernelInv, FilesInv
<1>. QED  BY <1>1 DEF Alive, KernelInv, FilesInv, BegunInv

\* accept finds no descriptor only when connections that are alive have them all.
LEMMA DescriptorsInUse == ASSUME KernelInv, FreeFds = {} PROVE Cardinality(Alive) >= MaxFd[program]
<1>1. MaxFd[program] \in Nat /\ Fds = 1 .. MaxFd[program]
  BY KernelAssumption DEF KernelInv, FilesInv, Fds
<1>2. \A f \in Fds : file[f] # None
  BY DEF FreeFds
<1>3. \A f \in Fds : file[f] \in Alive
  BY OpenAreAlive DEF OpenFds
<1>4. file \in [1 .. MaxFd[program] -> Alive]
  BY <1>1, <1>3 DEF KernelInv, FilesInv
<1>5. \A j, k \in 1 .. MaxFd[program] : file[j] = file[k] => j = k
  BY <1>1, <1>2 DEF KernelInv, FilesInv
<1>. QED  BY <1>1, <1>4, <1>5, AliveBound

-----------------------------------------------------------------------------
(* The service: what is owed to a client, and what it sees *)

\* What the server has read of c and not yet written are the bytes buf, the
\* next ones that the client is to get.
Owes(c, buf) ==
  peer[c] \in {"new", "open", "finished"} =>
    /\ taken[c] = Len(got[c]) + Len(buf)
    /\ \A k \in 1 .. Len(buf) : buf[k] = <<c, Len(got[c]) + k>>

\* The client as the service sees it, and what it got.
Seen == [c \in Conns |-> CASE peer[c] \in {"new", "open"} -> "open"
                           [] peer[c] = "finished" -> "finished"
                           [] OTHER -> "broken"]

\* What each client got, as the service sees it.
Shown == IF program = "epollET-nonblock" THEN [c \in Conns |-> <<>>] ELSE got

\* A step of the servers is one of the service, or changes nothing it tells.
ServiceStep == [Service!Next]_(Service!vars)

\* Seen, client by client.
LEMMA SeenIs == ASSUME NEW c \in Conns
  PROVE Seen[c] = CASE peer[c] \in {"new", "open"} -> "open"
                    [] peer[c] = "finished" -> "finished"
                    [] OTHER -> "broken"
BY DEF Seen

\* A step that the clients do not see.
LEMMA Unseen ==
  ASSUME UNCHANGED <<program, sent, got, closed>>, Seen' = Seen
  PROVE  ServiceStep
BY DEF ServiceStep, Service!vars, Seen

\* The service sees a client that broke off as broken, before read reports it
\* and after.
LEMMA ErrorUnseen ==
  ASSUME KernelInv, NEW c, TakesError(c)
  PROVE  Seen' = Seen /\ \A d \in Conns : \A b : Owes(d, b) => Owes(d, b)'
<1>1. peer' = [peer EXCEPT ![c] = "gone"] /\ UNCHANGED <<sent, taken, got, edge>> /\ peer[c] = "reset"
  BY DEF TakesError, Failing
<1>2. peer \in [Conns -> {"new", "open", "finished", "reset", "gone"}]
  BY DEF KernelInv, StreamInv
<1>3. \A d \in Conns : Seen'[d] = Seen[d]
  BY <1>1, <1>2 DEF Seen
<1>4. Seen' = Seen
  BY <1>3 DEF Seen
<1>5. ASSUME NEW d \in Conns, NEW b, Owes(d, b) PROVE Owes(d, b)'
  <2>1. peer'[d] = peer[d] \/ peer'[d] = "gone"
    BY <1>1, <1>2
  <2>. QED  BY <1>1, <1>5, <2>1 DEF Owes
<1>. QED  BY <1>4, <1>5

\* The service does not see a read, which leaves its bytes owed.
LEMMA TakesUnseen ==
  ASSUME KernelInv, NEW c \in Conns, NEW size \in Nat, Takes(c, Arrived(c, size)), UNCHANGED sockets,
         NEW b, b = Arrived(c, size)
  PROVE  /\ ServiceStep
         /\ Owes(c, <<>>) => Owes(c, b)'
         /\ \A d \in Conns \ {c} : \A e : Owes(d, e) => Owes(d, e)'
<1>1. taken' = [taken EXCEPT ![c] = taken[c] + Len(b)] /\ UNCHANGED <<peer, sent, got, edge>>
  BY DEF Takes
<1>2. Len(b) \in Nat /\ b = [k \in 1 .. Len(b) |-> <<c, taken[c] + k>>]
  BY ArrivedType
<1>3. taken \in [Conns -> Nat] /\ got[c] \in Seq(Conns \X Nat)
  BY DEF KernelInv, StreamInv
<1>4. Len(got[c]) \in Nat /\ Len(<<>>) = 0
  BY <1>3, LenProperties
<1>5. ASSUME Owes(c, <<>>) PROVE Owes(c, b)'
  <2> SUFFICES ASSUME peer[c] \in {"new", "open", "finished"}
               PROVE  /\ taken'[c] = Len(got[c]) + Len(b)
                      /\ \A k \in 1 .. Len(b) : b[k] = <<c, Len(got[c]) + k>>
    BY <1>1 DEF Owes
  <2>1. taken[c] = Len(got[c])
    BY <1>4, <1>5 DEF Owes
  <2>. QED  BY <1>1, <1>2, <1>3, <2>1
<1>6. \A d \in Conns \ {c} : \A e : Owes(d, e) => Owes(d, e)'
  BY <1>1, <1>3 DEF Owes
<1>7. ServiceStep
  BY <1>1, Unseen DEF sockets, Seen
<1>. QED  BY <1>5, <1>6, <1>7

\* Writing what is owed is an answer of the service.
LEMMA WritesSeen ==
  ASSUME KernelInv, NEW c \in Conns, NEW b \in Seq(Conns \X Nat), Writes(c, b), UNCHANGED sockets,
         Owes(c, b), c \notin closed, program # "epollET-nonblock", b # <<>>
  PROVE  /\ ServiceStep
         /\ Owes(c, <<>>)'
         /\ \A d \in Conns \ {c} : \A e : Owes(d, e) => Owes(d, e)'
<1>1. UNCHANGED <<sent, taken, edge, program, closed>>
  BY DEF Writes, sockets
<1>2. got[c] \in Seq(Conns \X Nat) /\ taken[c] \in Nat /\ taken[c] <= sent[c] /\ sent[c] \in Nat
      /\ got \in [Conns -> Seq(Conns \X Nat)] /\ peer \in [Conns -> {"new", "open", "finished", "reset", "gone"}]
  BY DEF KernelInv, StreamInv
<1>3. Len(got[c]) \in Nat /\ Len(b) \in Nat /\ Len(<<>>) = 0
  BY <1>2, LenProperties
<1>4. CASE peer[c] \in {"open", "finished"} /\ got' = [got EXCEPT ![c] = got[c] \o b] /\ UNCHANGED peer
  <2>1. taken[c] = Len(got[c]) + Len(b) /\ \A k \in 1 .. Len(b) : b[k] = <<c, Len(got[c]) + k>>
    BY <1>4 DEF Owes
  <2>2. got'[c] = got[c] \o b /\ Len(got'[c]) = Len(got[c]) + Len(b)
    BY <1>2, <1>4, ConcatProperties
  <2>3. Owes(c, <<>>)'
    <3>1. taken'[c] = Len(got'[c]) + Len(<<>>)
      BY <1>1, <1>3, <2>1, <2>2
    <3>. QED  BY <1>3, <3>1 DEF Owes
  <2>4. \A d \in Conns \ {c} : \A e : Owes(d, e) => Owes(d, e)'
    BY <1>1, <1>2, <1>4 DEF Owes
  <2>5. Service!Answer(c)
    <3> DEFINE n == Len(b)
    <3>1. n \in 1 .. sent[c] - Len(got[c])
      <4>1. n # 0
        BY EmptySeq
      <4>. QED  BY <1>2, <1>3, <2>1, <4>1
    <3>2. b = [k \in 1 .. n |-> <<c, Len(got[c]) + k>>]
      <4>1. b = [k \in 1 .. n |-> b[k]]
        BY LenProperties
      <4>. QED  BY <2>1, <4>1
    <3>3. got' = [got EXCEPT ![c] = got[c] \o [k \in 1 .. n |-> <<c, Len(got[c]) + k>>]]
      BY <1>4, <3>2
    <3>. QED  BY <1>1, <1>4, <3>1, <3>3 DEF Service!Answer
  <2>. QED  BY <2>3, <2>4, <2>5 DEF ServiceStep, Service!Next
<1>5. CASE peer[c] = "reset" /\ peer' = [peer EXCEPT ![c] = "gone"] /\ UNCHANGED got
  <2>1. \A d \in Conns : Seen'[d] = Seen[d]
    BY <1>2, <1>5 DEF Seen
  <2>2. Seen' = Seen
    BY <2>1 DEF Seen
  <2>3. ServiceStep
    BY <1>1, <1>5, <2>2, Unseen
  <2>4. Owes(c, <<>>)'
    BY <1>2, <1>5 DEF Owes
  <2>5. \A d \in Conns \ {c} : \A e : Owes(d, e) => Owes(d, e)'
    BY <1>1, <1>2, <1>5 DEF Owes
  <2>. QED  BY <2>3, <2>4, <2>5
<1>. QED  BY <1>4, <1>5 DEF Writes

\* A connection that ended, with nothing owed, is hung up.
LEMMA HangsUp ==
  ASSUME KernelInv, NEW c \in Conns, c \notin closed, closed' = closed \cup {c},
         Owes(c, <<>>), StreamEnds(c), AtEnd(c) \/ Failing(c),
         program' = program, program # "epollET-nonblock"
  PROVE  ServiceStep /\ \A d \in Conns : \A e : Owes(d, e) => Owes(d, e)'
<1>1. UNCHANGED <<sent, got, taken>> /\ Seen' = Seen /\ \A d \in Conns : \A e : Owes(d, e) => Owes(d, e)'
  <2>1. CASE UNCHANGED stream
    BY <2>1 DEF stream, Seen, Owes
  <2>2. CASE TakesError(c)
    BY <2>2, ErrorUnseen DEF TakesError
  <2>. QED  BY <2>1, <2>2 DEF StreamEnds
<1>2. Seen[c] = "broken" \/ (Seen[c] = "finished" /\ Len(got[c]) = sent[c])
  <2>1. CASE peer[c] \in {"reset", "gone"}
    BY <2>1 DEF Seen
  <2>2. CASE peer[c] = "finished"
    <3>1. Seen[c] = "finished"
      BY <2>2 DEF Seen
    <3>2. Unread(c) = 0
      BY DEF AtEnd, Failing
    <3>3. taken[c] = Len(got[c]) /\ taken[c] \in Nat /\ sent[c] \in Nat
      <4>1. got[c] \in Seq(Conns \X Nat) /\ taken[c] \in Nat /\ sent[c] \in Nat
        BY DEF KernelInv, StreamInv
      <4>2. Len(got[c]) \in Nat /\ Len(<<>>) = 0
        BY <4>1, LenProperties
      <4>. QED  BY <2>2, <4>1, <4>2 DEF Owes
    <3>. QED  BY <3>1, <3>2, <3>3 DEF Unread
  <2>. QED  BY <2>1, <2>2 DEF AtEnd, Failing
<1>3. Service!Hangup(c)
  BY <1>1, <1>2 DEF Service!Hangup, Seen
<1>. QED  BY <1>1, <1>3 DEF ServiceStep, Service!Next

\* What clients do is what the clients of the service do.
LEMMA ClientSeen ==
  ASSUME KernelInv, NEW c \in Conns, Client(c)
  PROVE  ServiceStep /\ \A d \in Conns : \A e : Owes(d, e) => Owes(d, e)'
<1>1. UNCHANGED <<pc, mem, ending, program, file, closed, taken, got>>
  BY ClientKeeps
<1>2. peer \in [Conns -> {"new", "open", "finished", "reset", "gone"}]
  BY DEF KernelInv, StreamInv
<1>3. CASE Connect(c)
  <2>1. peer[c] = "new" /\ peer' = [peer EXCEPT ![c] = "open"] /\ sent' = sent
    BY <1>3 DEF Connect
  <2>2. \A d \in Conns : Seen'[d] = Seen[d]
    BY <1>2, <2>1 DEF Seen
  <2>3. Seen' = Seen
    BY <2>2 DEF Seen
  <2>. QED  BY <1>1, <1>2, <2>1, <2>3, Unseen DEF Owes
<1>4. CASE Send(c)
  <2>1. peer[c] = "open" /\ peer' = peer /\ sent' = [sent EXCEPT ![c] = sent[c] + 1]
    BY <1>4 DEF Send
  <2>2. Service!Send(c)
    BY <1>1, <2>1 DEF Service!Send
  <2>. QED  BY <1>1, <2>1, <2>2 DEF ServiceStep, Service!Next, Owes
<1>5. ASSUME NEW how \in {"finished", "broken"}, NEW to \in {"finished", "reset", "gone"},
             sent' = sent, peer' = [peer EXCEPT ![c] = to], peer[c] \in {"open", "finished"},
             how = "finished" <=> to = "finished"
      PROVE  ServiceStep /\ \A d \in Conns : \A e : Owes(d, e) => Owes(d, e)'
  <2>1. \A d \in Conns : Seen'[d] = IF d = c THEN how ELSE Seen[d]
    BY <1>2, <1>5 DEF Seen
  <2>2. Seen' = [Seen EXCEPT ![c] = how] /\ Seen[c] # "broken"
    BY <1>2, <1>5, <2>1 DEF Seen
  <2>3. Service!Leave(c)
    BY <1>1, <1>5, <2>2 DEF Service!Leave, Seen
  <2>4. \A d \in Conns : \A e : Owes(d, e) => Owes(d, e)'
    BY <1>1, <1>2, <1>5 DEF Owes
  <2>. QED  BY <2>3, <2>4 DEF ServiceStep, Service!Next
<1>6. CASE Finish(c)
  BY <1>5, <1>6 DEF Finish
<1>7. CASE Reset(c)
  <2>1. sent' = sent
    BY <1>7 DEF Reset
  <2>2. CASE peer[c] = "open" /\ peer' = [peer EXCEPT ![c] = "reset"]
    BY <1>5, <2>1, <2>2
  <2>3. CASE peer[c] = "finished" /\ peer' = [peer EXCEPT ![c] = "gone"]
    BY <1>5, <2>1, <2>3
  <2>. QED  BY <1>7, <2>2, <2>3 DEF Reset
<1>. QED  BY <1>3, <1>4, <1>6, <1>7 DEF Client

-----------------------------------------------------------------------------
(* server-epoll *)

\* What a program may watch.
Watchable == {LISTEN} \cup Fds

\* The only thread of a program has read buf from the connection of fd.
OwesInReply ==
  \A c \in Conns : Owes(c, IF pc = "reply" /\ c = file[mem.fd] THEN mem.buf ELSE <<>>)

\* The memory of server-epoll, where it may be, and what it watches.
EpollTypes ==
  /\ mem \in [ep : Seq(Watchable), i : Nat, watched : SUBSET Watchable, fd : Watchable,
              buf : Seq(Conns \X Nat)]
  /\ pc \in {"wait", "dispatch", "reply", "ended"} /\ (pc = "ended" <=> ending # "none")
  /\ mem.watched = {LISTEN} \cup OpenFds
  /\ pc = "reply" => mem.fd \in OpenFds /\ mem.buf # <<>>

\* The first two events are still so; after them the loop may have lost count.
EpollFresh ==
  pc = "dispatch" /\ mem.i <= 1 =>
    /\ \A j, k \in 1 .. Len(mem.ep) : mem.ep[j] = mem.ep[k] => j = k
    /\ \A k \in mem.i + 1 .. Len(mem.ep) : Ready(mem.ep[k])

\* Only a descriptor that was closed can be missing.
EpollKnows ==
  pc \in {"dispatch", "reply"} /\ closed = {} =>
    \A k \in 1 .. Len(mem.ep) : mem.ep[k] \in {LISTEN} \cup OpenFds

\* The inductive invariant of server-epoll.
EpollInv == EpollTypes /\ EpollFresh /\ EpollKnows /\ OwesInReply /\ ExitExplained

\* A sequence of the elements of a finite set has each of them once.
LEMMA SeqOfSet ==
  ASSUME NEW S, IsFiniteSet(S), NEW q \in SetToSeqs(S)
  PROVE  q \in Seq(S) /\ \A j, k \in 1 .. Len(q) : q[j] = q[k] => j = k
<1>1. Cardinality(S) \in Nat
  BY FS_CardinalityType
<1>2. q \in [1 .. Cardinality(S) -> S] /\ \A j, k \in 1 .. Cardinality(S) : j # k => q[j] # q[k]
  BY DEF SetToSeqs
<1>3. q \in Seq(S) /\ DOMAIN q = 1 .. Cardinality(S)
  BY <1>1, <1>2, SeqDef
<1>4. Len(q) = Cardinality(S)
  BY <1>1, <1>3, LenProperties
<1>. QED  BY <1>2, <1>3, <1>4

\* There are finitely many descriptors.
LEMMA FdsFinite == ASSUME KernelInv PROVE IsFiniteSet(Watchable)
<1>1. MaxFd[program] \in Nat
  BY KernelAssumption DEF KernelInv, FilesInv
<1>2. IsFiniteSet(Fds)
  BY <1>1, FS_Interval DEF Fds
<1>3. Watchable = Fds \cup {LISTEN}
  BY DEF Watchable
<1>. QED  BY <1>2, <1>3, FS_AddElement

\* LISTEN is no descriptor of a connection.
LEMMA FdsArePositive == \A f \in Fds : f \in Nat /\ f # LISTEN
BY DEF Fds, LISTEN

\* The end of a program leaves everything else as it was.
LEMMA EndsKeeps ==
  ASSUME KernelInv, NEW why, Ends(why)
  PROVE  /\ KernelInv' /\ ServiceStep /\ ending' = why /\ pc' = "ended"
         /\ UNCHANGED <<mem, program, file, backlog, closed, peer, sent, taken, got, edge>>
         /\ Alive' = Alive /\ FreeFds' = FreeFds /\ OpenFds' = OpenFds /\ Fds' = Fds
         /\ \A d \in Conns : \A e : Owes(d, e) => Owes(d, e)'
<1>1. ending' = why /\ pc' = "ended" /\ UNCHANGED <<mem, sockets, stream>>
  BY DEF Ends
<1>2. UNCHANGED <<program, file, backlog, closed, peer, sent, taken, got, edge>> /\ KernelInv'
      /\ FreeFds' = FreeFds /\ OpenFds' = OpenFds /\ Fds' = Fds
  BY <1>1, StillKeeps
<1>. QED  BY <1>1, <1>2, Unseen DEF Alive, Seen, Owes

\* An open descriptor stands for a connection that is not closed.
LEMMA OneIsServed ==
  ASSUME KernelInv, NEW f \in OpenFds PROVE f \in Fds /\ file[f] # None /\ file[f] \in Conns /\ file[f] \notin closed
BY DEF OpenFds, FreeFds, KernelInv, FilesInv

-----------------------------------------------------------------------------
(* The steps that programs with one thread share *)

\* The steps the programs with one thread share.
LEMMA ReadOwes ==
  ASSUME KernelInv, OwesInReply, pc # "reply", NEW f \in OpenFds, Serves(f),
         mem'.fd = f, mem'.buf = Arrived(file[f], MAXLINE)
  PROVE  /\ KernelInv' /\ ServiceStep /\ OwesInReply' /\ pc' = "reply" /\ ending' = ending
         /\ UNCHANGED <<program, file, backlog, closed, peer, sent, got, edge>>
         /\ FreeFds' = FreeFds /\ OpenFds' = OpenFds /\ Fds' = Fds
         /\ mem'.buf \in Seq(Conns \X Nat) /\ mem'.buf # <<>>
<1>1. /\ Takes(file[f], Arrived(file[f], MAXLINE)) /\ pc' = "reply" /\ UNCHANGED <<ending, sockets>>
      /\ UNCHANGED <<program, file, backlog, closed>>
  BY DEF Serves, sockets
<1>2. file[f] \in Conns /\ MAXLINE \in Nat
  BY OneIsServed, KernelAssumption
<1>3. KernelInv' /\ UNCHANGED <<peer, sent, got, edge>>
  BY <1>1, <1>2, TakesKeeps
<1>4. FreeFds' = FreeFds /\ OpenFds' = OpenFds /\ Fds' = Fds
  BY <1>1 DEF FreeFds, OpenFds, Fds
<1>5. PICK b : b = Arrived(file[f], MAXLINE)
  OBVIOUS
<1>6. ServiceStep /\ (Owes(file[f], <<>>) => Owes(file[f], b)')
      /\ \A d \in Conns \ {file[f]} : \A e : Owes(d, e) => Owes(d, e)'
  <2>1. PICK c : c = file[f]
    OBVIOUS
  <2>2. ServiceStep /\ (Owes(c, <<>>) => Owes(c, b)') /\ \A d \in Conns \ {c} : \A e : Owes(d, e) => Owes(d, e)'
    BY <1>1, <1>2, <1>5, <2>1, TakesUnseen
  <2>. QED  BY <1>1, <2>1, <2>2 DEF Owes
<1>7. \A c \in Conns : Owes(c, <<>>)
  BY DEF OwesInReply
<1>8. OwesInReply'
  <2>1. ASSUME NEW c \in Conns
        PROVE  Owes(c, IF pc = "reply" /\ c = file[mem.fd] THEN mem.buf ELSE <<>>)'
    <3>1. PICK e : e = IF c = file[f] THEN b ELSE <<>>
      OBVIOUS
    <3>2. Owes(c, e)'
      <4>1. CASE c = file[f]
        <5>1. Owes(file[f], b)' /\ e = b
          BY <1>6, <1>7, <1>2, <3>1, <4>1
        <5>. QED  BY <1>1, <4>1, <5>1 DEF Owes
      <4>2. CASE c # file[f]
        BY <1>6, <1>7, <3>1, <4>2
      <4>. QED  BY <4>1, <4>2
    <3>. QED  BY <1>1, <1>5, <3>1, <3>2 DEF Owes
  <2>. QED  BY <2>1 DEF OwesInReply
<1>9. b \in Seq(Conns \X Nat) /\ b # <<>>
  BY <1>1, <1>2, <1>5, ArrivedType DEF Takes
<1>. QED  BY <1>1, <1>3, <1>4, <1>5, <1>6, <1>8, <1>9

\* A reply hands over what is owed: nothing is owed any more.
LEMMA ReplyOwes ==
  ASSUME KernelInv, OwesInReply, pc = "reply", mem.fd \in OpenFds, mem.buf \in Seq(Conns \X Nat),
         mem.buf # <<>>, Writes(file[mem.fd], mem.buf), UNCHANGED <<ending, sockets>>, pc' # "reply",
         program # "epollET-nonblock"
  PROVE  /\ KernelInv' /\ ServiceStep /\ OwesInReply'
         /\ UNCHANGED <<program, file, backlog, closed, sent, taken, edge>>
         /\ FreeFds' = FreeFds /\ OpenFds' = OpenFds /\ Fds' = Fds
<1>1. UNCHANGED <<program, file, backlog, closed>>
  BY DEF sockets
<1>2. PICK c, b : c = file[mem.fd] /\ b = mem.buf
  OBVIOUS
<1>3. c \in Conns /\ c \notin closed /\ b \in Seq(Conns \X Nat) /\ b # <<>> /\ Owes(c, b) /\ Writes(c, b)
  BY <1>2, OneIsServed DEF OwesInReply
<1>4. KernelInv' /\ UNCHANGED <<sent, taken, edge>>
  BY <1>3, WritesKeeps
<1>5. ServiceStep /\ Owes(c, <<>>)' /\ \A d \in Conns \ {c} : \A e : Owes(d, e) => Owes(d, e)'
  BY <1>3, WritesSeen
<1>6. \A d \in Conns \ {c} : Owes(d, <<>>)
  BY <1>2 DEF OwesInReply
<1>7. \A d \in Conns : Owes(d, <<>>)'
  BY <1>5, <1>6
<1>8. OwesInReply'
  BY <1>7 DEF OwesInReply
<1>. QED  BY <1>1, <1>4, <1>5, <1>8 DEF FreeFds, OpenFds, Fds

\* A connection is closed when nothing is owed to it.
LEMMA CloseOwes ==
  ASSUME KernelInv, OwesInReply, pc # "reply", pc' # "reply", NEW f \in OpenFds, Closes(f),
         StreamEnds(file[f]), program # "epollET-nonblock"
  PROVE  KernelInv' /\ ServiceStep /\ OwesInReply'
<1>1. f \in Fds /\ file[f] # None /\ file[f] \in Conns /\ file[f] \notin closed
  BY OneIsServed
<1>2. KernelInv' /\ program' = program /\ closed' = closed \cup {file[f]}
  BY <1>1, ClosesKeeps
<1>3. \A c \in Conns : Owes(c, <<>>)
  BY DEF OwesInReply
<1>4. AtEnd(file[f]) \/ Failing(file[f])
  BY DEF StreamEnds, TakesError
<1>5. ServiceStep /\ \A d \in Conns : \A e : Owes(d, e) => Owes(d, e)'
  BY <1>1, <1>2, <1>3, <1>4, HangsUp
<1>6. \A c \in Conns : Owes(c, <<>>)'
  BY <1>3, <1>5
<1>. QED  BY <1>2, <1>5, <1>6 DEF OwesInReply

\* The stream stays, and no reply is begun or ended.
LEMMA StreamOwes ==
  ASSUME KernelInv, OwesInReply, UNCHANGED <<program, closed, stream>>, pc # "reply", pc' # "reply"
  PROVE  ServiceStep /\ OwesInReply'
<1>1. UNCHANGED <<peer, sent, taken, got, edge>>
  BY DEF stream
<1>2. ServiceStep
  BY <1>1, Unseen DEF Seen
<1>3. \A c \in Conns : Owes(c, <<>>)'
  BY <1>1 DEF OwesInReply, Owes
<1>. QED  BY <1>2, <1>3 DEF OwesInReply

\* An error is passed over: nothing is owed to a client that broke off.
LEMMA ErrorOwes ==
  ASSUME KernelInv, OwesInReply, NEW c, TakesError(c), UNCHANGED sockets, pc # "reply", pc' # "reply"
  PROVE  KernelInv' /\ ServiceStep /\ OwesInReply'
<1>1. KernelInv' /\ UNCHANGED <<sent, taken, got, edge>>
  BY ErrorStays
<1>2. Seen' = Seen /\ \A d \in Conns : \A b : Owes(d, b) => Owes(d, b)'
  BY ErrorUnseen
<1>3. ServiceStep
  BY <1>1, <1>2, Unseen DEF sockets
<1>4. \A d \in Conns : Owes(d, <<>>)'
  BY <1>2 DEF OwesInReply
<1>. QED  BY <1>1, <1>3, <1>4 DEF OwesInReply

\* Clients do not change what is owed.
LEMMA ClientOwes ==
  ASSUME KernelInv, OwesInReply, NEW c \in Conns, Client(c) PROVE OwesInReply'
<1>1. UNCHANGED <<pc, mem, file>>
  BY ClientKeeps
<1>2. \A d \in Conns : \A e : Owes(d, e) => Owes(d, e)'
  BY ClientSeen
<1>3. ASSUME NEW d \in Conns PROVE Owes(d, IF pc = "reply" /\ d = file[mem.fd] THEN mem.buf ELSE <<>>)'
  <2>1. PICK e : e = IF pc = "reply" /\ d = file[mem.fd] THEN mem.buf ELSE <<>>
    OBVIOUS
  <2>2. Owes(d, e)'
    BY <1>2, <2>1 DEF OwesInReply
  <2>. QED  BY <1>1, <2>1, <2>2 DEF Owes
<1>. QED  BY <1>3 DEF OwesInReply

\* At the end of the program a reply may be lost, but only to a dead client.
LEMMA EndsOwes ==
  ASSUME KernelInv, OwesInReply, NEW why, Ends(why), pc # "reply" \/ Dead(file[mem.fd]),
         mem.fd \in OpenFds \/ pc # "reply"
  PROVE  OwesInReply'
<1>1. pc' = "ended" /\ \A d \in Conns : \A e : Owes(d, e) => Owes(d, e)'
  BY EndsKeeps
<1>2. ASSUME NEW c \in Conns PROVE Owes(c, <<>>)'
  <2>1. CASE pc = "reply" /\ c = file[mem.fd]
    <3>1. Dead(c) /\ peer' = peer
      BY <2>1 DEF Ends, stream
    <3>2. peer[c] \in {"gone", "reset"}
      BY <3>1 DEF Dead
    <3>. QED  BY <3>1, <3>2 DEF Owes
  <2>2. CASE ~(pc = "reply" /\ c = file[mem.fd])
    BY <1>1, <2>2 DEF OwesInReply
  <2>. QED  BY <2>1, <2>2
<1>. QED  BY <1>1, <1>2 DEF OwesInReply

-----------------------------------------------------------------------------
(* server-epoll: its steps *)

\* A program that goes on needs no explanation.
LEMMA NotEnded == ASSUME ending' = "none" PROVE ExitExplained'
BY DEF ExitExplained

\* AcceptFails, of any program.
LEMMA AcceptFailsExplained ==
  ASSUME KernelInv, AcceptFails PROVE ExitExplained'
<1>1. FreeFds = {} /\ Ends("no descriptor")
  BY DEF AcceptFails
<1>2. Cardinality(Alive) >= MaxFd[program]
  BY <1>1, DescriptorsInUse
<1>3. ending' = "no descriptor" /\ Alive' = Alive /\ program' = program
  BY <1>1, EndsKeeps
<1>. QED  BY <1>2, <1>3 DEF ExitExplained

\* WriteKills, of any program with one buffer.
LEMMA WriteKillsExplained ==
  ASSUME KernelInv, WriteKills, mem.fd \in OpenFds, program # "multiprocess"
  PROVE  ExitExplained'
<1>1. Dead(file[mem.fd]) /\ Ends("SIGPIPE") /\ file[mem.fd] \in Conns
  BY OneIsServed DEF WriteKills
<1>2. ending' = "SIGPIPE" /\ UNCHANGED <<program, mem, file, peer>>
  BY <1>1, EndsKeeps
<1>3. \E c \in Conns : Dead(c)'
  BY <1>1, <1>2 DEF Dead
<1>. QED  BY <1>2, <1>3 DEF ExitExplained

\* Every step of server-epoll and of its clients keeps the invariant, and is one
\* of the service.
LEMMA EpollStep ==
  ASSUME KernelInv, program = "epoll", EpollInv, [Next]_vars
  PROVE  KernelInv' /\ EpollInv' /\ ServiceStep
<1> USE DEF EpollInv
<1>0. /\ mem \in [ep : Seq(Watchable), i : Nat, watched : SUBSET Watchable, fd : Watchable,
                  buf : Seq(Conns \X Nat)]
      /\ mem.watched = {LISTEN} \cup OpenFds
  BY DEF EpollTypes
<1>a. ASSUME EpollTypes', EpollFresh', EpollKnows', OwesInReply', ending' = "none" PROVE EpollInv'
  BY <1>a, NotEnded
<1>1. CASE UNCHANGED vars
  <2>1. UNCHANGED <<pc, mem, ending, sockets, stream>>
    BY <1>1 DEF vars
  <2>2. /\ KernelInv' /\ UNCHANGED <<program, file, backlog, closed, peer, sent, taken, got, edge>>
        /\ Fds' = Fds /\ FreeFds' = FreeFds /\ OpenFds' = OpenFds
    BY <2>1, StillKeeps
  <2>3. ServiceStep
    BY <2>2, Unseen DEF Seen
  <2>4. EpollTypes' /\ EpollFresh' /\ EpollKnows'
    BY <2>1, <2>2 DEF EpollTypes, EpollFresh, EpollKnows, Ready, Readable, Unread, AtEnd, Failing, Watchable
  <2>5. OwesInReply'
    BY <2>1, <2>2 DEF OwesInReply, Owes
  <2>6. ExitExplained'
    BY <2>1, <2>2 DEF ExitExplained, Alive, Zombies, Running, In, Dead
  <2>. QED  BY <2>2, <2>3, <2>4, <2>5, <2>6
<1>2. CASE EpollWait
  <2>1. PICK due, ep : /\ due = {f \in mem.watched : Ready(f)} /\ ep \in SetToSeqs(due)
                       /\ mem' = [mem EXCEPT !.ep = ep, !.i = 0]
    BY <1>2 DEF EpollWait
  <2>2. pc = "wait" /\ pc' = "dispatch" /\ UNCHANGED <<ending, sockets, stream>> /\ ending = "none"
    BY <1>2 DEF EpollWait, At, EpollTypes
  <2>3. due \subseteq Watchable /\ IsFiniteSet(due)
    <3>1. due \subseteq Watchable
      BY <1>0, <2>1
    <3>. QED  BY <3>1, FdsFinite, FS_Subset
  <2>4. ep \in Seq(due) /\ \A j, k \in 1 .. Len(ep) : ep[j] = ep[k] => j = k
    BY <2>1, <2>3, SeqOfSet
  <2>5. ep \in Seq(Watchable) /\ \A k \in 1 .. Len(ep) : ep[k] \in due
    BY <2>3, <2>4, SeqMonotonic, ElementOfSeq
  <2>6. /\ KernelInv' /\ UNCHANGED <<program, file, backlog, closed, peer, sent, taken, got, edge>>
        /\ Fds' = Fds /\ FreeFds' = FreeFds /\ OpenFds' = OpenFds
    BY <2>2, StillKeeps
  <2>7. mem'.ep = ep /\ mem'.i = 0 /\ mem'.watched = mem.watched /\ mem'.fd = mem.fd /\ mem'.buf = mem.buf
        /\ mem' \in [ep : Seq(Watchable), i : Nat, watched : SUBSET Watchable, fd : Watchable, buf : Seq(Conns \X Nat)]
    BY <1>0, <2>1, <2>5
  <2>8. EpollTypes'
    BY <1>0, <2>2, <2>6, <2>7 DEF Watchable, EpollTypes
  <2>9. \A k \in 1 .. Len(ep) : Ready(ep[k])'
    BY <2>1, <2>5, <2>6 DEF Ready, Readable, Unread, AtEnd, Failing
  <2>10. EpollFresh'
    BY <2>4, <2>7, <2>9 DEF EpollFresh
  <2>11. EpollKnows'
    <3>1. \A k \in 1 .. Len(ep) : ep[k] \in {LISTEN} \cup OpenFds
      BY <1>0, <2>1, <2>5
    <3>. QED  BY <2>6, <2>7, <3>1 DEF EpollKnows
  <2>12. ServiceStep /\ OwesInReply'
    BY <2>2, <2>6, StreamOwes
  <2>. QED  BY <1>a, <2>2, <2>6, <2>8, <2>10, <2>11, <2>12
<1>3. CASE EpollBatchDone
  <2>1. /\ pc = "dispatch" /\ pc' = "wait" /\ mem' = [mem EXCEPT !.ep = <<>>, !.i = 0]
        /\ UNCHANGED <<ending, sockets, stream>> /\ ending = "none"
    BY <1>3 DEF EpollBatchDone, At, EpollTypes
  <2>2. /\ KernelInv' /\ UNCHANGED <<program, file, backlog, closed, peer, sent, taken, got, edge>>
        /\ Fds' = Fds /\ FreeFds' = FreeFds /\ OpenFds' = OpenFds
    BY <2>1, StillKeeps
  <2>3. <<>> \in Seq(Watchable) /\ 0 \in Nat
    BY EmptySeq
  <2>4. mem' \in [ep : Seq(Watchable), i : Nat, watched : SUBSET Watchable, fd : Watchable, buf : Seq(Conns \X Nat)]
    BY <1>0, <2>1, <2>3
  <2>5. mem'.watched = mem.watched /\ Watchable' = Watchable
    BY <1>0, <2>1, <2>2 DEF Watchable
  <2>6. EpollTypes'
    BY <1>0, <2>1, <2>2, <2>4, <2>5 DEF EpollTypes
  <2>7. EpollFresh' /\ EpollKnows'
    BY <2>1 DEF EpollFresh, EpollKnows
  <2>. QED  BY <1>a, <2>1, <2>2, <2>6, <2>7, StreamOwes
<1> DEFINE n == Len(mem.ep)
<1>b. ASSUME Handling
      PROVE  /\ pc = "dispatch" /\ ending = "none" /\ mem.i \in Nat /\ mem.i < n /\ n \in Nat
             /\ mem.i + 1 \in 1 .. n /\ Handled \in Watchable /\ Handled = mem.ep[mem.i + 1]
  <2>1. pc = "dispatch" /\ mem.i < n /\ ending = "none"
    BY <1>b DEF Handling, At, EpollTypes
  <2>2. mem.i \in Nat /\ mem.ep \in Seq(Watchable)
    BY <1>0
  <2>3. n \in Nat
    BY <2>2, LenProperties
  <2>4. mem.i + 1 \in 1 .. n
    <3> HIDE DEF n
    <3>. QED  BY <2>1, <2>2, <2>3
  <2>. QED  BY <2>1, <2>2, <2>3, <2>4, ElementOfSeq DEF Handled
<1>4. CASE EpollAccept
  <2>1. /\ Handling /\ Handled = LISTEN /\ mem' = [mem EXCEPT !.watched = mem.watched \cup {NewFd}, !.i = mem.i + 1]
        /\ UNCHANGED <<pc, ending, closed, stream>>
    BY <1>4 DEF EpollAccept
  <2>2. PICK c \in Conns : Accepts(c)
    BY <1>4 DEF EpollAccept
  <2>3. /\ KernelInv' /\ c \in backlog /\ NewFd \in FreeFds /\ program' = program /\ Fds' = Fds
        /\ file' = [file EXCEPT ![NewFd] = c] /\ backlog' = backlog \ {c}
        /\ FreeFds' = FreeFds \ {NewFd} /\ OpenFds' = OpenFds \cup {NewFd}
    BY <2>1, <2>2, AcceptsKeeps
  <2>4. NewFd \in Fds /\ NewFd \in Watchable
    BY <2>3 DEF FreeFds, Watchable
  <2>5. /\ mem'.ep = mem.ep /\ mem'.i = mem.i + 1 /\ mem'.watched = mem.watched \cup {NewFd}
        /\ mem' \in [ep : Seq(Watchable), i : Nat, watched : SUBSET Watchable, fd : Watchable, buf : Seq(Conns \X Nat)]
    <3>1. PICK w, i : w = mem.watched \cup {NewFd} /\ i = mem.i + 1
      OBVIOUS
    <3>2. w \in SUBSET Watchable /\ i \in Nat
      BY <1>0, <1>b, <2>1, <2>4, <3>1
    <3>3. mem' = [mem EXCEPT !.watched = w, !.i = i]
      BY <2>1, <3>1
    <3>. QED  BY <1>0, <3>1, <3>2, <3>3
  <2>6. EpollTypes'
    BY <1>0, <1>b, <2>1, <2>3, <2>5 DEF EpollTypes, Watchable
  <2>7. EpollFresh'
    <3> SUFFICES ASSUME mem.i + 1 <= 1
                 PROVE  /\ \A j, k \in 1 .. n : mem.ep[j] = mem.ep[k] => j = k
                        /\ \A k \in mem.i + 1 + 1 .. n : Ready(mem.ep[k])'
      BY <2>5 DEF EpollFresh
    <3>1. /\ mem.i <= 1 /\ \A j, k \in 1 .. n : mem.ep[j] = mem.ep[k] => j = k
          /\ \A k \in mem.i + 1 .. n : Ready(mem.ep[k])
      BY <1>b, <2>1 DEF EpollFresh
    <3>2. ASSUME NEW k \in mem.i + 1 + 1 .. n PROVE Ready(mem.ep[k])'
      <4>1. k \in mem.i + 1 .. n /\ k \in 1 .. n /\ k # mem.i + 1
        <5>1. mem.i \in Nat /\ n \in Nat /\ k \in mem.i + 1 + 1 .. n
          BY <1>b, <2>1, <3>2
        <5> HIDE DEF n
        <5>. QED  BY <5>1
      <4>2. Ready(mem.ep[k]) /\ mem.ep[k] # LISTEN /\ mem.ep[k] \in Watchable
        BY <1>0, <1>b, <2>1, <3>1, <4>1, ElementOfSeq
      <4>3. file'[mem.ep[k]] = file[mem.ep[k]] /\ file[mem.ep[k]] # None
        BY <2>3, <2>4, <4>2 DEF Ready, FreeFds
      <4>4. UNCHANGED <<peer, sent, taken>>
        BY <2>1 DEF stream
      <4>5. PICK f, d : f = mem.ep[k] /\ d = file[f]
        OBVIOUS
      <4>6. Ready(f)'
        BY <4>2, <4>3, <4>4, <4>5 DEF Ready, Readable, Unread, AtEnd, Failing
      <4>. QED  BY <2>5, <4>5, <4>6 DEF Ready
    <3>. QED  BY <3>1, <3>2
  <2>8. EpollKnows'
    BY <2>1, <2>3, <2>5 DEF EpollKnows
  <2>9. ServiceStep /\ OwesInReply'
    BY <1>b, <2>1, <2>3, StreamOwes
  <2>. QED  BY <1>a, <1>b, <2>1, <2>3, <2>6, <2>7, <2>8, <2>9
<1>5. CASE EpollRead
  <2>1. /\ Handling /\ Handled # LISTEN /\ Serves(Handled)
        /\ mem' = [mem EXCEPT !.fd = Handled, !.buf = Arrived(file[Handled], MAXLINE)]
    BY <1>5 DEF EpollRead
  <2>2. Handled \in OpenFds
    BY <1>b, <2>1 DEF Serves, OpenFds, FreeFds, Watchable
  <2>3. mem'.fd = Handled /\ mem'.buf = Arrived(file[Handled], MAXLINE) /\ mem'.ep = mem.ep /\ mem'.i = mem.i
        /\ mem'.watched = mem.watched
    BY <1>0, <2>1
  <2>4. PICK f : f = Handled
    OBVIOUS
  <2>5. /\ KernelInv' /\ ServiceStep /\ OwesInReply' /\ pc' = "reply" /\ ending' = ending
        /\ UNCHANGED <<program, file, backlog, closed, peer, sent, got, edge>>
        /\ FreeFds' = FreeFds /\ OpenFds' = OpenFds /\ Fds' = Fds
        /\ mem'.buf \in Seq(Conns \X Nat) /\ mem'.buf # <<>>
    <3>1. pc # "reply"
      BY <1>b, <2>1
    <3>2. f \in OpenFds /\ Serves(f) /\ mem'.fd = f /\ mem'.buf = Arrived(file[f], MAXLINE)
      BY <2>1, <2>2, <2>3, <2>4
    <3>. QED  BY <3>1, <3>2, ReadOwes
  <2>6. mem' \in [ep : Seq(Watchable), i : Nat, watched : SUBSET Watchable, fd : Watchable, buf : Seq(Conns \X Nat)]
    <3>1. Arrived(file[Handled], MAXLINE) \in Seq(Conns \X Nat) /\ Handled \in Watchable
      BY <1>b, <2>1, <2>3, <2>5
    <3>. QED  BY <1>0, <2>1, <3>1
  <2>7. EpollTypes'
    BY <1>0, <1>b, <2>1, <2>2, <2>3, <2>5, <2>6 DEF EpollTypes, Watchable
  <2>8. EpollFresh' /\ EpollKnows'
    BY <1>b, <2>1, <2>3, <2>5 DEF EpollFresh, EpollKnows
  <2>. QED  BY <1>a, <1>b, <2>1, <2>5, <2>7, <2>8
<1>6. CASE EpollReply
  <2>1. /\ pc = "reply" /\ Writes(file[mem.fd], mem.buf) /\ UNCHANGED <<ending, sockets>> /\ pc' = "dispatch"
        /\ mem' = [mem EXCEPT !.i = Len(mem.buf) + 1, !.fd = LISTEN, !.buf = <<>>]
    BY <1>6 DEF EpollReply, Replies, At
  <2>2. mem.fd \in OpenFds /\ mem.buf \in Seq(Conns \X Nat) /\ mem.buf # <<>> /\ ending = "none"
    BY <1>0, <2>1 DEF EpollTypes
  <2>3. /\ KernelInv' /\ ServiceStep /\ OwesInReply'
        /\ UNCHANGED <<program, file, backlog, closed, sent, taken, edge>>
        /\ FreeFds' = FreeFds /\ OpenFds' = OpenFds /\ Fds' = Fds
    BY <2>1, <2>2, ReplyOwes
  <2>4. Len(mem.buf) \in Nat /\ Len(mem.buf) # 0
    BY <2>2, LenProperties, EmptySeq
  <2>5. /\ mem'.ep = mem.ep /\ mem'.i = Len(mem.buf) + 1 /\ mem'.watched = mem.watched
        /\ mem' \in [ep : Seq(Watchable), i : Nat, watched : SUBSET Watchable, fd : Watchable, buf : Seq(Conns \X Nat)]
    <3>1. PICK i, none : i = Len(mem.buf) + 1 /\ none = <<>>
      OBVIOUS
    <3>2. i \in Nat /\ none \in Seq(Conns \X Nat) /\ LISTEN \in Watchable
      BY <2>4, <3>1, EmptySeq DEF Watchable
    <3>3. mem' = [mem EXCEPT !.i = i, !.fd = LISTEN, !.buf = none]
      BY <2>1, <3>1
    <3>. QED  BY <1>0, <3>1, <3>2, <3>3
  <2>6. EpollTypes'
    BY <1>0, <2>1, <2>2, <2>3, <2>5 DEF EpollTypes, Watchable
  <2>7. ~(mem'.i <= 1)
    BY <2>4, <2>5
  <2>8. EpollFresh' /\ EpollKnows'
    BY <2>1, <2>3, <2>5, <2>7 DEF EpollFresh, EpollKnows
  <2>. QED  BY <1>a, <2>1, <2>2, <2>3, <2>6, <2>8
<1>7. CASE EpollClose
  <2>1. /\ Handling /\ Handled # LISTEN /\ file[Handled] # None /\ AtEnd(file[Handled])
        /\ Closes(Handled) /\ mem' = [mem EXCEPT !.watched = mem.watched \ {Handled}, !.i = mem.i + 1]
        /\ UNCHANGED <<pc, ending, stream>>
    BY <1>7 DEF EpollClose
  <2>2. PICK f : f = Handled
    OBVIOUS
  <2>3. f \in OpenFds /\ f \in Fds /\ file[f] # None /\ Closes(f) /\ StreamEnds(file[f])
    BY <1>b, <2>1, <2>2 DEF OpenFds, FreeFds, Watchable, StreamEnds
  <2>4. /\ KernelInv' /\ program' = program /\ Fds' = Fds /\ UNCHANGED <<backlog, sent, taken, got, edge>>
        /\ file' = [file EXCEPT ![f] = None] /\ closed' = closed \cup {file[f]}
        /\ FreeFds' = FreeFds \cup {f} /\ OpenFds' = OpenFds \ {f}
    BY <2>3, ClosesKeeps
  <2>5. ServiceStep /\ OwesInReply'
    BY <1>b, <2>1, <2>3, CloseOwes
  <2>6. /\ mem'.ep = mem.ep /\ mem'.i = mem.i + 1 /\ mem'.watched = mem.watched \ {f}
        /\ mem' \in [ep : Seq(Watchable), i : Nat, watched : SUBSET Watchable, fd : Watchable, buf : Seq(Conns \X Nat)]
    <3>1. PICK w, i : w = mem.watched \ {f} /\ i = mem.i + 1
      OBVIOUS
    <3>2. w \in SUBSET Watchable /\ i \in Nat
      BY <1>0, <1>b, <2>1, <3>1
    <3>3. mem' = [mem EXCEPT !.watched = w, !.i = i]
      BY <2>1, <2>2, <3>1
    <3>. QED  BY <1>0, <3>1, <3>2, <3>3
  <2>7. EpollTypes'
    BY <1>0, <1>b, <2>1, <2>2, <2>4, <2>6 DEF EpollTypes, Watchable
  <2>8. EpollFresh'
    <3> SUFFICES ASSUME mem.i + 1 <= 1
                 PROVE  /\ \A j, k \in 1 .. n : mem.ep[j] = mem.ep[k] => j = k
                        /\ \A k \in mem.i + 1 + 1 .. n : Ready(mem.ep[k])'
      BY <2>6 DEF EpollFresh
    <3>1. /\ mem.i <= 1 /\ \A j, k \in 1 .. n : mem.ep[j] = mem.ep[k] => j = k
          /\ \A k \in mem.i + 1 .. n : Ready(mem.ep[k])
      BY <1>b, <2>1 DEF EpollFresh
    <3>2. ASSUME NEW k \in mem.i + 1 + 1 .. n PROVE Ready(mem.ep[k])'
      <4>1. k \in mem.i + 1 .. n /\ k \in 1 .. n /\ k # mem.i + 1
        <5>1. mem.i \in Nat /\ n \in Nat /\ k \in mem.i + 1 + 1 .. n
          BY <1>b, <2>1, <3>2
        <5> HIDE DEF n
        <5>. QED  BY <5>1
      <4>2. Ready(mem.ep[k]) /\ mem.ep[k] # f /\ mem.ep[k] \in Watchable
        BY <1>0, <1>b, <2>1, <2>2, <3>1, <4>1, ElementOfSeq
      <4>3. mem.ep[k] # LISTEN => file'[mem.ep[k]] = file[mem.ep[k]] /\ file[mem.ep[k]] # None
        BY <2>4, <4>2 DEF Ready
      <4>4. UNCHANGED <<peer, sent, taken, backlog>>
        BY <2>1, <2>4 DEF stream
      <4>5. PICK g, d : g = mem.ep[k] /\ d = file[g]
        OBVIOUS
      <4>6. Ready(g)'
        BY <4>2, <4>3, <4>4, <4>5 DEF Ready, Readable, Unread, AtEnd, Failing
      <4>. QED  BY <2>6, <4>5, <4>6 DEF Ready
    <3>. QED  BY <3>1, <3>2
  <2>9. EpollKnows'
    <3>1. closed' # {}
      BY <2>4
    <3>. QED  BY <3>1 DEF EpollKnows
  <2>. QED  BY <1>a, <1>b, <2>1, <2>4, <2>5, <2>7, <2>8, <2>9
<1>c. ASSUME NEW why, Ends(why), pc # "ended", why # "none", ExitExplained', pc = "reply" => Dead(file[mem.fd])
      PROVE  KernelInv' /\ EpollInv' /\ ServiceStep
  <2>1. /\ KernelInv' /\ ServiceStep /\ ending' = why /\ pc' = "ended"
        /\ UNCHANGED <<mem, program, file, backlog, closed, peer, sent, taken, got, edge>>
        /\ FreeFds' = FreeFds /\ OpenFds' = OpenFds /\ Fds' = Fds
    BY <1>c, EndsKeeps
  <2>2. EpollTypes' /\ EpollFresh' /\ EpollKnows'
    BY <1>0, <1>c, <2>1 DEF EpollTypes, EpollFresh, EpollKnows, Watchable
  <2>3. OwesInReply'
    BY <1>c, EndsOwes DEF EpollTypes
  <2>. QED  BY <1>c, <2>1, <2>2, <2>3
<1>8. CASE EpollReadFails
  <2>1. Handling /\ Handled # LISTEN /\ file[Handled] # None /\ Failing(file[Handled]) /\ Ends("read error")
    BY <1>8 DEF EpollReadFails
  <2>2. file[Handled] \in Conns /\ peer[file[Handled]] = "reset"
    BY <1>b, <2>1 DEF KernelInv, FilesInv, Watchable, Failing
  <2>3. ending' = "read error" /\ UNCHANGED <<program, peer>>
    BY <2>1, EndsKeeps
  <2>4. ExitExplained'
    BY <2>2, <2>3 DEF ExitExplained
  <2>5. pc = "dispatch"
    BY <1>b, <2>1
  <2>. QED  BY <1>c, <2>1, <2>4, <2>5
<1>9. CASE EpollBadDescriptor
  <2>1. Handling /\ Handled # LISTEN /\ file[Handled] = None /\ Ends("bad descriptor")
    BY <1>9 DEF EpollBadDescriptor
  <2>2. closed # {}
    BY <1>b, <2>1 DEF EpollKnows, OpenFds, FreeFds
  <2>3. ending' = "bad descriptor" /\ UNCHANGED <<program, closed>>
    BY <2>1, EndsKeeps
  <2>4. ExitExplained'
    BY <2>2, <2>3 DEF ExitExplained
  <2>5. pc = "dispatch"
    BY <1>b, <2>1
  <2>. QED  BY <1>c, <2>1, <2>4, <2>5
<1>10. CASE AcceptFails
  <2>1. Ends("no descriptor") /\ pc \in {"accept", "dispatch"}
    BY <1>10, <1>b DEF AcceptFails, Accepting
  <2>2. ExitExplained'
    BY <1>10, AcceptFailsExplained
  <2>. QED  BY <1>c, <2>1, <2>2
<1>11. CASE WriteKills
  <2>1. Ends("SIGPIPE") /\ pc = "reply" /\ Dead(file[mem.fd]) /\ mem.fd \in OpenFds
    BY <1>11 DEF WriteKills, EpollTypes
  <2>2. ExitExplained'
    BY <1>11, <2>1, WriteKillsExplained
  <2>. QED  BY <1>c, <2>1, <2>2
<1>12. ASSUME NEW c \in Conns, Client(c) PROVE KernelInv' /\ EpollInv' /\ ServiceStep
  <2>1. /\ KernelInv' /\ UNCHANGED <<pc, mem, ending, program, file, closed, taken, got>>
        /\ Fds' = Fds /\ FreeFds' = FreeFds /\ OpenFds' = OpenFds /\ ending = "none"
    BY <1>12, ClientKeeps
  <2>2. EpollTypes' /\ EpollKnows'
    BY <2>1 DEF EpollTypes, EpollKnows, Watchable
  <2>3. EpollFresh'
    <3> SUFFICES ASSUME pc = "dispatch", mem.i <= 1
                 PROVE  /\ \A j, k \in 1 .. n : mem.ep[j] = mem.ep[k] => j = k
                        /\ \A k \in mem.i + 1 .. n : Ready(mem.ep[k])'
      BY <2>1 DEF EpollFresh
    <3>1. /\ \A j, k \in 1 .. n : mem.ep[j] = mem.ep[k] => j = k
          /\ \A k \in mem.i + 1 .. n : Ready(mem.ep[k])
      BY DEF EpollFresh
    <3>2. ASSUME NEW k \in mem.i + 1 .. n PROVE Ready(mem.ep[k])'
      <4>1. k \in 1 .. n
        BY <1>0, LenProperties
      <4>2. PICK f : f = mem.ep[k]
        OBVIOUS
      <4>3. f \in {LISTEN} \cup Fds /\ Ready(f)
        BY <1>0, <3>1, <4>1, <4>2, ElementOfSeq DEF Watchable
      <4>4. Ready(f)'
        BY <1>12, <4>3, ReadyStays
      <4>. QED  BY <2>1, <4>2, <4>4 DEF Ready
    <3>. QED  BY <3>1, <3>2
  <2>4. OwesInReply' /\ ServiceStep
    BY <1>12, ClientOwes, ClientSeen
  <2>. QED  BY <1>a, <2>1, <2>2, <2>3, <2>4
<1>. QED
  <2>1. Epoll \/ AcceptFails \/ WriteKills \/ (\E c \in Conns : Client(c)) \/ UNCHANGED vars
    BY StepsOfPrograms DEF Selects, Sequentials, Edges
  <2>. QED  BY <1>1, <1>2, <1>3, <1>4, <1>5, <1>6, <1>7, <1>8, <1>9, <1>10, <1>11, <1>12, <2>1 DEF Epoll

-----------------------------------------------------------------------------
(* What other connections leave as it is *)

\* A stuttering step.
LEMMA VarsStay ==
  ASSUME KernelInv, UNCHANGED vars
  PROVE  /\ KernelInv' /\ UNCHANGED <<program, file, backlog, closed, peer, sent, taken, got, edge>>
         /\ UNCHANGED <<pc, mem, ending>>
         /\ Fds' = Fds /\ FreeFds' = FreeFds /\ OpenFds' = OpenFds /\ Watchable' = Watchable
         /\ ServiceStep /\ (OwesInReply => OwesInReply') /\ (ExitExplained => ExitExplained')
         /\ \A f \in Watchable : Ready(f)' <=> Ready(f)
<1>1. UNCHANGED <<pc, mem, ending, sockets, stream>>
  BY DEF vars
<1>2. /\ KernelInv' /\ UNCHANGED <<program, file, backlog, closed, peer, sent, taken, got, edge>>
      /\ Fds' = Fds /\ FreeFds' = FreeFds /\ OpenFds' = OpenFds
  BY <1>1, StillKeeps
<1>3. ServiceStep
  BY <1>2, Unseen DEF Seen
<1>4. OwesInReply => OwesInReply'
  BY <1>1, <1>2 DEF OwesInReply, Owes
<1>5. ExitExplained => ExitExplained'
  BY <1>1, <1>2 DEF ExitExplained, Alive, Zombies, Running, In, Dead
<1>6. \A f \in Watchable : Ready(f)' <=> Ready(f)
  BY <1>2 DEF Ready, Readable, Unread, AtEnd, Failing
<1>. QED  BY <1>1, <1>2, <1>3, <1>4, <1>5, <1>6 DEF Watchable

\* What happens to the other connections leaves a descriptor ready.
LEMMA ReadySame ==
  ASSUME NEW f \in Fds, NEW d, d = file[f], file'[f] = d, peer'[d] = peer[d], sent'[d] = sent[d],
         taken'[d] = taken[d], Ready(f)
  PROVE  Ready(f)'
<1>1. f # LISTEN
  BY FdsArePositive
<1>. QED  BY <1>1 DEF Ready, Readable, Unread, AtEnd, Failing

\* What happens to one connection leaves the descriptors of the others ready.
LEMMA ReadyBeside ==
  ASSUME KernelInv, NEW f \in OpenFds, NEW g \in OpenFds, f # g, Ready(f),
         file'[f] = file[f],
         \/ UNCHANGED <<peer, sent>> /\ \E x : taken' = [taken EXCEPT ![file[g]] = x]
         \/ UNCHANGED <<sent, taken>> /\ \E x : peer' = [peer EXCEPT ![file[g]] = x]
         \/ UNCHANGED <<peer, sent, taken>>
  PROVE  Ready(f)'
<1>1. f \in Fds /\ g \in Fds /\ file[f] # None /\ file[f] # file[g] /\ file[f] \in Conns
  BY OneIsServed DEF KernelInv, FilesInv
<1>2. PICK d, e : d = file[f] /\ e = file[g]
  OBVIOUS
<1>3. peer'[d] = peer[d] /\ sent'[d] = sent[d] /\ taken'[d] = taken[d]
  BY <1>1, <1>2 DEF KernelInv, StreamInv
<1>. QED  BY <1>1, <1>2, <1>3, ReadySame

-----------------------------------------------------------------------------
(* The servers that serve one connection at a time *)

\* The memory of the servers that serve one connection at a time.
Served ==
  [fd : Watchable, buf : Seq(Conns \X Nat), clientaddr_len : {"usable", "negative"}]

\* Where these servers are, and that the connection they serve is open.
SequentialTypes ==
  /\ mem \in Served
  /\ pc \in {"accept", "read", "reply", "ended"} /\ (pc = "ended" <=> ending # "none")
  /\ pc \in {"read", "reply"} => mem.fd \in OpenFds
  /\ pc = "reply" => mem.buf # <<>>
  /\ program = "local" => mem.clientaddr_len = "usable"

\* The inductive invariant of the servers that serve one connection at a time.
SequentialInv == SequentialTypes /\ OwesInReply /\ ExitExplained

\* Every step of theirs and of their clients keeps it, and is one of the service.
LEMMA SequentialStep ==
  ASSUME KernelInv, program \in Sequentials, SequentialInv, [Next]_vars
  PROVE  KernelInv' /\ SequentialInv' /\ ServiceStep
<1> USE DEF SequentialInv
<1>0. /\ mem \in Served /\ program \in {"local", "simple"}
      /\ program = "local" => mem.clientaddr_len = "usable"
  BY DEF SequentialTypes, Sequentials
<1>1. CASE UNCHANGED vars
  <2>1. UNCHANGED <<pc, mem, ending, sockets, stream>>
    BY <1>1 DEF vars
  <2>2. /\ KernelInv' /\ UNCHANGED <<program, file, backlog, closed, peer, sent, taken, got, edge>>
        /\ Fds' = Fds /\ FreeFds' = FreeFds /\ OpenFds' = OpenFds
    BY <2>1, StillKeeps
  <2>3. ServiceStep
    BY <2>2, Unseen DEF Seen
  <2>4. SequentialTypes'
    BY <2>1, <2>2 DEF SequentialTypes, Served, Watchable
  <2>5. OwesInReply'
    BY <2>1, <2>2 DEF OwesInReply, Owes
  <2>6. ExitExplained'
    BY <2>1, <2>2 DEF ExitExplained, Alive, Zombies, Running, In, Dead
  <2>. QED  BY <2>2, <2>3, <2>4, <2>5, <2>6
<1>2. CASE SequentialAccept
  <2>1. /\ pc = "accept" /\ pc' = "read" /\ mem' = [mem EXCEPT !.fd = NewFd] /\ ending = "none"
        /\ UNCHANGED <<ending, closed, stream>>
    BY <1>2 DEF SequentialAccept, At, SequentialTypes
  <2>2. PICK c \in Conns : Accepts(c)
    BY <1>2 DEF SequentialAccept
  <2>3. /\ KernelInv' /\ NewFd \in FreeFds /\ program' = program /\ Fds' = Fds
        /\ OpenFds' = OpenFds \cup {NewFd}
    BY <2>1, <2>2, AcceptsKeeps
  <2>4. PICK f : f = NewFd
    OBVIOUS
  <2>5. f \in Watchable /\ f \in OpenFds' /\ Watchable' = Watchable
    BY <2>3, <2>4 DEF FreeFds, Watchable
  <2>6. mem' \in Served /\ mem'.fd = f /\ mem'.clientaddr_len = mem.clientaddr_len
    <3>1. mem' = [mem EXCEPT !.fd = f]
      BY <2>1, <2>4
    <3>. QED  BY <1>0, <2>5, <3>1 DEF Served
  <2>7. SequentialTypes'
    BY <1>0, <2>1, <2>3, <2>5, <2>6 DEF SequentialTypes, Served
  <2>. QED  BY <2>1, <2>3, <2>7, NotEnded, StreamOwes
<1>3. CASE SequentialRead
  <2>1. /\ pc = "read" /\ Serves(mem.fd) /\ mem' = [mem EXCEPT !.buf = Arrived(file[mem.fd], MAXLINE)]
        /\ mem.fd \in OpenFds /\ ending = "none"
    BY <1>3 DEF SequentialRead, At, SequentialTypes
  <2>2. PICK f : f = mem.fd
    OBVIOUS
  <2>3. mem'.fd = f /\ mem'.buf = Arrived(file[f], MAXLINE) /\ mem'.clientaddr_len = mem.clientaddr_len
    BY <1>0, <2>1, <2>2 DEF Served
  <2>4. /\ KernelInv' /\ ServiceStep /\ OwesInReply' /\ pc' = "reply" /\ ending' = ending
        /\ UNCHANGED <<program, file>> /\ OpenFds' = OpenFds /\ Fds' = Fds
        /\ mem'.buf \in Seq(Conns \X Nat) /\ mem'.buf # <<>>
    <3>1. f \in OpenFds /\ Serves(f) /\ pc # "reply"
      BY <2>1, <2>2
    <3>. QED  BY <2>3, <3>1, ReadOwes
  <2>5. mem' \in Served
    BY <1>0, <2>1, <2>2, <2>3, <2>4 DEF Served
  <2>6. SequentialTypes'
    BY <1>0, <2>1, <2>2, <2>3, <2>4, <2>5 DEF SequentialTypes, Served, Watchable
  <2>. QED  BY <2>1, <2>4, <2>6, NotEnded
<1>4. CASE SequentialReply
  <2>1. /\ pc = "reply" /\ Writes(file[mem.fd], mem.buf) /\ UNCHANGED <<ending, sockets>> /\ pc' = "read"
        /\ mem' = [mem EXCEPT !.buf = <<>>]
    BY <1>4 DEF SequentialReply, Replies, At
  <2>2. mem.fd \in OpenFds /\ mem.buf \in Seq(Conns \X Nat) /\ mem.buf # <<>> /\ ending = "none"
    BY <1>0, <2>1 DEF SequentialTypes, Served
  <2>3. /\ KernelInv' /\ ServiceStep /\ OwesInReply'
        /\ UNCHANGED <<program, file>> /\ OpenFds' = OpenFds /\ Fds' = Fds
    BY <1>0, <2>1, <2>2, ReplyOwes
  <2>4. mem' \in Served /\ mem'.fd = mem.fd /\ mem'.clientaddr_len = mem.clientaddr_len
    <3>1. <<>> \in Seq(Conns \X Nat)
      BY EmptySeq
    <3>. QED  BY <1>0, <2>1, <3>1 DEF Served
  <2>5. SequentialTypes'
    BY <1>0, <2>1, <2>2, <2>3, <2>4 DEF SequentialTypes, Served, Watchable
  <2>. QED  BY <2>1, <2>2, <2>3, <2>5, NotEnded
<1>5. CASE LocalClose
  <2>1. /\ pc = "read" /\ pc' = "accept" /\ Closes(mem.fd) /\ StreamEnds(file[mem.fd])
        /\ mem' = [mem EXCEPT !.fd = LISTEN] /\ UNCHANGED ending /\ mem.fd \in OpenFds /\ ending = "none"
    BY <1>5 DEF LocalClose, At, StreamEnds, SequentialTypes
  <2>2. mem.fd \in Fds /\ file[mem.fd] # None
    BY <2>1, OneIsServed
  <2>3. KernelInv' /\ program' = program /\ Fds' = Fds
    BY <2>1, <2>2, ClosesKeeps
  <2>4. ServiceStep /\ OwesInReply'
    BY <1>0, <2>1, CloseOwes
  <2>5. mem' \in Served /\ mem'.clientaddr_len = mem.clientaddr_len
    BY <1>0, <2>1 DEF Served, Watchable
  <2>6. SequentialTypes'
    BY <1>0, <2>1, <2>3, <2>5 DEF SequentialTypes, Served, Watchable
  <2>. QED  BY <2>1, <2>3, <2>4, <2>6, NotEnded
<1>6. CASE SimpleReadFails
  <2>1. /\ pc = "read" /\ TakesError(file[mem.fd]) /\ UNCHANGED <<pc, mem, ending, sockets>> /\ ending = "none"
    BY <1>6 DEF SimpleReadFails, At, SequentialTypes
  <2>2. KernelInv' /\ ServiceStep /\ OwesInReply'
    BY <2>1, ErrorOwes
  <2>3. Fds' = Fds /\ OpenFds' = OpenFds /\ program' = program
    BY <2>1 DEF sockets, Fds, OpenFds, FreeFds
  <2>4. SequentialTypes'
    BY <2>1, <2>3 DEF SequentialTypes, Served, Watchable
  <2>. QED  BY <2>1, <2>2, <2>4, NotEnded
<1>c. ASSUME NEW why, Ends(why), pc # "ended", why # "none", ExitExplained', pc = "reply" => Dead(file[mem.fd])
      PROVE  KernelInv' /\ SequentialInv' /\ ServiceStep
  <2>1. /\ KernelInv' /\ ServiceStep /\ ending' = why /\ pc' = "ended"
        /\ UNCHANGED <<mem, program>> /\ Fds' = Fds
    BY <1>c, EndsKeeps
  <2>2. SequentialTypes'
    BY <1>0, <1>c, <2>1 DEF SequentialTypes, Served, Watchable
  <2>3. OwesInReply'
    BY <1>c, EndsOwes DEF SequentialTypes
  <2>. QED  BY <1>c, <2>1, <2>2, <2>3
<1>7. CASE SequentialAcceptFails
  <2>1. pc = "accept" /\ program = "simple" /\ Ends("accept error")
    BY <1>0, <1>7 DEF SequentialAcceptFails, At
  <2>2. ending' = "accept error" /\ program' = program
    BY <2>1, EndsKeeps
  <2>3. ExitExplained'
    BY <2>1, <2>2 DEF ExitExplained
  <2>. QED  BY <1>c, <2>1, <2>3
<1>8. CASE SimpleKilled
  <2>1. pc = "read" /\ Dead(file[mem.fd]) /\ Ends("SIGPIPE") /\ mem.fd \in OpenFds
    BY <1>8 DEF SimpleKilled, At, SequentialTypes
  <2>2. ending' = "SIGPIPE" /\ UNCHANGED <<program, mem, file, peer>>
    BY <2>1, EndsKeeps
  <2>3. \E c \in Conns : Dead(c)'
    BY <2>1, <2>2, OneIsServed DEF Dead
  <2>4. ExitExplained'
    BY <1>0, <2>2, <2>3 DEF ExitExplained
  <2>. QED  BY <1>c, <2>1, <2>4
<1>9. CASE AcceptFails
  <2>1. Ends("no descriptor") /\ pc = "accept"
    BY <1>0, <1>9 DEF AcceptFails, Accepting, Handling, At
  <2>2. ExitExplained'
    BY <1>9, AcceptFailsExplained
  <2>. QED  BY <1>c, <2>1, <2>2
<1>10. CASE WriteKills
  <2>1. Ends("SIGPIPE") /\ pc = "reply" /\ Dead(file[mem.fd]) /\ mem.fd \in OpenFds
    BY <1>10 DEF WriteKills, SequentialTypes
  <2>2. ExitExplained'
    BY <1>0, <1>10, <2>1, WriteKillsExplained
  <2>. QED  BY <1>c, <2>1, <2>2
<1>11. ASSUME NEW c \in Conns, Client(c) PROVE KernelInv' /\ SequentialInv' /\ ServiceStep
  <2>1. /\ KernelInv' /\ UNCHANGED <<pc, mem, ending, program>>
        /\ Fds' = Fds /\ OpenFds' = OpenFds /\ ending = "none"
    BY <1>11, ClientKeeps
  <2>2. SequentialTypes'
    BY <2>1 DEF SequentialTypes, Served, Watchable
  <2>3. OwesInReply' /\ ServiceStep
    BY <1>11, ClientOwes, ClientSeen
  <2>. QED  BY <2>1, <2>2, <2>3, NotEnded
<1>. QED
  <2>1. Sequential \/ AcceptFails \/ WriteKills \/ (\E c \in Conns : Client(c)) \/ UNCHANGED vars
    BY <1>0, StepsOfPrograms DEF Selects, Edges
  <2>. QED
    BY <1>1, <1>2, <1>3, <1>4, <1>5, <1>6, <1>7, <1>8, <1>9, <1>10, <1>11, <2>1 DEF Sequential

-----------------------------------------------------------------------------
(* server-poll *)

\* The memory of server-poll.
PollMemory ==
  [client : [Entries -> Fds \cup {None}], revents : SUBSET (0 .. OPEN_MAX - 1),
   maxi : 0 .. OPEN_MAX - 1, N : Int, i : Nat \ {0}, fd : Watchable, buf : Seq(Conns \X Nat)]

\* Where server-poll is, and that its table has the open descriptors.
PollTypes ==
  /\ mem \in PollMemory
  /\ pc \in {"wait", "accept", "scan", "reply", "ended"} /\ (pc = "ended" <=> ending # "none")
  /\ Registers(mem.client, mem.maxi)
  /\ pc = "reply" => mem.buf # <<>> /\ mem.fd = PollHit

\* Before accept every entry with revents is in use, ready, and counted.
PollAccepts ==
  pc = "accept" =>
    /\ backlog # {} /\ mem.i = 1 /\ mem.N = Cardinality(PollHits) + 1
    /\ \A k \in PollHits : Ready(mem.client[k])
    /\ \A k \in 1 .. mem.maxi : k \in mem.revents => mem.client[k] # None

\* The entries that poll counted come before one that was only just entered,
\* whose revents may be anything; all but the one in hand are ready.
PollCounted(D) ==
  /\ D # {} /\ Cardinality(D) = mem.N
  /\ \A k \in D, m \in PollHits \ D : k < m
  /\ \A k \in D : Ready(mem.client[k]) \/ (pc = "reply" /\ k = Min(PollHits))

\* While it scans, N counts entries that poll reported, and these come first.
PollScans == pc \in {"scan", "reply"} => \E D \in SUBSET PollHits : PollCounted(D)

\* The inductive invariant of server-poll.
PollInv == PollTypes /\ PollAccepts /\ PollScans /\ OwesInReply /\ ExitExplained

\* What the scan may come to: open descriptors, each once.
LEMMA PollHitsAre ==
  ASSUME PollTypes
  PROVE  /\ PollHits \subseteq Entries /\ PollHits \subseteq mem.i .. mem.maxi /\ IsFiniteSet(PollHits)
         /\ PollHits \subseteq Nat
         /\ \A k \in PollHits : mem.client[k] \in OpenFds
         /\ \A j, k \in PollHits : mem.client[j] = mem.client[k] => j = k
<1>1. /\ mem.client \in [Entries -> Fds \cup {None}] /\ mem.maxi \in 0 .. OPEN_MAX - 1 /\ mem.i \in Nat \ {0}
      /\ Registers(mem.client, mem.maxi)
  BY DEF PollTypes, PollMemory
<1>2. OPEN_MAX \in Nat \ {0}
  BY PollAssumption
<1>3. PollHits \subseteq mem.i .. mem.maxi
  BY DEF PollHits
<1>4. mem.i .. mem.maxi \subseteq Entries
  BY <1>1, <1>2 DEF Entries
<1>5. IsFiniteSet(PollHits)
  <2>1. IsFiniteSet(mem.i .. mem.maxi)
    BY <1>1, FS_Interval
  <2>. QED  BY <1>3, <2>1, FS_Subset
<1>6. \A k \in PollHits : mem.client[k] # None
  BY DEF PollHits
<1>7. \A k \in PollHits : mem.client[k] \in OpenFds
  BY <1>1, <1>3, <1>4, <1>6 DEF Registers, Range
<1>8. \A j, k \in PollHits : mem.client[j] = mem.client[k] => j = k
  BY <1>1, <1>3, <1>4, <1>6 DEF Registers
<1>9. PollHits \subseteq Nat
  BY <1>3, <1>4 DEF Entries
<1>. QED  BY <1>3, <1>4, <1>5, <1>7, <1>8, <1>9

\* The scan comes to an entry that poll counted.
LEMMA PollFirst ==
  ASSUME PollTypes, NEW D \in SUBSET PollHits, PollCounted(D)
  PROVE  /\ Min(PollHits) \in D /\ Min(PollHits) \in PollHits /\ Min(PollHits) \in Entries
         /\ PollHit \in OpenFds /\ PollHit = mem.client[Min(PollHits)]
         /\ \A k \in PollHits : Min(PollHits) <= k
         /\ mem.N \in Nat /\ IsFiniteSet(D)
<1>1. PollHits \subseteq Nat /\ PollHits # {} /\ PollHits \subseteq Entries /\ IsFiniteSet(PollHits)
  BY PollHitsAre DEF PollCounted
<1>2. Min(PollHits) \in PollHits /\ \A k \in PollHits : Min(PollHits) <= k
  BY <1>1, MinIs
<1>3. Min(PollHits) \in D
  <2>1. PICK k \in D : TRUE
    BY DEF PollCounted
  <2>2. PICK m : m = Min(PollHits)
    OBVIOUS
  <2>3. k \in Nat /\ m \in Nat /\ m <= k
    BY <1>1, <1>2, <2>2
  <2>4. m \in D
    BY <1>2, <2>1, <2>2, <2>3 DEF PollCounted
  <2>. QED  BY <2>2, <2>4
<1>4. IsFiniteSet(D)
  BY <1>1, FS_Subset
<1>. QED  BY <1>1, <1>2, <1>3, <1>4, PollHitsAre, FS_CardinalityType DEF PollHit, PollCounted

\* An entry is handled, and its descriptor perhaps closed; nothing happens to the others.
LEMMA PollGoesOn ==
  ASSUME KernelInv, PollTypes, PollScans, pc \in {"scan", "reply"}, ending = "none",
         PollHandled(Min(PollHits)), Fds' = Fds,
         \/ OpenFds' = OpenFds /\ FreeFds' = FreeFds
         \/ OpenFds' = OpenFds \ {PollHit} /\ FreeFds' = FreeFds \cup {PollHit},
         \A f \in OpenFds \ {PollHit} : Ready(f) => Ready(f)'
  PROVE  PollTypes' /\ PollAccepts' /\ PollScans' /\ pc' # "reply" /\ pc' # "ended" /\ ending' = "none"
<1>1. PICK D \in SUBSET PollHits : PollCounted(D)
  BY DEF PollScans
<1>2. PICK k, hits, fd : k = Min(PollHits) /\ hits = PollHits /\ fd = PollHit
  OBVIOUS
<1>3. /\ k \in D /\ k \in hits /\ k \in Entries /\ k \in Nat /\ fd \in OpenFds /\ fd = mem.client[k]
      /\ \A j \in hits : k <= j
      /\ mem.N \in Nat /\ IsFiniteSet(D) /\ hits \subseteq Entries /\ hits \subseteq Nat
      /\ \A j \in hits : mem.client[j] \in OpenFds
      /\ \A i, j \in hits : mem.client[i] = mem.client[j] => i = j
  BY <1>1, <1>2, PollFirst, PollHitsAre
<1>4. /\ mem \in PollMemory /\ Registers(mem.client, mem.maxi) /\ Watchable' = Watchable
      /\ mem.client \in [Entries -> Fds \cup {None}] /\ mem.maxi \in 0 .. OPEN_MAX - 1 /\ mem.i \in Nat \ {0}
      /\ fd # None /\ fd \in Fds /\ mem.maxi \in Nat
  <2>1. mem \in PollMemory /\ Registers(mem.client, mem.maxi) /\ Watchable' = Watchable /\ OPEN_MAX \in Nat
    BY PollAssumption DEF PollTypes, Watchable
  <2>2. fd # None /\ fd \in Fds
    BY <1>3, KernelAssumption DEF OpenFds, Fds
  <2>. QED  BY <2>1, <2>2 DEF PollMemory
<1>5. PICK client : client = [mem.client EXCEPT ![k] = IF fd \in FreeFds' THEN None ELSE mem.client[k]]
  OBVIOUS
<1>6. /\ mem' = [mem EXCEPT !.N = mem.N - 1, !.i = k + 1, !.fd = LISTEN, !.buf = <<>>, !.client = client]
      /\ pc' = (IF mem.N = 1 \/ hits = {k} THEN "wait" ELSE "scan") /\ ending' = ending
  <2>1. mem' = [mem EXCEPT !.N = mem.N - 1, !.i = k + 1, !.fd = LISTEN, !.buf = <<>>,
               !.client[k] = IF fd \in FreeFds' THEN None ELSE mem.client[k]]
    BY <1>2, <1>4 DEF PollHandled, PollMemory
  <2>. QED  BY <1>2, <1>4, <1>5, <2>1 DEF PollHandled, PollMemory
<1>7. client \in [Entries -> Fds \cup {None}] /\ \A j \in Entries : j # k => client[j] = mem.client[j]
  BY <1>3, <1>4, <1>5
<1>8. /\ mem'.client = client /\ mem'.maxi = mem.maxi /\ mem'.i = k + 1 /\ mem'.N = mem.N - 1
      /\ mem'.revents = mem.revents /\ mem' \in PollMemory'
  <2>1. PICK N, i, none : N = mem.N - 1 /\ i = k + 1 /\ none = <<>>
    OBVIOUS
  <2>2. N \in Int /\ i \in Nat \ {0} /\ none \in Seq(Conns \X Nat) /\ LISTEN \in Watchable
    BY <1>3, <2>1, EmptySeq DEF Watchable
  <2>3. mem' = [mem EXCEPT !.N = N, !.i = i, !.fd = LISTEN, !.buf = none, !.client = client]
    BY <1>6, <2>1
  <2>4. mem'.client = client /\ mem'.maxi = mem.maxi /\ mem'.i = i /\ mem'.N = N
        /\ mem'.revents = mem.revents
    BY <1>4, <2>3 DEF PollMemory
  <2>5. mem' \in PollMemory
    BY <1>4, <1>7, <2>2, <2>3 DEF PollMemory
  <2>. QED  BY <1>4, <2>1, <2>4, <2>5 DEF PollMemory
<1>9. Registers(client, mem.maxi)'
  <2>1. OpenFds = Range(mem.client) \ {None} /\ \A i, j \in Entries : mem.client[j] # None =>
          j <= mem.maxi /\ (mem.client[j] = mem.client[i] => j = i)
    BY <1>4 DEF Registers
  <2>2. CASE OpenFds' = OpenFds /\ FreeFds' = FreeFds
    <3>1. fd \notin FreeFds'
      BY <1>3, <2>2 DEF OpenFds
    <3>2. client = mem.client
      BY <1>4, <1>5, <1>7, <3>1
    <3>. QED  BY <1>4, <1>8, <2>2, <3>2 DEF Registers
  <2>3. CASE OpenFds' = OpenFds \ {fd} /\ FreeFds' = FreeFds \cup {fd}
    <3>1. client[k] = None
      BY <1>3, <1>4, <1>5, <2>3
    <3>2. \A x : x \in Range(client) \ {None} <=> x \in Range(mem.client) \ {None, fd}
      <4>1. \A x : x \in Range(client) <=> \E j \in Entries : client[j] = x
        BY <1>7 DEF Range
      <4>2. \A x : x \in Range(mem.client) <=> \E j \in Entries : mem.client[j] = x
        BY <1>4 DEF Range
      <4>3. \A j \in Entries : mem.client[j] = fd => j = k
        BY <1>3, <1>4, <2>1
      <4>. QED  BY <1>3, <1>7, <3>1, <4>1, <4>2, <4>3
    <3>3. OpenFds' = Range(client) \ {None}
      BY <2>1, <2>3, <3>2
    <3>4. \A i, j \in Entries : client[j] # None => j <= mem.maxi /\ (client[j] = client[i] => j = i)
      BY <1>7, <2>1, <3>1
    <3>5. DOMAIN client = Entries
      BY <1>7
    <3>. QED  BY <1>4, <1>8, <3>3, <3>4, <3>5 DEF Registers
  <2>. QED  BY <1>2, <2>2, <2>3
<1>10. pc' \in {"wait", "scan"}
  BY <1>6
<1>11. PollTypes'
  <2>1. Registers(mem.client, mem.maxi)'
    BY <1>8, <1>9 DEF Registers
  <2>. QED  BY <1>6, <1>8, <1>10, <2>1 DEF PollTypes
<1>12. PollScans'
  <2> SUFFICES ASSUME pc' = "scan" PROVE \E E \in SUBSET PollHits' : PollCounted(E)'
    BY <1>10 DEF PollScans
  <2>1. PICK left : left = D \ {k}
    OBVIOUS
  <2>2. mem.N # 1 /\ hits # {k}
    BY <1>6, <1>10
  <2>3. PollHits' = hits \ {k}
    <3>1. \A j \in Nat : j \in k + 1 .. mem.maxi <=> (j \in mem.i .. mem.maxi /\ k < j) \/ (j < mem.i /\ k < j /\ j <= mem.maxi)
      BY <1>3, <1>4
    <3>2. k >= mem.i
      BY <1>2, <1>3, <1>4, PollHitsAre
    <3>3. \A j \in Nat : j \in k + 1 .. mem.maxi <=> j \in mem.i .. mem.maxi /\ k < j
      BY <1>3, <1>4, <3>1, <3>2
    <3>4. \A j : j \in PollHits' <=> j \in k + 1 .. mem.maxi /\ client[j] # None /\ j \in mem.revents
      BY <1>8 DEF PollHits
    <3>5. \A j : j \in hits <=> j \in mem.i .. mem.maxi /\ mem.client[j] # None /\ j \in mem.revents
      BY <1>2 DEF PollHits
    <3>6. \A j \in k + 1 .. mem.maxi : j \in Nat /\ j # k /\ j \in Entries
      <4>1. k \in Nat /\ OPEN_MAX \in Nat /\ mem.maxi \in 0 .. OPEN_MAX - 1
        BY <1>3, <1>4, PollAssumption
      <4>. QED  BY <4>1 DEF Entries
    <3>7. \A j \in hits \ {k} : j \in Nat /\ k < j
      BY <1>3
    <3>. QED  BY <1>7, <3>3, <3>4, <3>5, <3>6, <3>7
  <2>4. Cardinality(D) = mem.N /\ (\A j \in D, m \in hits \ D : j < m)
        /\ \A j \in D : Ready(mem.client[j]) \/ j = k
    BY <1>1, <1>2 DEF PollCounted
  <2>5. Cardinality(left) = mem.N - 1
    BY <1>3, <2>1, <2>4, FS_RemoveElement
  <2>6. left # {}
    BY <1>3, <2>2, <2>5, FS_EmptySet
  <2>7. \A j \in left, m \in PollHits' \ left : j < m
    BY <1>2, <2>1, <2>3, <2>4
  <2>8. ASSUME NEW j \in left PROVE Ready(mem.client[j])'
    <3>1. j \in hits /\ j # k /\ Ready(mem.client[j]) /\ j \in Entries
      BY <1>2, <1>3, <2>1, <2>4, <2>8
    <3>2. PICK f : f = mem.client[j]
      OBVIOUS
    <3>3. f \in OpenFds \ {fd} /\ mem'.client[j] = f /\ Ready(f)
      BY <1>3, <1>7, <1>8, <3>1, <3>2
    <3>4. Ready(f)'
      BY <1>2, <3>3
    <3>. QED  BY <3>3, <3>4 DEF Ready
  <2>9. left \in SUBSET PollHits'
    BY <1>2, <2>1, <2>3
  <2>10. PollCounted(left)'
    BY <1>8, <2>5, <2>6, <2>7, <2>8 DEF PollCounted
  <2>. QED  BY <2>9, <2>10
<1>. QED  BY <1>6, <1>10, <1>11, <1>12 DEF PollAccepts

\* The types of server-poll's variables, one by one.
LEMMA PollFields ==
  ASSUME PollTypes
  PROVE  /\ mem \in PollMemory /\ mem.client \in [Entries -> Fds \cup {None}] /\ mem.maxi \in 0 .. OPEN_MAX - 1
         /\ mem.maxi \in Nat /\ mem.i \in Nat \ {0} /\ mem.N \in Int /\ mem.revents \in SUBSET (0 .. OPEN_MAX - 1)
         /\ OPEN_MAX \in Nat \ {0} /\ OPEN_MAX - 1 \in Nat /\ Registers(mem.client, mem.maxi)
<1>1. mem \in PollMemory /\ Registers(mem.client, mem.maxi)
  BY DEF PollTypes
<1>2. OPEN_MAX \in Nat \ {0} /\ OPEN_MAX - 1 \in Nat
  BY PollAssumption
<1>3. /\ mem.client \in [Entries -> Fds \cup {None}] /\ mem.maxi \in 0 .. OPEN_MAX - 1
      /\ mem.i \in Nat \ {0} /\ mem.N \in Int /\ mem.revents \in SUBSET (0 .. OPEN_MAX - 1)
  BY <1>1 DEF PollMemory
<1>. QED  BY <1>1, <1>2, <1>3

\* poll counts the entries whose revents it sets.
LEMMA PollWaitKeeps ==
  ASSUME KernelInv, PollInv, PollWait
  PROVE  KernelInv' /\ PollInv' /\ ServiceStep
<1> USE DEF PollInv
<1>1. PICK due, revents, n : /\ due = {k \in 0 .. mem.maxi : Due(k)} /\ n = Cardinality(due)
                   /\ revents = (mem.revents \ (0 .. mem.maxi)) \cup due
  OBVIOUS
<1>2. /\ pc = "wait" /\ due # {} /\ mem' = [mem EXCEPT !.N = n, !.i = 1, !.revents = revents]
      /\ pc' = (IF 0 \in due THEN "accept" ELSE "scan") /\ UNCHANGED <<ending, sockets, stream>>
  BY <1>1 DEF PollWait, At
<1>3. /\ KernelInv' /\ UNCHANGED <<program, file, backlog, closed, peer, sent, taken, got, edge>>
      /\ Fds' = Fds /\ FreeFds' = FreeFds /\ OpenFds' = OpenFds /\ ending = "none" /\ Watchable' = Watchable
  BY <1>2, StillKeeps DEF PollTypes, Watchable
<1>4. /\ mem \in PollMemory /\ mem.client \in [Entries -> Fds \cup {None}] /\ mem.maxi \in 0 .. OPEN_MAX - 1
      /\ mem.maxi \in Nat /\ mem.revents \in SUBSET (0 .. OPEN_MAX - 1) /\ OPEN_MAX \in Nat
      /\ Registers(mem.client, mem.maxi)
  BY PollFields
<1>5. IsFiniteSet(due) /\ n \in Nat /\ due \subseteq 0 .. mem.maxi
  <2>1. IsFiniteSet(0 .. mem.maxi) /\ due \subseteq 0 .. mem.maxi
    BY <1>1, <1>4, FS_Interval
  <2>. QED  BY <1>1, <2>1, FS_Subset, FS_CardinalityType
<1>6. revents \in SUBSET (0 .. OPEN_MAX - 1)
  BY <1>1, <1>4, <1>5
<1>7. /\ mem' \in PollMemory' /\ mem'.N = n /\ mem'.i = 1 /\ mem'.revents = revents
      /\ mem'.client = mem.client /\ mem'.maxi = mem.maxi
  <2>1. n \in Int /\ 1 \in Nat \ {0}
    BY <1>5
  <2>2. mem' = [mem EXCEPT !.N = n, !.i = 1, !.revents = revents]
    BY <1>2
  <2>3. mem'.N = n /\ mem'.i = 1 /\ mem'.revents = revents /\ mem'.client = mem.client /\ mem'.maxi = mem.maxi
    BY <1>4, <2>2 DEF PollMemory
  <2>4. mem' \in PollMemory
    BY <1>4, <1>6, <2>1, <2>2 DEF PollMemory
  <2>. QED  BY <1>3, <2>3, <2>4 DEF PollMemory
<1>8. PollHits' = due \ {0}
  <2>1. \A k : k \in PollHits' <=> k \in 1 .. mem.maxi /\ mem.client[k] # None /\ k \in revents
    BY <1>7 DEF PollHits
  <2>2. \A k \in 1 .. mem.maxi : k \in 0 .. mem.maxi /\ k # 0
    BY <1>4
  <2>3. \A k \in 0 .. mem.maxi : k # 0 => k \in 1 .. mem.maxi
    BY <1>4
  <2>4. \A k \in 1 .. mem.maxi : k \in revents <=> k \in due
    BY <1>1, <2>2
  <2>5. \A k \in due : k # 0 => mem.client[k] # None
    BY <1>1 DEF Due
  <2>. QED  BY <1>5, <2>1, <2>2, <2>3, <2>4, <2>5
<1>9. \A k \in PollHits' : Ready(mem.client[k])' /\ mem'.client[k] = mem.client[k]
  <2>1. ASSUME NEW k \in PollHits' PROVE Ready(mem.client[k])'
    <3>1. PICK f : f = mem.client[k]
      OBVIOUS
    <3>2. Ready(f)
      BY <1>1, <1>8, <2>1, <3>1 DEF Due
    <3>3. Ready(f)'
      BY <1>3, <3>2 DEF Ready, Readable, Unread, AtEnd, Failing
    <3>. QED  BY <1>7, <3>1, <3>3 DEF Ready
  <2>. QED  BY <1>7, <2>1
<1>10. PollTypes'
  <2>1. Registers(mem.client, mem.maxi)'
    BY <1>3, <1>4, <1>7 DEF Registers
  <2>. QED  BY <1>2, <1>3, <1>7, <2>1 DEF PollTypes
<1>11. PollAccepts'
  <2> SUFFICES ASSUME 0 \in due
      PROVE  /\ backlog # {} /\ mem'.N = Cardinality(PollHits') + 1
             /\ \A k \in 1 .. mem.maxi : k \in revents => mem.client[k] # None
    BY <1>2, <1>3, <1>7, <1>9 DEF PollAccepts
  <2>1. backlog # {}
    BY <1>1 DEF Due, Ready
  <2>2. Cardinality(PollHits') = n - 1
    BY <1>1, <1>5, <1>8, FS_RemoveElement
  <2>3. ASSUME NEW k \in 1 .. mem.maxi, k \in revents PROVE mem.client[k] # None
    <3>1. k \in 0 .. mem.maxi /\ k # 0
      BY <1>4
    <3>. QED  BY <1>1, <2>3, <3>1 DEF Due
  <2>. QED  BY <1>5, <1>7, <2>1, <2>2, <2>3
<1>12. PollScans'
  <2> SUFFICES ASSUME 0 \notin due PROVE PollCounted(due)' /\ due \in SUBSET PollHits'
    BY <1>2 DEF PollScans
  <2>1. due = PollHits'
    BY <1>8
  <2>2. \A k \in due : Ready(mem.client[k])'
    BY <1>9, <2>1
  <2>. QED  BY <1>1, <1>2, <1>7, <2>1, <2>2 DEF PollCounted
<1>13. ServiceStep /\ OwesInReply'
  BY <1>2, <1>3, StreamOwes
<1>. QED  BY <1>2, <1>3, <1>10, <1>11, <1>12, <1>13, NotEnded

\* The new entry is the first unused one, and beyond every entry with revents
\* that poll set.
LEMMA PollAcceptKeeps ==
  ASSUME KernelInv, PollInv, PollAccept
  PROVE  KernelInv' /\ PollInv' /\ ServiceStep
<1> USE DEF PollInv
<1>1. PICK c \in Conns : Accepts(c)
  BY DEF PollAccept
<1>2. PICK m, fd, n, maxi, client, hits :
        /\ m = Min(Unused) /\ fd = NewFd /\ n = mem.N - 1 /\ maxi = Max({mem.maxi, m})
        /\ client = [mem.client EXCEPT ![m] = fd] /\ hits = PollHits
  OBVIOUS
<1>3. /\ mem \in PollMemory /\ mem.client \in [Entries -> Fds \cup {None}] /\ mem.maxi \in 0 .. OPEN_MAX - 1
      /\ mem.maxi \in Nat /\ mem.i \in Nat \ {0} /\ mem.N \in Int /\ OPEN_MAX \in Nat
      /\ Registers(mem.client, mem.maxi)
  BY PollFields
<1>4. /\ pc = "accept" /\ Unused # {} /\ UNCHANGED <<ending, closed, stream>> /\ ending = "none"
      /\ pc' = (IF mem.N <= 1 THEN "wait" ELSE "scan")
      /\ mem' = [mem EXCEPT !.client = client, !.N = n, !.maxi = maxi]
  <2>1. mem' = [mem EXCEPT !.client[m] = fd, !.N = mem.N - 1, !.maxi = Max({mem.maxi, m})]
    BY <1>2, <1>3 DEF PollAccept, PollMemory
  <2>2. mem' = [mem EXCEPT !.client = client, !.N = n, !.maxi = maxi]
    BY <1>2, <1>3, <2>1 DEF PollMemory
  <2>. QED  BY <2>2 DEF PollAccept, At, PollTypes
<1>5. /\ KernelInv' /\ fd \in FreeFds /\ program' = program /\ Fds' = Fds /\ Watchable' = Watchable
      /\ file' = [file EXCEPT ![fd] = c] /\ FreeFds' = FreeFds \ {fd} /\ OpenFds' = OpenFds \cup {fd}
  BY <1>1, <1>2, <1>4, AcceptsKeeps DEF Watchable
<1>6. m \in Entries /\ mem.client[m] = None /\ m \in Nat \ {0} /\ m <= OPEN_MAX - 1
  <2>1. Unused \in SUBSET Nat
    BY DEF Unused, Entries
  <2>2. m \in Unused
    BY <1>2, <1>4, <2>1, MinIs
  <2>3. m \in Entries /\ mem.client[m] = None
    BY <2>2 DEF Unused
  <2>. QED  BY <1>3, <2>3 DEF Entries
<1>7. maxi = (IF mem.maxi >= m THEN mem.maxi ELSE m) /\ maxi \in 0 .. OPEN_MAX - 1
  <2>1. maxi = (IF mem.maxi >= m THEN mem.maxi ELSE m)
    BY <1>2, <1>3, <1>6, MaxOfTwo
  <2>. QED  BY <1>3, <1>6, <2>1
<1>8. fd \in Fds /\ fd \notin OpenFds /\ fd # None
  BY <1>5, KernelAssumption DEF FreeFds, OpenFds, Fds
<1>9. /\ client \in [Entries -> Fds \cup {None}] /\ client[m] = fd
      /\ \A j \in Entries : j # m => client[j] = mem.client[j]
  BY <1>2, <1>3, <1>6, <1>8
<1>10. /\ mem' \in PollMemory' /\ mem'.N = n /\ mem'.i = mem.i /\ mem'.revents = mem.revents
       /\ mem'.client = client /\ mem'.maxi = maxi /\ mem'.i = 1
  <2>1. n \in Int
    BY <1>2, <1>3
  <2>2. mem.i = 1
    BY <1>4 DEF PollAccepts
  <2>3. mem' \in PollMemory /\ mem'.N = n /\ mem'.i = mem.i /\ mem'.revents = mem.revents
        /\ mem'.client = client /\ mem'.maxi = maxi
    BY <1>3, <1>4, <1>7, <1>9, <2>1 DEF PollMemory
  <2>. QED  BY <1>5, <2>2, <2>3 DEF PollMemory
<1>11. Registers(client, maxi)'
  <2>1. OpenFds = Range(mem.client) \ {None} /\ \A i, j \in Entries : mem.client[j] # None =>
          j <= mem.maxi /\ (mem.client[j] = mem.client[i] => j = i)
    BY <1>3 DEF Registers
  <2>2. \A x : x \in Range(client) <=> \E j \in Entries : client[j] = x
    BY <1>9 DEF Range
  <2>3. \A x : x \in Range(mem.client) <=> \E j \in Entries : mem.client[j] = x
    BY <1>3 DEF Range
  <2>4. OpenFds' = Range(client) \ {None}
    <3>1. ASSUME NEW x \in OpenFds' PROVE x \in Range(client) \ {None}
      <4>1. CASE x = fd
        BY <1>6, <1>8, <1>9, <2>2, <4>1
      <4>2. CASE x \in OpenFds
        <5>1. x # None /\ \E j \in Entries : mem.client[j] = x
          BY <2>1, <2>3, <4>2
        <5>. QED  BY <1>6, <1>9, <2>2, <5>1
      <4>. QED  BY <1>5, <4>1, <4>2
    <3>2. ASSUME NEW j \in Entries, client[j] # None PROVE client[j] \in OpenFds'
      BY <1>5, <1>9, <2>1, <2>3, <3>2
    <3>. QED  BY <2>2, <3>1, <3>2
  <2>5. \A j \in Entries : mem.client[j] # fd
    BY <1>8, <2>1, <2>3
  <2>6. \A j \in Entries : j \in Nat
    BY DEF Entries
  <2>7. ASSUME NEW j \in Entries, client[j] # None PROVE j <= maxi
    <3>1. j = m \/ j <= mem.maxi
      BY <1>9, <2>1, <2>7
    <3>. QED  BY <1>3, <1>6, <1>7, <2>6, <3>1
  <2>8. ASSUME NEW i \in Entries, NEW j \in Entries, client[j] # None, client[j] = client[i] PROVE j = i
    BY <1>9, <2>1, <2>5, <2>8
  <2>9. DOMAIN client = Entries
    BY <1>9
  <2>. QED  BY <1>10, <2>4, <2>7, <2>8, <2>9 DEF Registers
<1>12. PollTypes'
  <2>1. Registers(mem.client, mem.maxi)'
    BY <1>10, <1>11 DEF Registers
  <2>. QED  BY <1>4, <1>10, <2>1 DEF PollTypes
<1>13. PollScans'
  <2> SUFFICES ASSUME ~(mem.N <= 1) PROVE PollCounted(hits)' /\ hits \in SUBSET PollHits'
    BY <1>4 DEF PollScans
  <2>1. /\ mem.i = 1 /\ mem.N = Cardinality(hits) + 1 /\ \A k \in hits : Ready(mem.client[k])
        /\ \A k \in 1 .. mem.maxi : k \in mem.revents => mem.client[k] # None
    BY <1>2, <1>4 DEF PollAccepts
  <2>2. /\ hits \subseteq Entries /\ hits \subseteq 1 .. mem.maxi /\ IsFiniteSet(hits) /\ hits \subseteq Nat
        /\ \A k \in hits : mem.client[k] \in OpenFds
    BY <1>2, <2>1, PollHitsAre
  <2>3. Cardinality(hits) = n /\ hits # {}
    <3>1. Cardinality(hits) \in Nat
      BY <2>2, FS_CardinalityType
    <3>2. Cardinality(hits) = n /\ Cardinality(hits) # 0
      BY <1>2, <2>1, <3>1
    <3>. QED  BY <3>2, FS_EmptySet
  <2>4. \A k : k \in PollHits' <=> k \in 1 .. maxi /\ client[k] # None /\ k \in mem.revents
    BY <1>10 DEF PollHits
  <2>5. \A k : k \in hits <=> k \in 1 .. mem.maxi /\ mem.client[k] # None /\ k \in mem.revents
    BY <1>2, <2>1 DEF PollHits
  <2>6. \A k \in hits : k # m
    BY <1>6, <2>5
  <2>7. \A k \in 1 .. mem.maxi : k \in 1 .. maxi
    BY <1>3, <1>6, <1>7
  <2>8. hits \in SUBSET PollHits'
    <3>1. ASSUME NEW k \in hits PROVE k \in PollHits'
      <4>1. k \in Entries /\ k # m /\ k \in 1 .. mem.maxi /\ mem.client[k] # None /\ k \in mem.revents
        BY <2>2, <2>5, <2>6
      <4>. QED  BY <1>9, <2>4, <2>7, <4>1
    <3>. QED  BY <3>1
  <2>9. ASSUME NEW j \in PollHits' \ hits, NEW k \in hits PROVE k < j
    <3>1. j \in 1 .. maxi /\ client[j] # None /\ j \in mem.revents /\ j \in Entries
      <4>1. j \in 1 .. maxi /\ client[j] # None /\ j \in mem.revents
        BY <2>4
      <4>2. 1 .. maxi \subseteq Entries
        BY <1>3, <1>7 DEF Entries
      <4>. QED  BY <4>1, <4>2
    <3>2. j = m
      <4>1. ASSUME j # m PROVE FALSE
        <5>1. mem.client[j] # None /\ j <= mem.maxi
          BY <1>3, <1>9, <3>1, <4>1 DEF Registers
        <5>2. j \in 1 .. mem.maxi
          BY <1>3, <1>7, <3>1, <5>1
        <5>. QED  BY <2>5, <2>9, <3>1, <5>1, <5>2
      <4>. QED  BY <4>1
    <3>3. ~(m \in 1 .. mem.maxi)
      BY <1>6, <2>1, <3>1, <3>2
    <3>4. k \in 1 .. mem.maxi
      BY <2>2
    <3>. QED  BY <1>3, <1>6, <3>2, <3>3, <3>4
  <2>10. ASSUME NEW k \in hits PROVE Ready(mem.client[k])'
    <3>1. PICK f, d : f = mem.client[k] /\ d = file[f]
      OBVIOUS
    <3>2. f \in OpenFds /\ f \in Fds /\ Ready(f) /\ f # fd
      BY <1>8, <2>1, <2>2, <2>10, <3>1 DEF OpenFds
    <3>3. file'[f] = d
      BY <1>5, <3>1, <3>2 DEF KernelInv, FilesInv
    <3>4. UNCHANGED <<peer, sent, taken>>
      BY <1>4 DEF stream
    <3>5. Ready(f)'
      BY <3>1, <3>2, <3>3, <3>4, ReadySame
    <3>6. mem'.client[k] = f
      BY <1>9, <1>10, <2>2, <2>6, <3>1
    <3>. QED  BY <3>5, <3>6 DEF Ready
  <2>. QED  BY <1>10, <2>3, <2>8, <2>9, <2>10 DEF PollCounted
<1>14. ServiceStep /\ OwesInReply'
  BY <1>4, <1>5, StreamOwes
<1>15. PollAccepts'
  BY <1>4 DEF PollAccepts
<1>. QED  BY <1>4, <1>5, <1>12, <1>13, <1>14, <1>15, NotEnded

\* A connection that waits for accept is alive, and so is every open one.
LEMMA WaitingIsAlive == ASSUME KernelInv, NEW c \in backlog PROVE c \in Alive
<1>1. c \in Conns /\ c \notin closed /\ peer[c] # "new"
  BY DEF KernelInv, FilesInv, BegunInv
<1>. QED  BY <1>1 DEF Alive

\* A full table and a connection that waits are more clients than it has entries.
LEMMA FullTable ==
  ASSUME KernelInv, NEW n \in Nat, NEW table \in [1 .. n -> Fds \cup {None}],
         \A j, k \in 1 .. n : table[j] # None => (table[j] = table[k] => j = k),
         \A k \in 1 .. n : table[k] # None, \A k \in 1 .. n : table[k] \in OpenFds, backlog # {}
  PROVE  Cardinality(Alive) > n
<1>1. PICK c \in backlog : TRUE
  OBVIOUS
<1>2. PICK m : m = [k \in 1 .. n + 1 |-> IF k = n + 1 THEN c ELSE file[table[k]]]
  OBVIOUS
<1>3. \A k \in 1 .. n + 1 : k = n + 1 \/ k \in 1 .. n
  OBVIOUS
<1>4. \A k \in 1 .. n : file[table[k]] \in Alive /\ table[k] \in Fds /\ file[table[k]] # None
  BY OpenAreAlive, OneIsServed
<1>5. m \in [1 .. n + 1 -> Alive]
  BY <1>1, <1>2, <1>3, <1>4, WaitingIsAlive
<1>6. \A k \in 1 .. n : file[table[k]] # c
  BY <1>1, <1>4 DEF KernelInv, FilesInv
<1>7. \A j, k \in 1 .. n : file[table[j]] = file[table[k]] => j = k
  BY <1>4 DEF KernelInv, FilesInv
<1>8. ASSUME NEW j \in 1 .. n + 1, NEW k \in 1 .. n + 1, m[j] = m[k] PROVE j = k
  BY <1>2, <1>3, <1>6, <1>7, <1>8
<1>9. n + 1 \in Nat
  OBVIOUS
<1>10. Cardinality(Alive) >= n + 1 /\ Cardinality(Alive) \in Nat
  BY <1>5, <1>8, <1>9, AliveBound
<1>. QED  BY <1>10

\* The table is full only of clients that are alive.
LEMMA PollFullExplained ==
  ASSUME KernelInv, PollTypes, PollTableFull, program = "poll" PROVE ExitExplained'
<1>1. PICK n : n = OPEN_MAX - 1
  OBVIOUS
<1>2. n \in Nat /\ Entries = 1 .. n /\ mem.client \in [Entries -> Fds \cup {None}] /\ Registers(mem.client, mem.maxi)
  BY <1>1, PollFields DEF Entries
<1>3. Unused = {} /\ backlog # {} /\ Ends("too many clients")
  BY DEF PollTableFull
<1>4. \A k \in 1 .. n : mem.client[k] # None
  BY <1>2, <1>3 DEF Unused
<1>5. \A k \in 1 .. n : mem.client[k] \in OpenFds
  BY <1>2, <1>4 DEF Registers, Range
<1>6. \A j, k \in 1 .. n : mem.client[j] # None => (mem.client[j] = mem.client[k] => j = k)
  BY <1>2 DEF Registers
<1>7. Cardinality(Alive) > n
  BY <1>2, <1>3, <1>4, <1>5, <1>6, FullTable
<1>8. ending' = "too many clients" /\ Alive' = Alive /\ program' = program
  BY <1>3, EndsKeeps
<1>. QED  BY <1>1, <1>7, <1>8 DEF ExitExplained

\* An entry that is ready is read: neither the descriptors nor the other
\* entries change.
LEMMA PollReadKeeps ==
  ASSUME KernelInv, PollInv, PollRead, program = "poll"
  PROVE  KernelInv' /\ PollInv' /\ ServiceStep
<1> USE DEF PollInv
<1>1. pc = "scan" /\ ending = "none" /\ Serves(PollHit) /\ PollScans
  BY DEF PollRead, At, PollTypes
<1>2. PICK D \in SUBSET PollHits : PollCounted(D)
  BY <1>1 DEF PollScans
<1>3. PICK k, f, hits, b : k = Min(PollHits) /\ f = PollHit /\ hits = PollHits /\ b = Arrived(file[PollHit], MAXLINE)
  OBVIOUS
<1>4. /\ k \in D /\ k \in hits /\ f \in OpenFds /\ f = mem.client[k] /\ hits \subseteq Entries
      /\ \A j \in hits : mem.client[j] \in OpenFds
      /\ \A i, j \in hits : mem.client[i] = mem.client[j] => i = j
  BY <1>2, <1>3, PollFirst, PollHitsAre
<1>5. mem' = [mem EXCEPT !.fd = f, !.buf = b] /\ mem \in PollMemory
  BY <1>3, PollFields DEF PollRead
<1>6. mem'.fd = f /\ mem'.buf = Arrived(file[f], MAXLINE) /\ mem'.client = mem.client /\ mem'.maxi = mem.maxi
      /\ mem'.i = mem.i /\ mem'.N = mem.N /\ mem'.revents = mem.revents /\ mem'.buf = b
  BY <1>3, <1>5 DEF PollMemory
<1>7. /\ KernelInv' /\ ServiceStep /\ OwesInReply' /\ pc' = "reply" /\ ending' = ending
      /\ UNCHANGED <<program, file, backlog, closed, peer, sent, got, edge>>
      /\ FreeFds' = FreeFds /\ OpenFds' = OpenFds /\ Fds' = Fds
      /\ mem'.buf \in Seq(Conns \X Nat) /\ mem'.buf # <<>>
  <2>1. pc # "reply" /\ Serves(f)
    BY <1>1, <1>3
  <2>. QED  BY <1>4, <1>6, <2>1, ReadOwes
<1>8. mem' \in PollMemory' /\ Watchable' = Watchable
  <2>1. f \in Watchable /\ b \in Seq(Conns \X Nat)
    BY <1>4, <1>6, <1>7 DEF OpenFds, Watchable
  <2>2. mem' \in PollMemory
    BY <1>5, <2>1 DEF PollMemory
  <2>. QED  BY <1>7, <2>2 DEF PollMemory, Watchable
<1>9. PollHits' = hits
  BY <1>3, <1>6 DEF PollHits
<1>10. PollHit' = f
  BY <1>3, <1>4, <1>6, <1>9 DEF PollHit
<1>11. PollTypes'
  <2>1. Registers(mem.client, mem.maxi)'
    BY <1>6, <1>7 DEF PollTypes, Registers
  <2>. QED  BY <1>1, <1>6, <1>7, <1>8, <1>10, <2>1 DEF PollTypes
<1>12. PollCounted(D)'
  <2>1. D # {} /\ Cardinality(D) = mem.N /\ (\A i \in D, j \in hits \ D : i < j) /\ \A j \in D : Ready(mem.client[j])
    BY <1>1, <1>2, <1>3 DEF PollCounted
  <2>2. ASSUME NEW j \in D, j # k PROVE Ready(mem.client[j])'
    <3>1. PICK g : g = mem.client[j]
      OBVIOUS
    <3>2. g \in OpenFds /\ g # f /\ Ready(g)
      BY <1>3, <1>4, <2>1, <2>2, <3>1
    <3>3. \E x : taken' = [taken EXCEPT ![file[f]] = x]
      BY <1>1, <1>3 DEF Serves, Takes
    <3>4. Ready(g)'
      BY <1>4, <1>7, <3>2, <3>3, ReadyBeside
    <3>. QED  BY <1>6, <3>1, <3>4 DEF Ready
  <2>3. \A j \in D : Ready(mem.client[j])' \/ (pc' = "reply" /\ j = Min(PollHits'))
    BY <1>3, <1>7, <1>9, <2>2
  <2>. QED  BY <1>3, <1>6, <1>9, <2>1, <2>3 DEF PollCounted
<1>13. PollScans' /\ PollAccepts'
  BY <1>3, <1>7, <1>9, <1>12 DEF PollScans, PollAccepts
<1>. QED  BY <1>1, <1>7, <1>11, <1>13, NotEnded

\* A reply ends the handling of an entry.
LEMMA PollReplyKeeps ==
  ASSUME KernelInv, PollInv, PollReply, program = "poll"
  PROVE  KernelInv' /\ PollInv' /\ ServiceStep
<1> USE DEF PollInv
<1>1. /\ pc = "reply" /\ ending = "none" /\ Writes(file[mem.fd], mem.buf) /\ UNCHANGED <<ending, sockets>>
      /\ PollHandled(Min(PollHits)) /\ mem.buf # <<>> /\ mem.fd = PollHit /\ mem \in PollMemory
  BY DEF PollReply, Replies, At, PollTypes
<1>2. PICK D \in SUBSET PollHits : PollCounted(D)
  BY <1>1 DEF PollScans
<1>3. mem.fd \in OpenFds /\ mem.buf \in Seq(Conns \X Nat) /\ pc' # "reply"
  BY <1>1, <1>2, PollFirst DEF PollMemory, PollHandled
<1>4. /\ KernelInv' /\ ServiceStep /\ OwesInReply'
      /\ UNCHANGED <<program, file, backlog, closed, sent, taken, edge>>
      /\ FreeFds' = FreeFds /\ OpenFds' = OpenFds /\ Fds' = Fds
  BY <1>1, <1>3, ReplyOwes
<1>5. ASSUME NEW f \in OpenFds \ {PollHit}, Ready(f) PROVE Ready(f)'
  <2>1. PICK g : g = mem.fd
    OBVIOUS
  <2>2. UNCHANGED <<peer, sent, taken>> \/ (UNCHANGED <<sent, taken>> /\ \E x : peer' = [peer EXCEPT ![file[g]] = x])
    BY <1>1, <1>4, <2>1 DEF Writes
  <2>3. g \in OpenFds /\ f # g /\ file'[f] = file[f]
    BY <1>1, <1>3, <1>4, <2>1
  <2>. QED  BY <1>5, <2>2, <2>3, ReadyBeside
<1>6. PollTypes' /\ PollAccepts' /\ PollScans' /\ ending' = "none"
  BY <1>1, <1>4, <1>5, PollGoesOn
<1>. QED  BY <1>4, <1>6, NotEnded

\* A connection that ended or failed leaves the table and the descriptors.
LEMMA PollCloseKeeps ==
  ASSUME KernelInv, PollInv, PollClose, program = "poll"
  PROVE  KernelInv' /\ PollInv' /\ ServiceStep
<1> USE DEF PollInv
<1>1. /\ pc = "scan" /\ ending = "none" /\ Closes(PollHit) /\ StreamEnds(file[PollHit])
      /\ PollHandled(Min(PollHits)) /\ pc' # "reply"
  BY DEF PollClose, At, StreamEnds, PollHandled, PollTypes
<1>2. PICK D \in SUBSET PollHits : PollCounted(D)
  BY <1>1 DEF PollScans
<1>3. PollHit \in OpenFds /\ PollHit \in Fds /\ file[PollHit] # None
  BY <1>2, PollFirst, OneIsServed
<1>4. PICK g : g = PollHit
  OBVIOUS
<1>5. /\ KernelInv' /\ program' = program /\ Fds' = Fds /\ UNCHANGED <<backlog, sent, taken, got, edge>>
      /\ file' = [file EXCEPT ![g] = None]
      /\ FreeFds' = FreeFds \cup {g} /\ OpenFds' = OpenFds \ {g}
  BY <1>1, <1>3, <1>4, ClosesKeeps
<1>6. ServiceStep /\ OwesInReply'
  BY <1>1, <1>3, CloseOwes
<1>7. ASSUME NEW f \in OpenFds \ {g}, Ready(f) PROVE Ready(f)'
  <2>1. UNCHANGED <<peer, sent, taken>> \/ (UNCHANGED <<sent, taken>> /\ \E x : peer' = [peer EXCEPT ![file[g]] = x])
    BY <1>1, <1>4 DEF StreamEnds, TakesError, stream
  <2>2. file'[f] = file[f]
    BY <1>5, <1>7, OneIsServed DEF KernelInv, FilesInv
  <2>3. f \in OpenFds /\ g \in OpenFds /\ f # g
    BY <1>3, <1>4, <1>7
  <2>. QED  BY <1>7, <2>1, <2>2, <2>3, ReadyBeside
<1>8. PollTypes' /\ PollAccepts' /\ PollScans' /\ ending' = "none"
  BY <1>1, <1>4, <1>5, <1>7, PollGoesOn
<1>. QED  BY <1>5, <1>6, <1>8, NotEnded

\* A step that leaves the program's memory alone, and every ready descriptor ready.
LEMMA PollStays ==
  ASSUME KernelInv, PollTypes, PollAccepts, PollScans, UNCHANGED <<pc, mem, ending>>, Fds' = Fds, OpenFds' = OpenFds,
         \A f \in OpenFds \cup {LISTEN} : Ready(f) => Ready(f)'
  PROVE  PollTypes' /\ PollAccepts' /\ PollScans'
<1>1. PollHits' = PollHits /\ PollHit' = PollHit /\ Watchable' = Watchable
  BY DEF PollHits, PollHit, Watchable
<1>2. PollTypes'
  BY <1>1 DEF PollTypes, PollMemory, Registers
<1>3. \A k \in PollHits : Ready(mem.client[k]) => Ready(mem.client[k])'
  <2>1. ASSUME NEW k \in PollHits, Ready(mem.client[k]) PROVE Ready(mem.client[k])'
    <3>1. PICK f : f = mem.client[k]
      OBVIOUS
    <3>2. f \in OpenFds /\ Ready(f)
      BY <2>1, <3>1, PollHitsAre
    <3>3. Ready(f)'
      BY <3>2
    <3>. QED  BY <3>1, <3>3 DEF Ready
  <2>. QED  BY <2>1
<1>4. PollAccepts'
  <2>1. backlog # {} => backlog' # {}
    <3>1. Ready(LISTEN) => Ready(LISTEN)'
      OBVIOUS
    <3>. QED  BY <3>1 DEF Ready
  <2>. QED  BY <1>1, <1>3, <2>1 DEF PollAccepts
<1>5. \A D \in SUBSET PollHits : PollCounted(D) => PollCounted(D)'
  BY <1>1, <1>3 DEF PollCounted
<1>6. PollScans'
  BY <1>1, <1>5 DEF PollScans
<1>. QED  BY <1>2, <1>4, <1>6

\* Every step of server-poll and of its clients keeps the invariant, and is one of
\* the service.
LEMMA PollStep ==
  ASSUME KernelInv, program = "poll", PollInv, [Next]_vars
  PROVE  KernelInv' /\ PollInv' /\ ServiceStep
<1> USE DEF PollInv
<1>1. CASE UNCHANGED vars
  <2>1. /\ KernelInv' /\ UNCHANGED <<pc, mem, ending>> /\ Fds' = Fds /\ OpenFds' = OpenFds
        /\ ServiceStep /\ OwesInReply' /\ ExitExplained'
        /\ \A f \in Watchable : Ready(f)' <=> Ready(f)
    BY <1>1, VarsStay
  <2>2. OpenFds \cup {LISTEN} \subseteq Watchable
    BY DEF OpenFds, Watchable
  <2>. QED  BY <2>1, <2>2, PollStays
<1>c. ASSUME NEW why, Ends(why), pc # "ended", why # "none", ExitExplained', pc = "reply" => Dead(file[mem.fd])
      PROVE  KernelInv' /\ PollInv' /\ ServiceStep
  <2>1. /\ KernelInv' /\ ServiceStep /\ ending' = why /\ pc' = "ended"
        /\ UNCHANGED <<mem, program>> /\ Fds' = Fds /\ OpenFds' = OpenFds
    BY <1>c, EndsKeeps
  <2>2. PollTypes'
    BY <1>c, <2>1 DEF PollTypes, PollMemory, Watchable, Registers
  <2>3. mem.fd \in OpenFds \/ pc # "reply"
    BY PollFirst DEF PollScans, PollTypes
  <2>4. OwesInReply'
    BY <1>c, <2>3, EndsOwes
  <2>. QED  BY <1>c, <2>1, <2>2, <2>4 DEF PollAccepts, PollScans
<1>2. CASE PollTableFull
  <2>1. pc = "accept" /\ Ends("too many clients")
    BY <1>2 DEF PollTableFull, At
  <2>. QED  BY <1>2, <1>c, <2>1, PollFullExplained
<1>3. CASE AcceptFails
  <2>1. Ends("no descriptor") /\ pc = "accept"
    BY <1>3 DEF AcceptFails, Accepting, Handling, At
  <2>. QED  BY <1>3, <1>c, <2>1, AcceptFailsExplained
<1>4. CASE WriteKills
  <2>1. Ends("SIGPIPE") /\ pc = "reply" /\ Dead(file[mem.fd])
    BY <1>4 DEF WriteKills
  <2>2. mem.fd \in OpenFds
    BY <2>1, PollFirst DEF PollScans, PollTypes
  <2>. QED  BY <1>4, <1>c, <2>1, <2>2, WriteKillsExplained
<1>5. ASSUME NEW c \in Conns, Client(c) PROVE KernelInv' /\ PollInv' /\ ServiceStep
  <2>1. /\ KernelInv' /\ UNCHANGED <<pc, mem, ending, program>>
        /\ Fds' = Fds /\ OpenFds' = OpenFds /\ ending = "none"
    BY <1>5, ClientKeeps
  <2>2. \A f \in OpenFds \cup {LISTEN} : Ready(f) => Ready(f)'
    BY <1>5, ReadyStays DEF OpenFds
  <2>3. PollTypes' /\ PollAccepts' /\ PollScans'
    BY <2>1, <2>2, PollStays
  <2>4. OwesInReply' /\ ServiceStep
    BY <1>5, ClientOwes, ClientSeen
  <2>. QED  BY <2>1, <2>3, <2>4, NotEnded
<1>. QED
  <2>1. Poll \/ AcceptFails \/ WriteKills \/ (\E c \in Conns : Client(c)) \/ UNCHANGED vars
    BY StepsOfPrograms DEF Selects, Edges, Sequentials
  <2>. QED
    BY <1>1, <1>2, <1>3, <1>4, <1>5, <2>1, PollWaitKeeps, PollAcceptKeeps, PollReadKeeps,
       PollReplyKeeps, PollCloseKeeps DEF Poll

-----------------------------------------------------------------------------
(* The select servers *)

\* The indices of server-select's table.
Slots == 0 .. FD_SETSIZE - 1

\* The memory of the select servers.
SelectMemory ==
  [allset : SUBSET Watchable, rset : SUBSET Watchable, maxfd : Nat, N : Nat, i : Nat,
   client : [Slots -> Fds \cup {None}], maxi : -1 .. FD_SETSIZE - 1,
   fd : Watchable, buf : Seq(Conns \X Nat)]

\* Where they are, and that allset and the table have the open descriptors.
SelectTypes ==
  /\ mem \in SelectMemory
  /\ pc \in {"wait", "accept", "scan", "reply", "ended"} /\ (pc = "ended" <=> ending # "none")
  /\ mem.allset = {LISTEN} \cup OpenFds /\ \A f \in OpenFds : f <= mem.maxfd
  /\ Tabled => Registers(mem.client, mem.maxi)
  /\ ~Tabled => \A k \in Slots : mem.client[k] = None
  /\ pc = "reply" => mem.buf # <<>> /\ mem.fd = SelectHit

\* N counts what the scan has yet to handle, or more.
SelectCounts ==
  mem.N <= Cardinality(mem.rset) /\ (pc \in {"accept", "scan", "reply"} => mem.N # 0)

\* Before accept all of rset is ready, the listening socket with it.
SelectAccepts ==
  pc = "accept" =>
    /\ LISTEN \in mem.rset /\ backlog # {} /\ mem.N = Cardinality(mem.rset)
    /\ mem.i = (IF Tabled THEN 0 ELSE 1)
    /\ \A f \in mem.rset \ {LISTEN} : f \in OpenFds /\ Ready(f)

\* The scan has something to handle, all of it ready but the one in hand.
SelectScans ==
  pc \in {"scan", "reply"} =>
    /\ SelectHits # {}
    /\ \A k \in SelectHits :
         SelectAt(k) \in OpenFds /\ (Ready(SelectAt(k)) \/ (pc = "reply" /\ k = Min(SelectHits)))

\* The inductive invariant of the select servers.
SelectInv ==
  SelectTypes /\ SelectCounts /\ SelectAccepts /\ SelectScans /\ OwesInReply /\ ExitExplained

\* The types of their variables, one by one.
LEMMA SelectFields ==
  ASSUME SelectTypes
  PROVE  /\ mem \in SelectMemory /\ mem.allset \in SUBSET Watchable /\ mem.rset \in SUBSET Watchable
         /\ mem.maxfd \in Nat /\ mem.N \in Nat /\ mem.i \in Nat /\ mem.client \in [Slots -> Fds \cup {None}]
         /\ mem.maxi \in -1 .. FD_SETSIZE - 1 /\ mem.maxi \in Int /\ mem.buf \in Seq(Conns \X Nat)
         /\ FD_SETSIZE \in Nat \ {0} /\ mem.allset = {LISTEN} \cup OpenFds
<1>1. mem \in SelectMemory /\ mem.allset = {LISTEN} \cup OpenFds
  BY DEF SelectTypes
<1>2. FD_SETSIZE \in Nat \ {0}
  BY SelectAssumption
<1>3. /\ mem.allset \in SUBSET Watchable /\ mem.rset \in SUBSET Watchable
      /\ mem.maxfd \in Nat /\ mem.N \in Nat /\ mem.i \in Nat /\ mem.client \in [Slots -> Fds \cup {None}]
      /\ mem.maxi \in -1 .. FD_SETSIZE - 1 /\ mem.buf \in Seq(Conns \X Nat)
  BY <1>1 DEF SelectMemory
<1>4. mem.maxi \in Int
  BY <1>2, <1>3
<1>. QED  BY <1>1, <1>2, <1>3, <1>4

\* What the scan may come to: descriptors of rset, each once.
LEMMA SelectHitsAre ==
  ASSUME SelectTypes
  PROVE  /\ SelectHits \subseteq Nat
         /\ \A k \in SelectHits : SelectAt(k) \in mem.rset \ {LISTEN} /\ SelectAt(k) \in Fds
         /\ \A j, k \in SelectHits : SelectAt(j) = SelectAt(k) => j = k
         /\ \A k \in SelectHits : Tabled => k \in Slots
<1>1. /\ mem.maxfd \in Nat /\ mem.i \in Nat /\ mem.client \in [Slots -> Fds \cup {None}]
      /\ mem.maxi \in -1 .. FD_SETSIZE - 1 /\ FD_SETSIZE \in Nat \ {0} /\ mem.rset \in SUBSET Watchable
  BY SelectFields
<1>2. PICK last : last = (IF Tabled THEN mem.maxi ELSE mem.maxfd)
  OBVIOUS
<1>3. last \in Int /\ mem.i .. last \subseteq Nat
  BY <1>1, <1>2
<1>4. \A k \in SelectHits : k \in mem.i .. last /\ SelectAt(k) \in mem.rset \ {LISTEN}
  BY <1>2 DEF SelectHits
<1>5. \A k \in SelectHits : SelectAt(k) \in Fds
  BY <1>1, <1>4 DEF Watchable
<1>6. Tabled => mem.i .. last \subseteq Slots
  BY <1>1, <1>2 DEF Slots
<1>7. ASSUME NEW j \in SelectHits, NEW k \in SelectHits, SelectAt(j) = SelectAt(k) PROVE j = k
  <2>1. CASE Tabled
    <3>1. j \in Slots /\ k \in Slots /\ mem.client[j] = mem.client[k] /\ mem.client[j] \in Fds
      BY <1>4, <1>5, <1>6, <1>7, <2>1 DEF SelectAt
    <3>2. mem.client[j] # None
      BY <3>1, KernelAssumption DEF Fds
    <3>. QED  BY <1>1, <2>1, <3>1, <3>2 DEF SelectTypes, Registers
  <2>2. CASE ~Tabled
    BY <1>7, <2>2 DEF SelectAt
  <2>. QED  BY <2>1, <2>2
<1>. QED  BY <1>3, <1>4, <1>5, <1>6, <1>7

\* The scan comes to a descriptor that select reported.
LEMMA SelectFirst ==
  ASSUME SelectTypes, SelectScans, pc \in {"scan", "reply"}
  PROVE  /\ Min(SelectHits) \in SelectHits /\ \A k \in SelectHits : Min(SelectHits) <= k
         /\ SelectHit \in OpenFds /\ SelectHit = SelectAt(Min(SelectHits))
         /\ pc = "scan" => Ready(SelectHit)
<1>1. SelectHits \in SUBSET Nat /\ SelectHits # {}
  BY SelectHitsAre DEF SelectScans
<1>2. PICK k : k = Min(SelectHits)
  OBVIOUS
<1>3. k \in SelectHits /\ \A j \in SelectHits : k <= j
  BY <1>1, <1>2, MinIs
<1>. QED  BY <1>2, <1>3 DEF SelectHit, SelectScans

\* A descriptor is handled, and perhaps closed; nothing happens to the others.
LEMMA SelectGoesOn ==
  ASSUME KernelInv, SelectTypes, SelectCounts, SelectScans, pc \in {"scan", "reply"}, ending = "none",
         SelectHandled(Min(SelectHits)), Fds' = Fds, program' = program,
         \/ OpenFds' = OpenFds /\ FreeFds' = FreeFds
         \/ OpenFds' = OpenFds \ {SelectHit} /\ FreeFds' = FreeFds \cup {SelectHit},
         \A f \in OpenFds \ {SelectHit} : Ready(f) => Ready(f)'
  PROVE  /\ SelectTypes' /\ SelectCounts' /\ SelectAccepts' /\ SelectScans'
         /\ pc' # "reply" /\ pc' # "ended" /\ ending' = "none"
<1>1. PICK k, hits, fd : k = Min(SelectHits) /\ hits = SelectHits /\ fd = SelectHit
  OBVIOUS
<1>2. /\ k \in hits /\ \A j \in hits : k <= j
      /\ fd \in OpenFds /\ fd = SelectAt(k) /\ hits \subseteq Nat /\ k \in Nat
      /\ \A j \in hits : SelectAt(j) \in mem.rset \ {LISTEN} /\ SelectAt(j) \in Fds
      /\ \A i, j \in hits : SelectAt(i) = SelectAt(j) => i = j
      /\ Tabled => k \in Slots
  BY <1>1, SelectFirst, SelectHitsAre
<1>3. /\ mem \in SelectMemory /\ mem.client \in [Slots -> Fds \cup {None}] /\ mem.maxi \in -1 .. FD_SETSIZE - 1
      /\ mem.i \in Nat /\ mem.N \in Nat /\ mem.N # 0 /\ mem.maxfd \in Nat /\ mem.rset \in SUBSET Watchable
      /\ mem.allset = {LISTEN} \cup OpenFds /\ mem.maxi \in Int
  BY SelectFields DEF SelectCounts
<1>4. PICK n, i, none, allset, client :
        /\ n = (IF Tabled THEN mem.N - 1 ELSE mem.N) /\ i = k + 1 /\ none = <<>>
        /\ allset = mem.allset \ ({fd} \cap FreeFds')
        /\ client = (IF Tabled /\ fd \in FreeFds' THEN [mem.client EXCEPT ![k] = None] ELSE mem.client)
  OBVIOUS
<1>5. /\ mem' = [mem EXCEPT !.i = i, !.N = n, !.fd = LISTEN, !.buf = none, !.allset = allset, !.client = client]
      /\ pc' = (IF (Tabled /\ mem.N = 1) \/ hits = {k} THEN "wait" ELSE "scan") /\ ending' = ending
  BY <1>1, <1>4 DEF SelectHandled
<1>6. fd \in Fds /\ fd # None /\ fd # LISTEN /\ Watchable' = Watchable /\ (Tabled' <=> Tabled)
  BY <1>2, KernelAssumption, FdsArePositive DEF OpenFds, Fds, Watchable, Tabled
<1>7. client \in [Slots -> Fds \cup {None}] /\ \A j \in Slots : j # k => client[j] = mem.client[j]
  BY <1>3, <1>4
<1>8. n \in Nat /\ n <= mem.N /\ (~(Tabled /\ mem.N = 1) => n # 0) /\ i \in Nat /\ none \in Seq(Conns \X Nat)
      /\ LISTEN \in Watchable /\ allset \in SUBSET Watchable
  BY <1>2, <1>3, <1>4, EmptySeq DEF Watchable, OpenFds
<1>9. /\ mem'.client = client /\ mem'.maxi = mem.maxi /\ mem'.i = i /\ mem'.N = n /\ mem'.rset = mem.rset
      /\ mem'.allset = allset /\ mem'.maxfd = mem.maxfd /\ mem' \in SelectMemory'
  <2>1. /\ mem'.client = client /\ mem'.maxi = mem.maxi /\ mem'.i = i /\ mem'.N = n /\ mem'.rset = mem.rset
        /\ mem'.allset = allset /\ mem'.maxfd = mem.maxfd
    BY <1>3, <1>5 DEF SelectMemory
  <2>2. mem' \in SelectMemory
    BY <1>3, <1>5, <1>7, <1>8 DEF SelectMemory
  <2>. QED  BY <1>6, <2>1, <2>2 DEF SelectMemory
<1>10. allset = {LISTEN} \cup OpenFds' /\ OpenFds' \subseteq OpenFds
  <2>1. CASE OpenFds' = OpenFds /\ FreeFds' = FreeFds
    BY <1>2, <1>3, <1>4, <2>1 DEF OpenFds
  <2>2. CASE OpenFds' = OpenFds \ {fd} /\ FreeFds' = FreeFds \cup {fd}
    BY <1>3, <1>4, <1>6, <2>2
  <2>. QED  BY <1>1, <2>1, <2>2
<1>11. Tabled => Registers(client, mem.maxi)'
  <2> SUFFICES ASSUME Tabled PROVE Registers(client, mem.maxi)'
    OBVIOUS
  <2>1. OpenFds = Range(mem.client) \ {None} /\ \A x, y \in Slots : mem.client[x] # None =>
          x <= mem.maxi /\ (mem.client[x] = mem.client[y] => x = y)
    BY <1>3 DEF SelectTypes, Registers
  <2>2. k \in Slots /\ mem.client[k] = fd
    BY <1>2 DEF SelectAt
  <2>3. CASE OpenFds' = OpenFds /\ FreeFds' = FreeFds
    <3>1. client = mem.client
      BY <1>2, <1>4, <2>3 DEF OpenFds
    <3>. QED  BY <1>3, <1>9, <2>1, <2>3, <3>1 DEF Registers
  <2>4. CASE OpenFds' = OpenFds \ {fd} /\ FreeFds' = FreeFds \cup {fd}
    <3>1. client[k] = None
      BY <1>3, <1>4, <2>2, <2>4
    <3>2. \A x : x \in Range(client) \ {None} <=> x \in Range(mem.client) \ {None, fd}
      <4>1. \A x : x \in Range(client) <=> \E j \in Slots : client[j] = x
        BY <1>7 DEF Range
      <4>2. \A x : x \in Range(mem.client) <=> \E j \in Slots : mem.client[j] = x
        BY <1>3 DEF Range
      <4>3. \A j \in Slots : mem.client[j] = fd => j = k
        BY <1>6, <2>1, <2>2
      <4>. QED  BY <1>7, <2>2, <3>1, <4>1, <4>2, <4>3
    <3>3. OpenFds' = Range(client) \ {None}
      BY <2>1, <2>4, <3>2
    <3>4. \A x, y \in Slots : client[x] # None => x <= mem.maxi /\ (client[x] = client[y] => x = y)
      BY <1>7, <2>1, <3>1
    <3>5. DOMAIN client = Slots
      BY <1>7
    <3>. QED  BY <1>3, <1>9, <3>3, <3>4, <3>5 DEF Registers
  <2>. QED  BY <1>1, <2>3, <2>4
<1>12. pc' \in {"wait", "scan"}
  BY <1>5
<1>13. SelectTypes'
  <2>1. Tabled' => Registers(mem.client, mem.maxi)'
    BY <1>6, <1>9, <1>11 DEF Registers
  <2>2. ~Tabled' => \A j \in Slots : mem'.client[j] = None
    BY <1>4, <1>6, <1>9 DEF SelectTypes
  <2>3. \A f \in OpenFds' : f <= mem'.maxfd
    BY <1>9, <1>10 DEF SelectTypes
  <2>. QED  BY <1>5, <1>9, <1>10, <1>12, <2>1, <2>2, <2>3 DEF SelectTypes, Slots
<1>14. SelectCounts'
  <2>1. Cardinality(mem.rset) \in Nat /\ mem.N <= Cardinality(mem.rset)
    <3>1. IsFiniteSet(mem.rset)
      BY <1>3, FdsFinite, FS_Subset
    <3>. QED  BY <3>1, FS_CardinalityType DEF SelectCounts
  <2>2. n <= Cardinality(mem.rset)
    BY <1>3, <1>8, <2>1
  <2>. QED  BY <1>5, <1>8, <1>9, <1>12, <2>2 DEF SelectCounts
<1>15. SelectScans'
  <2> SUFFICES ASSUME pc' = "scan"
      PROVE  SelectHits' # {} /\ \A j \in SelectHits' : SelectAt(j)' \in OpenFds' /\ Ready(SelectAt(j))'
    BY <1>12 DEF SelectScans
  <2>1. hits # {k}
    BY <1>5
  <2>2. PICK last : last = (IF Tabled THEN mem.maxi ELSE mem.maxfd)
    OBVIOUS
  <2>3. last \in Int /\ k >= mem.i
    BY <1>1, <1>2, <1>3, <2>2 DEF SelectHits
  <2>4. \A j \in Nat : j \in i .. last <=> j \in mem.i .. last /\ k < j
    BY <1>2, <1>3, <1>4, <2>3
  <2>5. \A j : j \in SelectHits' <=> j \in i .. last /\ SelectAt(j)' \in mem.rset \ {LISTEN}
    BY <1>6, <1>9, <2>2 DEF SelectHits
  <2>6. \A j : j \in hits <=> j \in mem.i .. last /\ SelectAt(j) \in mem.rset \ {LISTEN}
    BY <1>1, <2>2 DEF SelectHits
  <2>7. \A j \in i .. last : j \in Nat /\ j # k /\ (Tabled => j \in Slots)
    <3>1. \A j \in i .. last : j \in Nat /\ j # k
      BY <1>2, <1>4, <1>8, <2>3
    <3>2. Tabled => i .. last \subseteq Slots
      BY <1>3, <1>8, <2>2, SelectAssumption DEF Slots
    <3>. QED  BY <3>1, <3>2
  <2>8. \A j \in i .. last : SelectAt(j)' = SelectAt(j)
    BY <1>6, <1>7, <1>9, <2>7 DEF SelectAt
  <2>9. ASSUME NEW j \in hits \ {k} PROVE j \in Nat /\ k < j
    <3>1. j \in Nat /\ k \in Nat /\ k <= j /\ j # k
      BY <1>2
    <3>. QED  BY <3>1
  <2>10. SelectHits' = hits \ {k}
    BY <2>4, <2>5, <2>6, <2>7, <2>8, <2>9
  <2>11. SelectHits' # {}
    BY <1>2, <2>1, <2>10
  <2>12. ASSUME NEW j \in SelectHits' PROVE SelectAt(j)' \in OpenFds' /\ Ready(SelectAt(j))'
    <3>1. PICK f : f = SelectAt(j)
      OBVIOUS
    <3>2. f \in OpenFds /\ Ready(f) /\ f # fd /\ SelectAt(j)' = f
      BY <1>1, <1>2, <2>5, <2>8, <2>10, <2>12, <3>1 DEF SelectScans
    <3>3. Ready(f)' /\ f \in OpenFds'
      BY <1>1, <3>2
    <3>. QED  BY <3>2, <3>3 DEF Ready
  <2>. QED  BY <2>11, <2>12
<1>. QED  BY <1>5, <1>12, <1>13, <1>14, <1>15 DEF SelectAccepts

\* select returns what is ready of all it watches.
LEMMA SelectWaitKeeps ==
  ASSUME KernelInv, SelectInv, SelectWait
  PROVE  KernelInv' /\ SelectInv' /\ ServiceStep
<1> USE DEF SelectInv
<1>1. PICK due, n, i : /\ due = {f \in mem.allset : f <= mem.maxfd /\ Ready(f)} /\ n = Cardinality(due)
                       /\ i = (IF Tabled THEN 0 ELSE 1)
  OBVIOUS
<1>2. /\ pc = "wait" /\ due # {} /\ mem' = [mem EXCEPT !.rset = due, !.N = n, !.i = i]
      /\ pc' = (IF LISTEN \in due THEN "accept" ELSE "scan") /\ UNCHANGED <<ending, sockets, stream>>
  BY <1>1 DEF SelectWait, At
<1>3. /\ KernelInv' /\ UNCHANGED <<program, file, backlog, closed, peer, sent, taken, got, edge>>
      /\ Fds' = Fds /\ FreeFds' = FreeFds /\ OpenFds' = OpenFds /\ ending = "none" /\ Watchable' = Watchable
      /\ (Tabled' <=> Tabled)
  BY <1>2, StillKeeps DEF SelectTypes, Watchable, Tabled
<1>4. /\ mem \in SelectMemory /\ mem.client \in [Slots -> Fds \cup {None}] /\ mem.maxi \in -1 .. FD_SETSIZE - 1
      /\ mem.maxfd \in Nat /\ mem.allset \in SUBSET Watchable /\ mem.allset = {LISTEN} \cup OpenFds
  BY SelectFields
<1>5. due \in SUBSET Watchable /\ IsFiniteSet(due) /\ n \in Nat /\ n # 0 /\ i \in Nat
  <2>1. due \in SUBSET Watchable /\ i \in Nat
    BY <1>1, <1>4
  <2>2. IsFiniteSet(due)
    BY <2>1, FdsFinite, FS_Subset
  <2>. QED  BY <1>1, <1>2, <2>1, <2>2, FS_CardinalityType, FS_EmptySet
<1>6. /\ mem'.rset = due /\ mem'.N = n /\ mem'.i = i /\ mem'.client = mem.client /\ mem'.maxi = mem.maxi
      /\ mem'.maxfd = mem.maxfd /\ mem'.allset = mem.allset /\ mem' \in SelectMemory'
  <2>1. /\ mem'.rset = due /\ mem'.N = n /\ mem'.i = i /\ mem'.client = mem.client /\ mem'.maxi = mem.maxi
        /\ mem'.maxfd = mem.maxfd /\ mem'.allset = mem.allset
    BY <1>2, <1>4 DEF SelectMemory
  <2>2. mem' \in SelectMemory
    BY <1>2, <1>4, <1>5 DEF SelectMemory
  <2>. QED  BY <1>3, <2>1, <2>2 DEF SelectMemory
<1>7. \A f \in due \ {LISTEN} : f \in OpenFds /\ Ready(f)'
  <2>1. ASSUME NEW f \in due \ {LISTEN} PROVE f \in OpenFds /\ Ready(f)'
    <3>1. f \in OpenFds /\ Ready(f)
      BY <1>1, <1>4
    <3>2. Ready(f)'
      BY <1>3, <3>1 DEF Ready, Readable, Unread, AtEnd, Failing
    <3>. QED  BY <3>1, <3>2
  <2>. QED  BY <2>1
<1>8. SelectTypes'
  <2>1. Registers(mem.client, mem.maxi)' <=> Registers(mem.client, mem.maxi)
    BY <1>3, <1>6 DEF Registers
  <2>. QED  BY <1>2, <1>3, <1>4, <1>6, <2>1 DEF SelectTypes, Slots
<1>9. SelectCounts'
  BY <1>1, <1>5, <1>6 DEF SelectCounts
<1>10. SelectAccepts'
  <2>1. LISTEN \in due => backlog # {}
    BY <1>1 DEF Ready
  <2>. QED  BY <1>1, <1>2, <1>3, <1>6, <1>7, <2>1 DEF SelectAccepts
<1>11. SelectScans'
  <2> SUFFICES ASSUME LISTEN \notin due
      PROVE SelectHits' # {} /\ \A k \in SelectHits' : SelectAt(k)' \in OpenFds /\ Ready(SelectAt(k))'
    BY <1>2, <1>3 DEF SelectScans
  <2>1. PICK last : last = (IF Tabled THEN mem.maxi ELSE mem.maxfd)
    OBVIOUS
  <2>2. \A k : k \in SelectHits' <=> k \in i .. last /\ SelectAt(k)' \in due
    BY <1>3, <1>6, <2>1 DEF SelectHits
  <2>3. PICK f \in due : TRUE
    BY <1>2
  <2>4. f \in OpenFds /\ f <= mem.maxfd /\ f \in Fds /\ f \in Nat \ {0} /\ f # None
    <3>1. f \in OpenFds /\ f <= mem.maxfd
      BY <1>1, <1>4
    <3>. QED  BY <3>1, KernelAssumption DEF OpenFds, Fds
  <2>5. \E k \in i .. last : SelectAt(k)' = f
    <3>1. CASE Tabled
      <4>1. PICK k \in Slots : mem.client[k] = f
        BY <1>4, <2>4, <3>1 DEF SelectTypes, Registers, Range
      <4>2. k <= mem.maxi
        BY <1>4, <2>4, <3>1, <4>1 DEF SelectTypes, Registers
      <4>3. k \in i .. last
        BY <1>1, <1>4, <2>1, <3>1, <4>1, <4>2, SelectAssumption DEF Slots
      <4>. QED  BY <1>3, <1>6, <3>1, <4>1, <4>3 DEF SelectAt
    <3>2. CASE ~Tabled
      <4>1. f \in i .. last
        BY <1>1, <1>4, <2>1, <2>4, <3>2
      <4>. QED  BY <1>3, <3>2, <4>1 DEF SelectAt
    <3>. QED  BY <3>1, <3>2
  <2>6. SelectHits' # {}
    BY <2>2, <2>5
  <2>7. ASSUME NEW k \in SelectHits' PROVE SelectAt(k)' \in OpenFds /\ Ready(SelectAt(k))'
    <3>1. PICK g : g = SelectAt(k)'
      OBVIOUS
    <3>2. g \in due \ {LISTEN}
      BY <2>2, <2>7, <3>1
    <3>3. g \in OpenFds /\ Ready(g)'
      BY <1>7, <3>2
    <3>. QED  BY <3>1, <3>3 DEF Ready
  <2>. QED  BY <2>6, <2>7
<1>12. ServiceStep /\ OwesInReply'
  BY <1>2, <1>3, StreamOwes
<1>. QED  BY <1>2, <1>3, <1>8, <1>9, <1>10, <1>11, <1>12, NotEnded

\* The new descriptor was free, so it is not in rset.
LEMMA SelectAcceptKeeps ==
  ASSUME KernelInv, SelectInv, SelectAccept
  PROVE  KernelInv' /\ SelectInv' /\ ServiceStep
<1> USE DEF SelectInv
<1>1. PICK c \in Conns : Accepts(c)
  BY DEF SelectAccept
<1>2. PICK m, fd, n, maxi, maxfd, allset, client :
        /\ m = Min(UnusedSlots) /\ fd = NewFd /\ n = (IF Tabled THEN mem.N - 1 ELSE mem.N)
        /\ maxi = (IF Tabled THEN Max({mem.maxi, m}) ELSE mem.maxi)
        /\ maxfd = Max({mem.maxfd, fd}) /\ allset = mem.allset \cup {fd}
        /\ client = (IF Tabled THEN [mem.client EXCEPT ![m] = fd] ELSE mem.client)
  OBVIOUS
<1>3. /\ mem \in SelectMemory /\ mem.client \in [Slots -> Fds \cup {None}] /\ mem.maxi \in -1 .. FD_SETSIZE - 1
      /\ mem.maxi \in Int /\ mem.i \in Nat /\ mem.N \in Nat /\ FD_SETSIZE \in Nat \ {0} /\ mem.maxfd \in Nat
      /\ mem.allset \in SUBSET Watchable /\ mem.allset = {LISTEN} \cup OpenFds /\ mem.rset \in SUBSET Watchable
  BY SelectFields
<1>4. /\ pc = "accept" /\ UnusedSlots # {} /\ UNCHANGED <<ending, closed, stream>> /\ ending = "none"
      /\ pc' = (IF mem.N = 1 THEN "wait" ELSE "scan")
      /\ mem' = [mem EXCEPT !.allset = allset, !.maxfd = maxfd, !.client = client, !.N = n, !.maxi = maxi]
  <2>1. CASE Tabled
    <3>1. mem' = [[mem EXCEPT !.allset = allset, !.maxfd = maxfd]
                    EXCEPT !.client[m] = fd, !.N = mem.N - 1, !.maxi = Max({mem.maxi, m})]
      BY <1>2, <1>3, <2>1 DEF SelectAccept, SelectMemory
    <3>2. mem' = [mem EXCEPT !.allset = allset, !.maxfd = maxfd, !.client = client, !.N = n, !.maxi = maxi]
      BY <1>2, <1>3, <2>1, <3>1 DEF SelectMemory
    <3>. QED  BY <3>2 DEF SelectAccept, At, SelectTypes
  <2>2. CASE ~Tabled
    <3>1. mem' = [mem EXCEPT !.allset = allset, !.maxfd = maxfd]
      BY <1>2, <1>3, <2>2 DEF SelectAccept
    <3>2. mem' = [mem EXCEPT !.allset = allset, !.maxfd = maxfd, !.client = client, !.N = n, !.maxi = maxi]
      BY <1>2, <1>3, <2>2, <3>1 DEF SelectMemory
    <3>. QED  BY <3>2 DEF SelectAccept, At, SelectTypes
  <2>. QED  BY <2>1, <2>2
<1>5. /\ KernelInv' /\ fd \in FreeFds /\ program' = program /\ Fds' = Fds /\ Watchable' = Watchable /\ (Tabled' <=> Tabled)
      /\ file' = [file EXCEPT ![fd] = c] /\ FreeFds' = FreeFds \ {fd} /\ OpenFds' = OpenFds \cup {fd}
  BY <1>1, <1>2, <1>4, AcceptsKeeps DEF Watchable, Tabled
<1>6. m \in Slots /\ mem.client[m] = None /\ m \in Nat /\ m <= FD_SETSIZE - 1
  <2>1. UnusedSlots \in SUBSET Nat
    BY <1>3 DEF UnusedSlots, Slots
  <2>2. m \in UnusedSlots
    BY <1>2, <1>4, <2>1, MinIs
  <2>3. m \in Slots /\ mem.client[m] = None
    BY <1>3, <2>2 DEF UnusedSlots
  <2>. QED  BY <1>3, <2>3 DEF Slots
<1>7. /\ maxi = (IF Tabled /\ mem.maxi < m THEN m ELSE mem.maxi) /\ maxi \in -1 .. FD_SETSIZE - 1
      /\ maxi >= mem.maxi /\ maxi \in Int
  <2>1. Tabled => maxi = (IF mem.maxi >= m THEN mem.maxi ELSE m)
    BY <1>2, <1>3, <1>6, MaxOfTwo
  <2>2. maxi = (IF Tabled /\ mem.maxi < m THEN m ELSE mem.maxi)
    BY <1>2, <1>3, <1>6, <2>1
  <2>. QED  BY <1>3, <1>6, <2>2
<1>8. fd \in Fds /\ fd \notin OpenFds /\ fd # None /\ fd \in Nat /\ fd # LISTEN
  BY <1>5, KernelAssumption, FdsArePositive DEF FreeFds, OpenFds, Fds
<1>9. maxfd \in Nat /\ maxfd >= mem.maxfd /\ maxfd >= fd
  <2>1. maxfd = (IF mem.maxfd >= fd THEN mem.maxfd ELSE fd)
    BY <1>2, <1>3, <1>8, MaxOfTwo
  <2>. QED  BY <1>3, <1>8, <2>1
<1>10. /\ client \in [Slots -> Fds \cup {None}] /\ (Tabled => client[m] = fd) /\ (~Tabled => client = mem.client)
       /\ \A j \in Slots : j # m => client[j] = mem.client[j]
  BY <1>2, <1>3, <1>6, <1>8
<1>11. mem.N # 0 /\ mem.N = Cardinality(mem.rset) /\ n \in Nat /\ n <= mem.N /\ (mem.N # 1 => n # 0)
  BY <1>2, <1>3, <1>4 DEF SelectAccepts, SelectCounts
<1>12. /\ mem' \in SelectMemory' /\ mem'.N = n /\ mem'.i = mem.i /\ mem'.rset = mem.rset
       /\ mem'.client = client /\ mem'.maxi = maxi /\ mem'.maxfd = maxfd /\ mem'.allset = allset
  <2>1. allset \in SUBSET Watchable
    BY <1>2, <1>3, <1>8 DEF Watchable
  <2>2. /\ mem'.N = n /\ mem'.i = mem.i /\ mem'.rset = mem.rset
        /\ mem'.client = client /\ mem'.maxi = maxi /\ mem'.maxfd = maxfd /\ mem'.allset = allset
    BY <1>3, <1>4 DEF SelectMemory
  <2>3. mem' \in SelectMemory
    BY <1>3, <1>4, <1>7, <1>9, <1>10, <1>11, <2>1 DEF SelectMemory
  <2>. QED  BY <1>5, <2>2, <2>3 DEF SelectMemory
<1>13. Tabled => Registers(client, maxi)'
  <2> SUFFICES ASSUME Tabled PROVE Registers(client, maxi)'
    OBVIOUS
  <2>1. OpenFds = Range(mem.client) \ {None} /\ \A x, y \in Slots : mem.client[x] # None =>
          x <= mem.maxi /\ (mem.client[x] = mem.client[y] => x = y)
    BY <1>3 DEF SelectTypes, Registers
  <2>2. \A x : x \in Range(client) <=> \E j \in Slots : client[j] = x
    BY <1>10 DEF Range
  <2>3. \A x : x \in Range(mem.client) <=> \E j \in Slots : mem.client[j] = x
    BY <1>3 DEF Range
  <2>4. OpenFds' = Range(client) \ {None}
    <3>1. ASSUME NEW x \in OpenFds' PROVE x \in Range(client) \ {None}
      <4>1. CASE x = fd
        BY <1>6, <1>8, <1>10, <2>2, <4>1
      <4>2. CASE x \in OpenFds
        <5>1. x # None /\ \E j \in Slots : mem.client[j] = x
          BY <2>1, <2>3, <4>2
        <5>. QED  BY <1>6, <1>10, <2>2, <5>1
      <4>. QED  BY <1>5, <4>1, <4>2
    <3>2. ASSUME NEW j \in Slots, client[j] # None PROVE client[j] \in OpenFds'
      BY <1>5, <1>10, <2>1, <2>3, <3>2
    <3>. QED  BY <2>2, <3>1, <3>2
  <2>5. \A j \in Slots : mem.client[j] # fd
    BY <1>8, <2>1, <2>3
  <2>6. \A j \in Slots : j \in Nat
    BY <1>3 DEF Slots
  <2>7. ASSUME NEW j \in Slots, client[j] # None PROVE j <= maxi
    <3>1. j = m \/ j <= mem.maxi
      BY <1>10, <2>1, <2>7
    <3>. QED  BY <1>3, <1>6, <1>7, <2>6, <3>1
  <2>8. ASSUME NEW x \in Slots, NEW y \in Slots, client[x] # None, client[x] = client[y] PROVE x = y
    BY <1>10, <2>1, <2>5, <2>8
  <2>9. DOMAIN client = Slots
    BY <1>10
  <2>. QED  BY <1>12, <2>4, <2>7, <2>8, <2>9 DEF Registers
<1>14. SelectTypes'
  <2>1. Tabled' => Registers(mem.client, mem.maxi)'
    BY <1>5, <1>12, <1>13 DEF Registers
  <2>2. \A f \in OpenFds' : f <= maxfd
    <3>1. ASSUME NEW f \in OpenFds PROVE f <= maxfd
      <4>1. f \in Nat /\ f <= mem.maxfd
        BY FdsArePositive DEF SelectTypes, OpenFds
      <4>. QED  BY <1>3, <1>9, <4>1
    <3>. QED  BY <1>5, <1>9, <3>1
  <2>3. allset = {LISTEN} \cup OpenFds'
    BY <1>2, <1>3, <1>5
  <2>4. ~Tabled' => \A k \in Slots : mem'.client[k] = None
    BY <1>5, <1>10, <1>12 DEF SelectTypes
  <2>. QED  BY <1>4, <1>12, <2>1, <2>2, <2>3, <2>4 DEF SelectTypes, Slots
<1>15. SelectCounts'
  BY <1>3, <1>4, <1>11, <1>12 DEF SelectCounts
<1>16. SelectScans'
  <2> SUFFICES ASSUME mem.N # 1
      PROVE SelectHits' # {} /\ \A k \in SelectHits' : SelectAt(k)' \in OpenFds' /\ Ready(SelectAt(k))'
    BY <1>4 DEF SelectScans
  <2>0. /\ LISTEN \in mem.rset /\ mem.i = (IF Tabled THEN 0 ELSE 1)
        /\ \A f \in mem.rset \ {LISTEN} : f \in OpenFds /\ Ready(f)
    BY <1>4 DEF SelectAccepts
  <2>1. PICK last : last = (IF Tabled THEN maxi ELSE maxfd)
    OBVIOUS
  <2>2. \A k : k \in SelectHits' <=> k \in mem.i .. last /\ SelectAt(k)' \in mem.rset \ {LISTEN}
    BY <1>5, <1>12, <2>1 DEF SelectHits
  <2>3. PICK f \in mem.rset : f # LISTEN
    <3>1. ASSUME mem.rset = {LISTEN} PROVE FALSE
      <4>1. Cardinality(mem.rset) = 1
        BY <3>1, FS_Singleton
      <4>. QED  BY <1>11, <4>1
    <3>. QED  BY <2>0, <3>1
  <2>4. f \in OpenFds /\ f <= mem.maxfd /\ f \in Nat \ {0} /\ f # None
    <3>1. f \in OpenFds /\ f <= mem.maxfd
      BY <2>0, <2>3 DEF SelectTypes
    <3>. QED  BY <3>1, KernelAssumption DEF OpenFds, Fds
  <2>5. \E k \in mem.i .. last : SelectAt(k)' = f
    <3>1. CASE Tabled
      <4>1. PICK k \in Slots : mem.client[k] = f
        BY <1>3, <2>4, <3>1 DEF SelectTypes, Registers, Range
      <4>2. k <= mem.maxi /\ k # m
        BY <1>3, <1>6, <2>4, <3>1, <4>1 DEF SelectTypes, Registers
      <4>3. k \in mem.i .. last
        <5>1. k \in Nat
          BY <1>3, <4>1 DEF Slots
        <5>. QED  BY <1>3, <1>7, <2>0, <2>1, <3>1, <4>2, <5>1
      <4>. QED  BY <1>5, <1>10, <1>12, <3>1, <4>1, <4>2, <4>3 DEF SelectAt
    <3>2. CASE ~Tabled
      <4>1. f \in mem.i .. last
        BY <1>3, <1>9, <2>0, <2>1, <2>4, <3>2
      <4>. QED  BY <1>5, <3>2, <4>1 DEF SelectAt
    <3>. QED  BY <3>1, <3>2
  <2>6. SelectHits' # {}
    BY <2>2, <2>3, <2>5
  <2>7. ASSUME NEW k \in SelectHits' PROVE SelectAt(k)' \in OpenFds' /\ Ready(SelectAt(k))'
    <3>1. PICK g, d : g = SelectAt(k)' /\ d = file[g]
      OBVIOUS
    <3>2. g \in OpenFds /\ Ready(g)
      BY <2>0, <2>2, <2>7, <3>1
    <3>3. g \in Fds /\ g # fd /\ file'[g] = d
      BY <1>5, <1>8, <3>1, <3>2 DEF KernelInv, FilesInv, OpenFds
    <3>4. UNCHANGED <<peer, sent, taken>>
      BY <1>4 DEF stream
    <3>5. Ready(g)'
      BY <3>1, <3>2, <3>3, <3>4, ReadySame
    <3>. QED  BY <1>5, <3>1, <3>2, <3>5 DEF Ready
  <2>. QED  BY <2>6, <2>7
<1>17. ServiceStep /\ OwesInReply'
  BY <1>4, <1>5, StreamOwes
<1>18. SelectAccepts'
  BY <1>4 DEF SelectAccepts
<1>. QED  BY <1>4, <1>5, <1>14, <1>15, <1>16, <1>17, <1>18, NotEnded

\* The table is full only of clients that are alive.
LEMMA SelectFullExplained ==
  ASSUME KernelInv, SelectTypes, SelectTableFull, program \in Selects PROVE ExitExplained'
<1>1. /\ mem.client \in [Slots -> Fds \cup {None}] /\ FD_SETSIZE \in Nat \ {0}
      /\ UnusedSlots = {} /\ backlog # {} /\ Ends("too many clients")
  BY SelectFields DEF SelectTableFull
<1>2. \A k \in Slots : mem.client[k] # None
  BY <1>1 DEF UnusedSlots
<1>3. Tabled
  <2>1. 0 \in Slots
    BY SelectAssumption DEF Slots
  <2>. QED  BY <1>2, <2>1 DEF SelectTypes
<1>4. Registers(mem.client, mem.maxi)
  BY <1>3 DEF SelectTypes
<1>5. PICK n, table : n = FD_SETSIZE /\ table = [k \in 1 .. n |-> mem.client[k - 1]]
  OBVIOUS
<1>6. n \in Nat /\ \A k \in 1 .. n : k - 1 \in Slots
  <2>1. n = FD_SETSIZE
    BY <1>5
  <2>. QED  BY <2>1, SelectAssumption DEF Slots
<1>7. table \in [1 .. n -> Fds \cup {None}] /\ \A k \in 1 .. n : table[k] # None
  BY <1>1, <1>2, <1>5, <1>6
<1>8. \A k \in 1 .. n : table[k] \in OpenFds
  BY <1>1, <1>4, <1>5, <1>6, <1>7 DEF Registers, Range
<1>9. ASSUME NEW j \in 1 .. n, NEW k \in 1 .. n, table[j] = table[k] PROVE j = k
  <2>1. j - 1 = k - 1
    BY <1>1, <1>2, <1>4, <1>5, <1>6, <1>9 DEF Registers
  <2>. QED  BY <1>6, <2>1
<1>10. Cardinality(Alive) > n
  BY <1>1, <1>6, <1>7, <1>8, <1>9, FullTable
<1>11. ending' = "too many clients" /\ Alive' = Alive /\ program' = program
  BY <1>1, EndsKeeps
<1>. QED  BY <1>3, <1>5, <1>10, <1>11 DEF ExitExplained, Tabled

\* A read leaves the rest of rset ready.
LEMMA SelectReadKeeps ==
  ASSUME KernelInv, SelectInv, SelectRead, program \in Selects
  PROVE  KernelInv' /\ SelectInv' /\ ServiceStep
<1> USE DEF SelectInv
<1>1. pc = "scan" /\ ending = "none" /\ Serves(SelectHit)
  BY DEF SelectRead, At, SelectTypes
<1>2. PICK k, f, hits, b : k = Min(SelectHits) /\ f = SelectHit /\ hits = SelectHits /\ b = Arrived(file[SelectHit], MAXLINE)
  OBVIOUS
<1>3. /\ k \in hits /\ f \in OpenFds /\ f = SelectAt(k)
      /\ \A i, j \in hits : SelectAt(i) = SelectAt(j) => i = j
      /\ \A j \in hits : SelectAt(j) \in OpenFds /\ Ready(SelectAt(j))
  BY <1>1, <1>2, SelectFirst, SelectHitsAre DEF SelectScans
<1>4. mem' = [mem EXCEPT !.fd = f, !.buf = b] /\ mem \in SelectMemory
  BY <1>2, SelectFields DEF SelectRead
<1>5. /\ mem'.fd = f /\ mem'.buf = Arrived(file[f], MAXLINE) /\ mem'.client = mem.client /\ mem'.maxi = mem.maxi
      /\ mem'.i = mem.i /\ mem'.N = mem.N /\ mem'.rset = mem.rset /\ mem'.buf = b /\ mem'.maxfd = mem.maxfd
      /\ mem'.allset = mem.allset
  BY <1>2, <1>4 DEF SelectMemory
<1>6. /\ KernelInv' /\ ServiceStep /\ OwesInReply' /\ pc' = "reply" /\ ending' = ending
      /\ UNCHANGED <<program, file, backlog, closed, peer, sent, got, edge>>
      /\ FreeFds' = FreeFds /\ OpenFds' = OpenFds /\ Fds' = Fds
      /\ mem'.buf \in Seq(Conns \X Nat) /\ mem'.buf # <<>>
  <2>1. pc # "reply" /\ Serves(f)
    BY <1>1, <1>2
  <2>. QED  BY <1>3, <1>5, <2>1, ReadOwes
<1>7. mem' \in SelectMemory' /\ Watchable' = Watchable /\ (Tabled' <=> Tabled)
  <2>1. f \in Watchable /\ b \in Seq(Conns \X Nat)
    BY <1>3, <1>5, <1>6 DEF OpenFds, Watchable
  <2>2. mem' \in SelectMemory
    BY <1>4, <2>1 DEF SelectMemory
  <2>. QED  BY <1>6, <2>2 DEF SelectMemory, Watchable, Tabled
<1>8. SelectHits' = hits /\ \A j : SelectAt(j)' = SelectAt(j)
  BY <1>2, <1>5, <1>7 DEF SelectHits, SelectAt
<1>9. SelectHit' = f
  BY <1>2, <1>3, <1>5, <1>7, <1>8 DEF SelectHit, SelectAt
<1>10. SelectTypes'
  <2>1. Tabled' => Registers(mem.client, mem.maxi)'
    BY <1>5, <1>6, <1>7 DEF SelectTypes, Registers
  <2>2. mem'.allset = {LISTEN} \cup OpenFds' /\ (\A g \in OpenFds' : g <= mem'.maxfd)
        /\ (~Tabled' => \A j \in Slots : mem'.client[j] = None)
    BY <1>5, <1>6, <1>7 DEF SelectTypes
  <2>. QED  BY <1>1, <1>5, <1>6, <1>7, <1>9, <2>1, <2>2 DEF SelectTypes, Slots
<1>11. SelectScans'
  <2>1. ASSUME NEW j \in hits, j # k PROVE Ready(SelectAt(j))'
    <3>1. PICK g : g = SelectAt(j)
      OBVIOUS
    <3>2. g \in OpenFds /\ g # f /\ Ready(g)
      BY <1>3, <2>1, <3>1
    <3>3. \E x : taken' = [taken EXCEPT ![file[f]] = x]
      BY <1>1, <1>2 DEF Serves, Takes
    <3>4. Ready(g)'
      BY <1>3, <1>6, <3>2, <3>3, ReadyBeside
    <3>. QED  BY <1>8, <3>1, <3>4 DEF Ready
  <2>. QED  BY <1>2, <1>3, <1>6, <1>8, <2>1 DEF SelectScans
<1>12. SelectCounts' /\ SelectAccepts'
  BY <1>1, <1>5, <1>6 DEF SelectCounts, SelectAccepts
<1>. QED  BY <1>1, <1>6, <1>10, <1>11, <1>12, NotEnded

\* A reply ends the handling of a descriptor.
LEMMA SelectReplyKeeps ==
  ASSUME KernelInv, SelectInv, SelectReply, program \in Selects
  PROVE  KernelInv' /\ SelectInv' /\ ServiceStep
<1> USE DEF SelectInv
<1>1. /\ pc = "reply" /\ ending = "none" /\ Writes(file[mem.fd], mem.buf) /\ UNCHANGED <<ending, sockets>>
      /\ SelectHandled(Min(SelectHits)) /\ mem.buf # <<>> /\ mem.fd = SelectHit /\ mem \in SelectMemory
  BY DEF SelectReply, Replies, At, SelectTypes
<1>2. mem.fd \in OpenFds /\ mem.buf \in Seq(Conns \X Nat) /\ pc' # "reply" /\ program # "epollET-nonblock"
  BY <1>1, SelectFirst DEF SelectMemory, SelectHandled, Selects
<1>3. /\ KernelInv' /\ ServiceStep /\ OwesInReply'
      /\ UNCHANGED <<program, file, backlog, closed, sent, taken, edge>>
      /\ FreeFds' = FreeFds /\ OpenFds' = OpenFds /\ Fds' = Fds
  BY <1>1, <1>2, ReplyOwes
<1>4. ASSUME NEW f \in OpenFds \ {SelectHit}, Ready(f) PROVE Ready(f)'
  <2>1. PICK g : g = mem.fd
    OBVIOUS
  <2>2. UNCHANGED <<peer, sent, taken>> \/ (UNCHANGED <<sent, taken>> /\ \E x : peer' = [peer EXCEPT ![file[g]] = x])
    BY <1>1, <1>3, <2>1 DEF Writes
  <2>3. g \in OpenFds /\ f # g /\ file'[f] = file[f]
    BY <1>1, <1>2, <1>3, <2>1
  <2>. QED  BY <1>4, <2>2, <2>3, ReadyBeside
<1>5. SelectTypes' /\ SelectCounts' /\ SelectAccepts' /\ SelectScans' /\ ending' = "none"
  BY <1>1, <1>3, <1>4, SelectGoesOn
<1>. QED  BY <1>3, <1>5, NotEnded

\* A connection that ended leaves allset, the table and the descriptors.
LEMMA SelectCloseKeeps ==
  ASSUME KernelInv, SelectInv, SelectClose, program \in Selects
  PROVE  KernelInv' /\ SelectInv' /\ ServiceStep
<1> USE DEF SelectInv
<1>1. /\ pc = "scan" /\ ending = "none" /\ Closes(SelectHit) /\ StreamEnds(file[SelectHit]) /\ UNCHANGED stream
      /\ SelectHandled(Min(SelectHits)) /\ pc' # "reply" /\ program # "epollET-nonblock"
  BY DEF SelectClose, At, StreamEnds, SelectHandled, SelectTypes, Selects
<1>2. SelectHit \in OpenFds /\ SelectHit \in Fds /\ file[SelectHit] # None
  BY <1>1, SelectFirst, OneIsServed
<1>3. PICK g : g = SelectHit
  OBVIOUS
<1>4. /\ KernelInv' /\ program' = program /\ Fds' = Fds /\ UNCHANGED <<backlog, sent, taken, got, edge>>
      /\ file' = [file EXCEPT ![g] = None]
      /\ FreeFds' = FreeFds \cup {g} /\ OpenFds' = OpenFds \ {g}
  BY <1>1, <1>2, <1>3, ClosesKeeps
<1>5. ServiceStep /\ OwesInReply'
  BY <1>1, <1>2, CloseOwes
<1>6. ASSUME NEW f \in OpenFds \ {g}, Ready(f) PROVE Ready(f)'
  <2>1. UNCHANGED <<peer, sent, taken>>
    BY <1>1 DEF stream
  <2>2. file'[f] = file[f]
    BY <1>4, <1>6, OneIsServed DEF KernelInv, FilesInv
  <2>3. f \in OpenFds /\ g \in OpenFds /\ f # g
    BY <1>2, <1>3, <1>6
  <2>. QED  BY <1>6, <2>1, <2>2, <2>3, ReadyBeside
<1>7. SelectTypes' /\ SelectCounts' /\ SelectAccepts' /\ SelectScans' /\ ending' = "none"
  BY <1>1, <1>3, <1>4, <1>6, SelectGoesOn
<1>. QED  BY <1>4, <1>5, <1>7, NotEnded

\* A read error is passed over: the connection stays in allset and the table.
LEMMA SelectReadFailsKeeps ==
  ASSUME KernelInv, SelectInv, SelectReadFails, program \in Selects
  PROVE  KernelInv' /\ SelectInv' /\ ServiceStep
<1> USE DEF SelectInv
<1>1. /\ pc = "scan" /\ ending = "none" /\ TakesError(file[SelectHit]) /\ UNCHANGED sockets
      /\ SelectHandled(Min(SelectHits)) /\ pc' # "reply"
  BY DEF SelectReadFails, At, SelectHandled, SelectTypes
<1>2. SelectHit \in OpenFds
  BY <1>1, SelectFirst
<1>3. PICK g : g = SelectHit
  OBVIOUS
<1>4. KernelInv' /\ ServiceStep /\ OwesInReply'
  BY <1>1, ErrorOwes
<1>5. UNCHANGED <<program, file>> /\ Fds' = Fds /\ FreeFds' = FreeFds /\ OpenFds' = OpenFds
  BY <1>1 DEF sockets, Fds, FreeFds, OpenFds
<1>6. ASSUME NEW f \in OpenFds \ {g}, Ready(f) PROVE Ready(f)'
  <2>1. UNCHANGED <<sent, taken>> /\ \E x : peer' = [peer EXCEPT ![file[g]] = x]
    BY <1>1, <1>3 DEF TakesError
  <2>2. f \in OpenFds /\ g \in OpenFds /\ f # g /\ file'[f] = file[f]
    BY <1>2, <1>3, <1>5, <1>6
  <2>. QED  BY <1>6, <2>1, <2>2, ReadyBeside
<1>7. SelectTypes' /\ SelectCounts' /\ SelectAccepts' /\ SelectScans' /\ ending' = "none"
  BY <1>1, <1>3, <1>5, <1>6, SelectGoesOn
<1>. QED  BY <1>4, <1>7, NotEnded

\* A step that leaves the program's memory alone, and every ready descriptor ready.
LEMMA SelectStays ==
  ASSUME KernelInv, SelectTypes, SelectCounts, SelectAccepts, SelectScans, UNCHANGED <<program, pc, mem, ending>>,
         Fds' = Fds, OpenFds' = OpenFds,
         \A f \in OpenFds \cup {LISTEN} : Ready(f) => Ready(f)'
  PROVE  SelectTypes' /\ SelectCounts' /\ SelectAccepts' /\ SelectScans'
<1>1. /\ SelectHits' = SelectHits /\ SelectHit' = SelectHit /\ Watchable' = Watchable /\ (Tabled' <=> Tabled)
      /\ \A k : SelectAt(k)' = SelectAt(k)
  BY DEF SelectHits, SelectHit, SelectAt, Watchable, Tabled
<1>2. SelectTypes'
  BY <1>1 DEF SelectTypes, SelectMemory, Registers
<1>3. backlog # {} => backlog' # {}
  <2>1. Ready(LISTEN) => Ready(LISTEN)'
    OBVIOUS
  <2>. QED  BY <2>1 DEF Ready
<1>4. SelectAccepts'
  BY <1>1, <1>3 DEF SelectAccepts
<1>5. SelectScans'
  <2>1. ASSUME NEW k \in SelectHits, SelectAt(k) \in OpenFds, Ready(SelectAt(k)) PROVE Ready(SelectAt(k))'
    <3>1. PICK f : f = SelectAt(k)
      OBVIOUS
    <3>2. Ready(f)'
      BY <2>1, <3>1
    <3>. QED  BY <1>1, <3>1, <3>2 DEF Ready
  <2>. QED  BY <1>1, <2>1 DEF SelectScans
<1>6. SelectCounts'
  BY DEF SelectCounts
<1>. QED  BY <1>2, <1>4, <1>5, <1>6

\* Every step of the select servers and of their clients keeps the invariant, and
\* is one of the service.
LEMMA SelectStep ==
  ASSUME KernelInv, program \in Selects, SelectInv, [Next]_vars
  PROVE  KernelInv' /\ SelectInv' /\ ServiceStep
<1> USE DEF SelectInv
<1>1. CASE UNCHANGED vars
  <2>1. /\ KernelInv' /\ UNCHANGED <<program, pc, mem, ending>> /\ Fds' = Fds /\ OpenFds' = OpenFds
        /\ ServiceStep /\ OwesInReply' /\ ExitExplained'
        /\ \A f \in Watchable : Ready(f)' <=> Ready(f)
    BY <1>1, VarsStay
  <2>2. OpenFds \cup {LISTEN} \subseteq Watchable
    BY DEF OpenFds, Watchable
  <2>. QED  BY <2>1, <2>2, SelectStays
<1>c. ASSUME NEW why, Ends(why), pc # "ended", why # "none", ExitExplained', pc = "reply" => Dead(file[mem.fd])
      PROVE  KernelInv' /\ SelectInv' /\ ServiceStep
  <2>1. /\ KernelInv' /\ ServiceStep /\ ending' = why /\ pc' = "ended"
        /\ UNCHANGED <<mem, program>> /\ Fds' = Fds /\ OpenFds' = OpenFds
    BY <1>c, EndsKeeps
  <2>2. SelectTypes'
    BY <1>c, <2>1 DEF SelectTypes, SelectMemory, Watchable, Registers, Tabled
  <2>3. mem.fd \in OpenFds \/ pc # "reply"
    BY SelectFirst DEF SelectTypes
  <2>4. OwesInReply'
    BY <1>c, <2>3, EndsOwes
  <2>. QED  BY <1>c, <2>1, <2>2, <2>4 DEF SelectCounts, SelectAccepts, SelectScans
<1>2. CASE SelectTableFull
  <2>1. pc = "accept" /\ Ends("too many clients")
    BY <1>2 DEF SelectTableFull, At
  <2>. QED  BY <1>2, <1>c, <2>1, SelectFullExplained
<1>3. CASE AcceptFails
  <2>1. Ends("no descriptor") /\ pc = "accept"
    BY <1>3 DEF AcceptFails, Accepting, Handling, At, Selects
  <2>. QED  BY <1>3, <1>c, <2>1, AcceptFailsExplained
<1>4. CASE WriteKills
  <2>1. Ends("SIGPIPE") /\ pc = "reply" /\ Dead(file[mem.fd]) /\ program # "multiprocess"
    BY <1>4 DEF WriteKills, Selects
  <2>2. mem.fd \in OpenFds
    BY <2>1, SelectFirst DEF SelectTypes
  <2>. QED  BY <1>4, <1>c, <2>1, <2>2, WriteKillsExplained
<1>5. ASSUME NEW c \in Conns, Client(c) PROVE KernelInv' /\ SelectInv' /\ ServiceStep
  <2>1. /\ KernelInv' /\ UNCHANGED <<pc, mem, ending, program>>
        /\ Fds' = Fds /\ OpenFds' = OpenFds /\ ending = "none"
    BY <1>5, ClientKeeps
  <2>2. \A f \in OpenFds \cup {LISTEN} : Ready(f) => Ready(f)'
    BY <1>5, ReadyStays DEF OpenFds
  <2>3. SelectTypes' /\ SelectCounts' /\ SelectAccepts' /\ SelectScans'
    BY <2>1, <2>2, SelectStays
  <2>4. OwesInReply' /\ ServiceStep
    BY <1>5, ClientOwes, ClientSeen
  <2>. QED  BY <2>1, <2>3, <2>4, NotEnded
<1>. QED
  <2>1. Select \/ AcceptFails \/ WriteKills \/ (\E c \in Conns : Client(c)) \/ UNCHANGED vars
    BY StepsOfPrograms DEF Selects, Edges, Sequentials
  <2>. QED
    BY <1>1, <1>2, <1>3, <1>4, <1>5, <2>1, SelectWaitKeeps, SelectAcceptKeeps, SelectReadKeeps,
       SelectReplyKeeps, SelectCloseKeeps, SelectReadFailsKeeps DEF Select

-----------------------------------------------------------------------------
(* The edge-triggered readers *)

\* Where a reader is; it has one connection, which it never closes.
EdgeTypes ==
  /\ mem \in [fd : Watchable] /\ closed = {}
  /\ pc \in {"accept", "wait", "read", "ended"} /\ (pc = "ended" <=> ending # "none")
  /\ pc \in {"wait", "read"} => mem.fd \in OpenFds

\* The nonblocking reader: what is unread has an edge, or is being read.
EdgesLeft ==
  program = "epollET-nonblock" =>
    \A c \in Conns : c \in edge \/ Unread(c) = 0 \/ (pc = "read" /\ c = file[mem.fd])

\* The others show at once all they read.
EdgesShown == program # "epollET-nonblock" => \A c \in Conns : taken[c] = Len(got[c])

\* The inductive invariant of the readers.
EdgeInv == EdgeTypes /\ EdgesLeft /\ EdgesShown /\ ExitExplained

\* A reader reads and shows.
LEMMA ShowsKeeps ==
  ASSUME KernelInv, NEW c \in Conns, NEW size \in Nat, NEW shown \in Seq(Conns \X Nat),
         Shows(c, Arrived(c, size), shown)
  PROVE  /\ KernelInv' /\ UNCHANGED <<mem, ending, program, file, backlog, closed, peer, sent, edge>>
         /\ Fds' = Fds /\ FreeFds' = FreeFds /\ OpenFds' = OpenFds
         /\ taken' = [taken EXCEPT ![c] = taken[c] + Len(Arrived(c, size))]
         /\ got' = [got EXCEPT ![c] = got[c] \o shown]
<1>1. /\ taken' = [taken EXCEPT ![c] = taken[c] + Len(Arrived(c, size))]
      /\ got' = [got EXCEPT ![c] = got[c] \o shown]
      /\ UNCHANGED <<mem, ending, sockets, peer, sent, edge>>
  BY DEF Shows
<1>2. Len(Arrived(c, size)) \in Nat /\ Len(Arrived(c, size)) <= Unread(c)
  BY ArrivedType
<1>3. taken[c] \in Nat /\ sent[c] \in Nat /\ \A d \in Conns : taken[d] <= sent[d]
  BY DEF KernelInv, StreamInv
<1>4. PICK n : n = Len(Arrived(c, size))
  OBVIOUS
<1>5. taken[c] + n \in Nat /\ taken[c] + n <= sent[c]
  BY <1>2, <1>3, <1>4 DEF Unread
<1>6. taken' \in [Conns -> Nat] /\ \A d \in Conns : taken'[d] = IF d = c THEN taken[c] + n ELSE taken[d]
  BY <1>1, <1>4, <1>5 DEF KernelInv, StreamInv
<1>7. got[c] \o shown \in Seq(Conns \X Nat)
  BY ConcatProperties DEF KernelInv, StreamInv
<1>8. got' \in [Conns -> Seq(Conns \X Nat)]
  BY <1>1, <1>7 DEF KernelInv, StreamInv
<1>9. StreamInv'
  BY <1>1, <1>3, <1>5, <1>6, <1>8 DEF KernelInv, StreamInv
<1>10. UNCHANGED <<program, file, backlog, closed>>
  BY <1>1 DEF sockets
<1>. QED  BY <1>1, <1>9, <1>10, SocketsStay

\* The reader accepts its only connection.
LEMMA EdgeStartKeeps ==
  ASSUME KernelInv, EdgeInv, EdgeStart
  PROVE  KernelInv' /\ EdgeInv' /\ ServiceStep
<1> USE DEF EdgeInv
<1>1. /\ pc = "accept" /\ pc' = "wait" /\ mem' = [mem EXCEPT !.fd = NewFd] /\ ending = "none"
      /\ UNCHANGED <<ending, closed, stream>> /\ mem \in [fd : Watchable]
  BY DEF EdgeStart, At, EdgeTypes
<1>2. PICK c \in Conns : Accepts(c)
  BY DEF EdgeStart
<1>3. PICK f : f = NewFd
  OBVIOUS
<1>4. /\ KernelInv' /\ f \in FreeFds /\ program' = program /\ Fds' = Fds /\ OpenFds' = OpenFds \cup {f}
      /\ file' = [file EXCEPT ![f] = c]
  BY <1>1, <1>2, <1>3, AcceptsKeeps
<1>5. UNCHANGED <<peer, sent, taken, got, edge>>
  BY <1>1 DEF stream
<1>6. EdgeTypes'
  <2>1. f \in Watchable /\ Watchable' = Watchable
    BY <1>4 DEF Watchable, FreeFds
  <2>2. mem' \in [fd : Watchable] /\ mem'.fd = f
    BY <1>1, <1>3, <2>1
  <2>. QED  BY <1>1, <1>4, <2>1, <2>2 DEF EdgeTypes
<1>7. EdgesLeft' /\ EdgesShown'
  BY <1>1, <1>4, <1>5 DEF EdgesLeft, EdgesShown, Unread
<1>8. ServiceStep
  BY <1>1, <1>4, <1>5, Unseen DEF Seen
<1>. QED  BY <1>1, <1>4, <1>6, <1>7, <1>8, NotEnded

\* An edge is reported, and the reader reads.
LEMMA EdgeWaitKeeps ==
  ASSUME KernelInv, EdgeInv, EdgeWait
  PROVE  KernelInv' /\ EdgeInv' /\ ServiceStep
<1> USE DEF EdgeInv
<1>1. /\ pc = "wait" /\ pc' = "read" /\ edge' = edge \ {file[mem.fd]} /\ ending = "none"
      /\ UNCHANGED <<mem, ending, sockets, peer, sent, taken, got>> /\ mem.fd \in OpenFds
  BY DEF EdgeWait, At, EdgeTypes
<1>2. StreamInv'
  BY <1>1 DEF KernelInv, StreamInv
<1>3. KernelInv' /\ program' = program /\ Fds' = Fds /\ OpenFds' = OpenFds /\ UNCHANGED <<file, closed>>
  BY <1>1, <1>2, SocketsStay DEF sockets
<1>4. EdgeTypes'
  BY <1>1, <1>3 DEF EdgeTypes, Watchable
<1>5. EdgesLeft' /\ EdgesShown'
  BY <1>1, <1>3 DEF EdgesLeft, EdgesShown, Unread
<1>6. ServiceStep
  BY <1>1, <1>3, Unseen DEF Seen
<1>. QED  BY <1>1, <1>3, <1>4, <1>5, <1>6, NotEnded

\* A reader that reads once for each event shows what it read.
LEMMA EdgeReadOnceKeeps ==
  ASSUME KernelInv, EdgeInv, NEW c \in Conns, EdgeReadOnce(c)
  PROVE  KernelInv' /\ EdgeInv' /\ ServiceStep
<1> USE DEF EdgeInv
<1>1. PICK b : b = Arrived(c, Half)
  OBVIOUS
<1>2. /\ pc = "read" /\ pc' = "wait" /\ c = file[mem.fd] /\ program \in {"epollET", "epoll-ETLT"}
      /\ Shows(c, Arrived(c, Half), b) /\ b # <<>> /\ mem.fd \in OpenFds /\ ending = "none" /\ closed = {}
  BY <1>1 DEF EdgeReadOnce, Edge, At, Shows, EdgeTypes
<1>3. Half \in Nat
  BY KernelAssumption DEF Half
<1>4. /\ b \in Seq(Conns \X Nat) /\ Len(b) \in Nat /\ Len(b) <= Unread(c)
      /\ b = [k \in 1 .. Len(b) |-> <<c, taken[c] + k>>]
  BY <1>1, <1>3, ArrivedType
<1>5. /\ KernelInv' /\ UNCHANGED <<mem, ending, program, file, backlog, closed, peer, sent, edge>>
      /\ Fds' = Fds /\ FreeFds' = FreeFds /\ OpenFds' = OpenFds
      /\ taken' = [taken EXCEPT ![c] = taken[c] + Len(b)]
      /\ got' = [got EXCEPT ![c] = got[c] \o b]
  <2>1. /\ KernelInv' /\ UNCHANGED <<mem, ending, program, file, backlog, closed, peer, sent, edge>>
        /\ Fds' = Fds /\ FreeFds' = FreeFds /\ OpenFds' = OpenFds
        /\ taken' = [taken EXCEPT ![c] = taken[c] + Len(Arrived(c, Half))]
        /\ got' = [got EXCEPT ![c] = got[c] \o b]
    <3>1. Shows(c, Arrived(c, Half), b) /\ b \in Seq(Conns \X Nat)
      BY <1>2, <1>4
    <3>. QED  BY <1>3, <3>1, ShowsKeeps
  <2>. QED  BY <1>1, <2>1
<1>6. EdgeTypes'
  BY <1>2, <1>5 DEF EdgeTypes, Watchable
<1>7. /\ got \in [Conns -> Seq(Conns \X Nat)] /\ taken \in [Conns -> Nat] /\ sent[c] \in Nat
      /\ taken[c] = Len(got[c]) /\ Len(got[c]) \in Nat
  BY <1>2 DEF KernelInv, StreamInv, EdgesShown
<1>8. EdgesShown'
  <2>1. Len(got[c] \o b) = Len(got[c]) + Len(b)
    BY <1>4, <1>7, ConcatProperties
  <2>. QED  BY <1>2, <1>5, <1>7, <2>1 DEF EdgesShown
<1>9. EdgesLeft'
  BY <1>2, <1>5 DEF EdgesLeft
<1>10. Service!Answer(c)
  <2>1. PICK n : n = Len(b)
    OBVIOUS
  <2>2. n # 0
    BY <1>2, <1>4, <2>1, EmptySeq
  <2>3. n \in 1 .. sent[c] - Len(got[c])
    BY <1>4, <1>7, <2>1, <2>2 DEF Unread
  <2>4. b = [k \in 1 .. n |-> <<c, Len(got[c]) + k>>]
    BY <1>4, <1>7, <2>1
  <2>5. got' = [got EXCEPT ![c] = got[c] \o [k \in 1 .. n |-> <<c, Len(got[c]) + k>>]]
    BY <1>5, <2>4
  <2>6. program # "epollET-nonblock" /\ UNCHANGED <<program, sent, peer, closed>> /\ c \notin closed
    BY <1>2, <1>5
  <2>. QED  BY <2>3, <2>5, <2>6 DEF Service!Answer
<1>11. ServiceStep
  BY <1>10 DEF ServiceStep, Service!Next
<1>. QED  BY <1>2, <1>5, <1>6, <1>8, <1>9, <1>11, NotEnded

\* What the service shows of the nonblocking reader never changes.
LEMMA NonblockUnseen ==
  ASSUME UNCHANGED <<program, sent, closed>>, program = "epollET-nonblock", Seen' = Seen
  PROVE  ServiceStep
BY DEF ServiceStep, Service!vars, Seen

\* The nonblocking reader reads on, so that it may leave bytes unread.
LEMMA EdgeReadAgainKeeps ==
  ASSUME KernelInv, EdgeInv, NEW c \in Conns, EdgeReadAgain(c)
  PROVE  KernelInv' /\ EdgeInv' /\ ServiceStep
<1> USE DEF EdgeInv
<1>1. PICK b : b = Arrived(c, 1)
  OBVIOUS
<1>2. /\ pc = "read" /\ pc' = pc /\ c = file[mem.fd] /\ program = "epollET-nonblock"
      /\ Shows(c, Arrived(c, Half), b) /\ mem.fd \in OpenFds /\ ending = "none"
  BY <1>1 DEF EdgeReadAgain, Edge, At, EdgeTypes
<1>3. Half \in Nat /\ 1 \in Nat
  BY KernelAssumption DEF Half
<1>4. b \in Seq(Conns \X Nat)
  BY <1>1, <1>3, ArrivedType
<1>5. PICK n : n = Len(Arrived(c, Half))
  OBVIOUS
<1>6. /\ KernelInv' /\ UNCHANGED <<mem, ending, program, file, backlog, closed, peer, sent, edge>>
      /\ Fds' = Fds /\ FreeFds' = FreeFds /\ OpenFds' = OpenFds
      /\ taken' = [taken EXCEPT ![c] = taken[c] + n]
  BY <1>2, <1>3, <1>4, <1>5, ShowsKeeps
<1>7. EdgeTypes'
  BY <1>2, <1>6 DEF EdgeTypes, Watchable
<1>8. EdgesLeft'
  <2>1. \A d \in Conns : d # c => taken'[d] = taken[d]
    BY <1>6 DEF KernelInv, StreamInv
  <2>. QED  BY <1>2, <1>6, <2>1 DEF EdgesLeft, Unread
<1>9. EdgesShown'
  BY <1>2, <1>6 DEF EdgesShown
<1>10. ServiceStep
  BY <1>2, <1>6, NonblockUnseen DEF Seen
<1>. QED  BY <1>2, <1>6, <1>7, <1>8, <1>9, <1>10, NotEnded

\* A reader goes back to wait with nothing unread.
LEMMA EdgeReadEndsKeeps ==
  ASSUME KernelInv, EdgeInv, NEW c \in Conns, EdgeReadEnds(c)
  PROVE  KernelInv' /\ EdgeInv' /\ ServiceStep
<1> USE DEF EdgeInv
<1>1. /\ pc = "read" /\ pc' = "wait" /\ c = file[mem.fd] /\ Unread(c) = 0
      /\ TakesError(c) \/ UNCHANGED stream
      /\ UNCHANGED <<mem, ending, sockets>> /\ ending = "none"
  BY DEF EdgeReadEnds, Edge, At, EdgeTypes
<1>2. /\ KernelInv' /\ UNCHANGED <<sent, taken, got, edge>> /\ Seen' = Seen
  <2>1. CASE TakesError(c)
    BY <1>1, <2>1, ErrorStays, ErrorUnseen
  <2>2. CASE UNCHANGED stream
    <3>1. UNCHANGED <<peer, sent, taken, got, edge>>
      BY <2>2 DEF stream
    <3>. QED  BY <1>1, <2>2, <3>1, StillKeeps DEF Seen
  <2>. QED  BY <1>1, <2>1, <2>2
<1>3. UNCHANGED <<program, file, closed>> /\ Fds' = Fds /\ OpenFds' = OpenFds
  BY <1>1 DEF sockets, Fds, FreeFds, OpenFds
<1>4. EdgeTypes'
  BY <1>1, <1>3 DEF EdgeTypes, Watchable
<1>5. EdgesLeft' /\ EdgesShown'
  BY <1>1, <1>2, <1>3 DEF EdgesLeft, EdgesShown, Unread
<1>6. ServiceStep
  BY <1>2, <1>3, Unseen
<1>. QED  BY <1>1, <1>2, <1>4, <1>5, <1>6, NotEnded

\* Whatever a client does is an arrival, which sets the edge.
LEMMA EdgeClientKeeps ==
  ASSUME KernelInv, EdgeInv, program \in Edges, NEW c \in Conns, Client(c)
  PROVE  KernelInv' /\ EdgeInv' /\ ServiceStep
<1> USE DEF EdgeInv
<1>1. /\ KernelInv' /\ UNCHANGED <<pc, mem, ending, program, file, closed, taken, got>>
      /\ Fds' = Fds /\ FreeFds' = FreeFds /\ OpenFds' = OpenFds /\ ending = "none"
  BY ClientKeeps
<1>2. EdgeTypes' /\ EdgesShown'
  BY <1>1 DEF EdgeTypes, EdgesShown, Watchable
<1>3. EdgesLeft'
  <2> SUFFICES ASSUME program = "epollET-nonblock"
               PROVE  \A d \in Conns : d \in edge' \/ Unread(d)' = 0 \/ (pc' = "read" /\ d = file'[mem'.fd])
    BY <1>1 DEF EdgesLeft
  <2>1. UNCHANGED <<edge, sent>> \/ (UNCHANGED sent /\ edge' = edge \cup {c})
        \/ (edge' = edge \cup {c} /\ sent' = [sent EXCEPT ![c] = sent[c] + 1])
    BY DEF Client, Connect, Send, Finish, Reset, Arrives
  <2>2. \A d \in Conns : d = c \/ sent'[d] = sent[d]
    BY <2>1 DEF KernelInv, StreamInv
  <2>. QED  BY <1>1, <2>1, <2>2 DEF EdgesLeft, Unread
<1>4. ServiceStep
  BY ClientSeen
<1>. QED  BY <1>1, <1>2, <1>3, <1>4, NotEnded

\* Every step of the readers and of their client keeps the invariant, and is one of
\* the service.
LEMMA EdgeStep ==
  ASSUME KernelInv, program \in Edges, EdgeInv, [Next]_vars
  PROVE  KernelInv' /\ EdgeInv' /\ ServiceStep
<1> USE DEF EdgeInv
<1>1. CASE UNCHANGED vars
  <2>1. /\ KernelInv' /\ UNCHANGED <<program, pc, mem, ending, file, closed, taken, sent, got, edge>>
        /\ Fds' = Fds /\ OpenFds' = OpenFds /\ ServiceStep /\ ExitExplained'
    BY <1>1, VarsStay
  <2>. QED  BY <2>1 DEF EdgeTypes, Watchable, EdgesLeft, EdgesShown, Unread
<1>2. CASE AcceptFails
  <2>1. Ends("no descriptor") /\ pc = "accept" /\ ExitExplained'
    BY <1>2, AcceptFailsExplained DEF AcceptFails, Accepting, Handling, At, Edges
  <2>2. /\ KernelInv' /\ ServiceStep /\ ending' = "no descriptor" /\ pc' = "ended"
        /\ UNCHANGED <<mem, program, file, closed, sent, taken, got, edge>> /\ Fds' = Fds
    BY <2>1, EndsKeeps
  <2>3. EdgeTypes' /\ EdgesLeft' /\ EdgesShown'
    BY <2>1, <2>2 DEF EdgeTypes, EdgesLeft, EdgesShown, Unread, Watchable
  <2>. QED  BY <2>1, <2>2, <2>3
<1>3. ~WriteKills
  BY DEF WriteKills, EdgeTypes
<1>. QED
  <2>1. EdgeServer \/ AcceptFails \/ (\E c \in Conns : Client(c)) \/ UNCHANGED vars
    BY <1>3, StepsOfPrograms DEF Selects, Edges, Sequentials
  <2>. QED
    BY <1>1, <1>2, <2>1, EdgeStartKeeps, EdgeWaitKeeps, EdgeReadOnceKeeps, EdgeReadAgainKeeps,
       EdgeReadEndsKeeps, EdgeClientKeeps DEF EdgeServer

-----------------------------------------------------------------------------
(* UDP *)

\* A line under way, or its answer.
Datagram == [from : Conns, byte : Nat, answer : BOOLEAN]

\* The datagrams, and that no client has more answers than it sent lines.
UdpTypes ==
  /\ mem \in [net : SUBSET Datagram] /\ pc = "recvfrom" /\ ending = "none" /\ closed = {} /\ backlog = {}
  /\ \A c \in Conns : peer[c] \in {"new", "open", "finished"} /\ Len(got[c]) <= sent[c]

\* Without duplicates, a client has one datagram under way at most, and that is
\* its last one or the answer to it.
UdpOne ==
  ~MayDuplicate =>
    /\ \A d \in mem.net : d.byte = sent[d.from] /\ Len(got[d.from]) + 1 = sent[d.from]
    /\ \A d, e \in mem.net : d.from = e.from => d = e

\* The inductive invariant of the UDP server with its clients.
UdpInv == UdpTypes /\ UdpOne /\ ExitExplained

\* The types of what the clients sent and got.
LEMMA UdpStreams ==
  ASSUME KernelInv, UdpTypes
  PROVE  /\ mem.net \subseteq Datagram
         /\ \A c \in Conns : sent[c] \in Nat /\ got[c] \in Seq(Conns \X Nat) /\ Len(got[c]) \in Nat
<1>1. \A c \in Conns : sent[c] \in Nat /\ got[c] \in Seq(Conns \X Nat)
  BY DEF KernelInv, StreamInv
<1>. QED  BY <1>1, LenProperties DEF UdpTypes

\* A client sends the next line when it has its answer to the last one.
LEMMA UdpSendKeeps ==
  ASSUME KernelInv, UdpInv, NEW c \in Conns, UdpSend(c)
  PROVE  KernelInv' /\ UdpInv' /\ ServiceStep
<1> USE DEF UdpInv
<1>1. PICK d, net : d = [from |-> c, byte |-> sent[c] + 1, answer |-> FALSE] /\ net = mem.net \cup {d}
  OBVIOUS
<1>2. /\ peer[c] \in {"new", "open"} /\ Len(got[c]) = sent[c] /\ program = "UDP"
      /\ peer' = [peer EXCEPT ![c] = "open"] /\ sent' = [sent EXCEPT ![c] = sent[c] + 1]
      /\ mem' = [mem EXCEPT !.net = net] /\ UNCHANGED <<pc, ending, sockets, taken, got, edge>>
  BY <1>1 DEF UdpSend
<1>3. /\ peer \in [Conns -> {"new", "open", "finished", "reset", "gone"}] /\ sent \in [Conns -> Nat]
      /\ mem.net \subseteq Datagram /\ Len(got[c]) \in Nat /\ sent[c] \in Nat /\ sent[c] + 1 \in Nat
      /\ \A e \in Conns : sent[e] \in Nat /\ taken[e] \in Nat /\ taken[e] <= sent[e] /\ Len(got[e]) \in Nat
  BY UdpStreams DEF KernelInv, StreamInv
<1>4. /\ \A e \in Conns : peer'[e] = (IF e = c THEN "open" ELSE peer[e])
      /\ \A e \in Conns : sent'[e] = (IF e = c THEN sent[c] + 1 ELSE sent[e])
      /\ peer' \in [Conns -> {"new", "open", "finished", "reset", "gone"}] /\ sent' \in [Conns -> Nat]
  BY <1>2, <1>3
<1>5. StreamInv'
  <2>1. \A e \in Conns : taken'[e] <= sent'[e]
    BY <1>2, <1>3, <1>4
  <2>. QED  BY <1>2, <1>4, <2>1 DEF KernelInv, StreamInv
<1>6. KernelInv' /\ program' = program
  BY <1>2, <1>4, <1>5, SocketsStay
<1>7. mem' \in [net : SUBSET Datagram] /\ mem'.net = net
  <2>1. d \in Datagram
    BY <1>1, <1>3 DEF Datagram
  <2>2. net \in SUBSET Datagram /\ mem \in [net : SUBSET Datagram]
    BY <1>1, <1>3, <2>1 DEF UdpTypes
  <2>. QED  BY <1>2, <2>2
<1>8. UdpTypes'
  <2>1. \A e \in Conns : peer'[e] \in {"new", "open", "finished"} /\ Len(got'[e]) <= sent'[e]
    <3>1. ASSUME NEW e \in Conns PROVE peer'[e] \in {"new", "open", "finished"} /\ Len(got'[e]) <= sent'[e]
      <4>1. got'[e] = got[e] /\ peer[e] \in {"new", "open", "finished"} /\ Len(got[e]) <= sent[e]
        BY <1>2 DEF UdpTypes
      <4>. QED  BY <1>3, <1>4, <4>1
    <3>. QED  BY <3>1
  <2>. QED  BY <1>2, <1>7, <2>1 DEF UdpTypes, sockets
<1>9. UdpOne'
  <2> SUFFICES ASSUME ~MayDuplicate
      PROVE  /\ \A e \in net : e.byte = sent'[e.from] /\ Len(got[e.from]) + 1 = sent'[e.from]
             /\ \A e, f \in net : e.from = f.from => e = f
    BY <1>2, <1>7 DEF UdpOne
  <2>1. \A e \in mem.net : e.byte = sent[e.from] /\ Len(got[e.from]) + 1 = sent[e.from] /\ e.from \in Conns
    BY <1>3 DEF UdpOne, Datagram
  <2>2. \A e \in mem.net : e.from # c
    BY <1>2, <1>3, <2>1
  <2>3. d.from = c /\ d.byte = sent[c] + 1
    BY <1>1
  <2>4. \A e \in net : e.byte = sent'[e.from] /\ Len(got[e.from]) + 1 = sent'[e.from]
    BY <1>1, <1>2, <1>4, <2>1, <2>2, <2>3
  <2>5. \A e, f \in mem.net : e.from = f.from => e = f
    BY DEF UdpOne
  <2>6. ASSUME NEW e \in net, NEW f \in net, e.from = f.from PROVE e = f
    <3>1. e \in mem.net \/ e = d
      BY <1>1
    <3>2. f \in mem.net \/ f = d
      BY <1>1
    <3>. QED  BY <2>2, <2>3, <2>5, <2>6, <3>1, <3>2
  <2>. QED  BY <2>4, <2>6
<1>10. Service!Send(c)
  <2>1. \A e \in Conns : Seen'[e] = Seen[e]
    BY <1>2, <1>3, <1>4 DEF Seen
  <2>2. Seen' = Seen /\ Seen[c] = "open"
    BY <1>2, <2>1 DEF Seen
  <2>3. UNCHANGED <<program, got, closed>>
    BY <1>2 DEF sockets
  <2>. QED  BY <1>2, <2>2, <2>3 DEF Service!Send, Seen
<1>11. ServiceStep
  BY <1>10 DEF ServiceStep, Service!Next
<1>. QED  BY <1>2, <1>6, <1>8, <1>9, <1>11, NotEnded DEF UdpTypes

\* A client at the end of its input leaves.
LEMMA UdpFinishKeeps ==
  ASSUME KernelInv, UdpInv, NEW c \in Conns, UdpFinish(c)
  PROVE  KernelInv' /\ UdpInv' /\ ServiceStep
<1> USE DEF UdpInv
<1>1. /\ peer[c] \in {"new", "open"} /\ peer' = [peer EXCEPT ![c] = "finished"]
      /\ UNCHANGED <<pc, mem, ending, sockets, sent, taken, got, edge>>
  BY DEF UdpFinish
<1>2. peer \in [Conns -> {"new", "open", "finished", "reset", "gone"}]
  BY DEF KernelInv, StreamInv
<1>3. StreamInv' /\ \A d \in Conns : peer'[d] = "new" => peer[d] = "new"
  BY <1>1, <1>2 DEF KernelInv, StreamInv
<1>4. KernelInv' /\ UNCHANGED <<program, closed, backlog>>
  BY <1>1, <1>3, SocketsStay DEF sockets
<1>5. UdpTypes' /\ UdpOne'
  BY <1>1, <1>2, <1>4 DEF UdpTypes, UdpOne
<1>6. Service!Leave(c)
  <2>1. \A d \in Conns : Seen'[d] = IF d = c THEN "finished" ELSE Seen[d]
    BY <1>1, <1>2 DEF Seen
  <2>2. Seen' = [Seen EXCEPT ![c] = "finished"] /\ Seen[c] # "broken"
    BY <1>1, <1>2, <2>1 DEF Seen
  <2>. QED  BY <1>1, <1>4, <2>2 DEF Service!Leave, Seen
<1>7. ServiceStep
  BY <1>6 DEF ServiceStep, Service!Next
<1>. QED  BY <1>1, <1>4, <1>5, <1>7, NotEnded DEF UdpTypes

\* Of the datagrams of "before", one at most has gone or has been replaced by its answer.
AnswersOne(before, after) ==
  \/ after \subseteq before
  \/ \E d \in before : \E a : /\ a.from = d.from /\ a.byte = d.byte
                          /\ after = (before \ {d}) \cup {a}

\* The server answers a datagram; the network loses one.
LEMMA UdpNetKeeps ==
  ASSUME KernelInv, UdpInv, UdpServe \/ UdpLoses
  PROVE  KernelInv' /\ UdpInv' /\ ServiceStep
<1> USE DEF UdpInv
<1>1. PICK net : /\ mem' = [mem EXCEPT !.net = net]
                 /\ net \in SUBSET Datagram
                 /\ ~MayDuplicate => AnswersOne(mem.net, net)
  <2>1. CASE UdpServe
    <3>1. PICK d \in mem.net, gone \in SUBSET mem.net :
            /\ gone \in Leaves(d) /\ mem' = [mem EXCEPT !.net = (mem.net \ gone) \cup {[d EXCEPT !.answer = TRUE]}]
      BY <2>1 DEF UdpServe
    <3>2. PICK a : a = [d EXCEPT !.answer = TRUE]
      OBVIOUS
    <3>3. d \in Datagram /\ mem.net \subseteq Datagram
      BY UdpStreams
    <3>4. a \in Datagram /\ a.from = d.from /\ a.byte = d.byte
      BY <3>2, <3>3 DEF Datagram
    <3>5. ~MayDuplicate => gone = {d}
      BY <3>1 DEF Leaves
    <3>6. PICK net : net = (mem.net \ gone) \cup {a}
      OBVIOUS
    <3>7. mem' = [mem EXCEPT !.net = net] /\ net \in SUBSET Datagram
      BY <3>1, <3>2, <3>3, <3>4, <3>6
    <3>8. ~MayDuplicate => AnswersOne(mem.net, net)
      BY <3>4, <3>5, <3>6 DEF AnswersOne
    <3>. QED  BY <3>7, <3>8
  <2>2. CASE UdpLoses
    <3>1. PICK d \in mem.net : mem' = [mem EXCEPT !.net = mem.net \ {d}]
      BY <2>2 DEF UdpLoses
    <3>2. mem.net \ {d} \in SUBSET Datagram /\ AnswersOne(mem.net, mem.net \ {d})
      BY UdpStreams DEF AnswersOne
    <3>. QED  BY <3>1, <3>2
  <2>. QED  BY <2>1, <2>2
<1>2. UNCHANGED <<pc, ending, sockets, stream>>
  BY DEF UdpServe, UdpLoses
<1>3. KernelInv' /\ UNCHANGED <<program, file, backlog, closed, peer, sent, taken, got, edge>>
  BY <1>2, StillKeeps
<1>4. mem' \in [net : SUBSET Datagram] /\ mem'.net = net
  <2>1. mem \in [net : SUBSET Datagram]
    BY DEF UdpTypes
  <2>2. mem' = [mem EXCEPT !.net = net] /\ net \in SUBSET Datagram
    BY <1>1
  <2>. QED  BY <2>1, <2>2
<1>5. UdpTypes'
  BY <1>2, <1>3, <1>4 DEF UdpTypes
<1>6. UdpOne'
  <2> SUFFICES ASSUME ~MayDuplicate
      PROVE  /\ \A e \in net : e.byte = sent[e.from] /\ Len(got[e.from]) + 1 = sent[e.from]
             /\ \A e, f \in net : e.from = f.from => e = f
    BY <1>3, <1>4 DEF UdpOne
  <2>1. /\ \A e \in mem.net : e.byte = sent[e.from] /\ Len(got[e.from]) + 1 = sent[e.from]
        /\ \A e, f \in mem.net : e.from = f.from => e = f
    BY DEF UdpOne
  <2>2. CASE net \subseteq mem.net
    BY <2>1, <2>2
  <2>3. CASE ~(net \subseteq mem.net)
    <3>0. PICK d \in mem.net :
            \E a : a.from = d.from /\ a.byte = d.byte /\ net = (mem.net \ {d}) \cup {a}
      BY <1>1, <2>3 DEF AnswersOne
    <3>1. PICK a : a.from = d.from /\ a.byte = d.byte /\ net = (mem.net \ {d}) \cup {a}
      BY <3>0
    <3>2. \A e \in net : e.byte = sent[e.from] /\ Len(got[e.from]) + 1 = sent[e.from]
      BY <2>1, <3>1
    <3>3. \A e, f \in net : e.from = f.from => e = f
      BY <2>1, <3>1
    <3>. QED  BY <3>2, <3>3
  <2>. QED  BY <1>1, <2>2, <2>3
<1>7. ServiceStep
  BY <1>3, Unseen DEF Seen
<1>. QED  BY <1>2, <1>3, <1>5, <1>6, <1>7, NotEnded DEF UdpTypes

\* Without duplicates the answer a client takes is the one to its last line.
LEMMA UdpReceiveKeeps ==
  ASSUME KernelInv, UdpInv, program = "UDP", NEW c \in Conns, UdpReceive(c)
  PROVE  KernelInv' /\ UdpInv' /\ (~MayDuplicate => ServiceStep)
<1> USE DEF UdpInv
<1>1. PICK d \in mem.net, gone \in SUBSET mem.net :
        /\ d.answer /\ d.from = c /\ gone \in Leaves(d) /\ Len(got[c]) < sent[c]
        /\ got' = [got EXCEPT ![c] = Append(got[c], <<d.from, d.byte>>)]
        /\ mem' = [mem EXCEPT !.net = mem.net \ gone]
        /\ UNCHANGED <<pc, ending, sockets, peer, sent, taken, edge>>
  BY DEF UdpReceive
<1>2. PICK x, net : x = <<d.from, d.byte>> /\ net = mem.net \ gone
  OBVIOUS
<1>3. /\ mem.net \subseteq Datagram /\ d \in Datagram /\ sent[c] \in Nat /\ got[c] \in Seq(Conns \X Nat)
      /\ Len(got[c]) \in Nat
  BY UdpStreams
<1>4. x \in Conns \X Nat
  BY <1>2, <1>3 DEF Datagram
<1>5. Append(got[c], x) \in Seq(Conns \X Nat) /\ Len(Append(got[c], x)) = Len(got[c]) + 1
  BY <1>3, <1>4, AppendProperties
<1>6. got' = [got EXCEPT ![c] = Append(got[c], x)] /\ got \in [Conns -> Seq(Conns \X Nat)]
  BY <1>1, <1>2 DEF KernelInv, StreamInv
<1>7. got' \in [Conns -> Seq(Conns \X Nat)] /\ \A e \in Conns : e # c => got'[e] = got[e]
  BY <1>5, <1>6
<1>8. StreamInv'
  BY <1>1, <1>7 DEF KernelInv, StreamInv
<1>9. KernelInv' /\ UNCHANGED <<program, closed, backlog>>
  BY <1>1, <1>8, SocketsStay DEF sockets
<1>10. mem' \in [net : SUBSET Datagram] /\ mem'.net = net /\ net \subseteq mem.net
  BY <1>1, <1>2, <1>3 DEF UdpTypes
<1>11. Len(got'[c]) = Len(got[c]) + 1 /\ Len(got'[c]) <= sent[c]
  BY <1>1, <1>3, <1>5, <1>6
<1>12. UdpTypes'
  <2>1. \A e \in Conns : Len(got'[e]) <= sent'[e]
    BY <1>1, <1>7, <1>11 DEF UdpTypes
  <2>. QED  BY <1>1, <1>9, <1>10, <2>1 DEF UdpTypes
<1>13. UdpOne'
  <2> SUFFICES ASSUME ~MayDuplicate
      PROVE  /\ \A e \in net : e.byte = sent[e.from] /\ Len(got'[e.from]) + 1 = sent[e.from]
             /\ \A e, f \in net : e.from = f.from => e = f
    BY <1>1, <1>10 DEF UdpOne
  <2>1. net = mem.net \ {d}
    BY <1>1, <1>2 DEF Leaves
  <2>2. \A e \in net : e.from # c /\ e.from \in Conns
    BY <1>1, <1>3, <2>1 DEF UdpOne, Datagram
  <2>. QED  BY <1>7, <1>10, <2>2 DEF UdpOne
<1>14. ASSUME ~MayDuplicate PROVE Service!Answer(c)
  <2>1. d.byte = sent[c] /\ Len(got[c]) + 1 = sent[c]
    BY <1>1, <1>14 DEF UdpOne
  <2>2. x = <<c, Len(got[c]) + 1>>
    BY <1>1, <1>2, <2>1
  <2>3. Append(got[c], x) = got[c] \o <<x>>
    BY <1>3, <1>4, AppendIsConcat
  <2>4. <<x>> = [k \in 1 .. 1 |-> <<c, Len(got[c]) + k>>]
    <3>1. \A k \in 1 .. 1 : k = 1
      OBVIOUS
    <3>2. <<x>> = [k \in 1 .. 1 |-> x]
      OBVIOUS
    <3>. QED  BY <2>2, <3>1, <3>2
  <2>5. got' = [got EXCEPT ![c] = got[c] \o [k \in 1 .. 1 |-> <<c, Len(got[c]) + k>>]]
    BY <1>6, <2>3, <2>4
  <2>6. 1 \in 1 .. sent[c] - Len(got[c])
    BY <1>3, <2>1
  <2>7. program # "epollET-nonblock" /\ UNCHANGED <<program, sent, peer, closed>> /\ c \notin closed
    BY <1>1, <1>9 DEF UdpTypes
  <2>. QED  BY <2>5, <2>6, <2>7 DEF Service!Answer
<1>. QED  BY <1>1, <1>9, <1>12, <1>13, <1>14, NotEnded DEF UdpTypes, ServiceStep, Service!Next

\* Every step of the UDP server, its clients and the network keeps the invariant,
\* and without duplicates is one of the service.
LEMMA UdpStep ==
  ASSUME KernelInv, program = "UDP", UdpInv, [Next]_vars
  PROVE  KernelInv' /\ UdpInv' /\ (~MayDuplicate => ServiceStep)
<1> USE DEF UdpInv
<1>1. CASE UNCHANGED vars
  <2>1. /\ KernelInv' /\ UNCHANGED <<program, pc, mem, ending, closed, backlog, peer, sent, got>>
        /\ ServiceStep /\ ExitExplained'
    BY <1>1, VarsStay
  <2>. QED  BY <2>1 DEF UdpTypes, UdpOne
<1>2. ~AcceptFails /\ ~WriteKills
  BY DEF AcceptFails, Accepting, Handling, At, WriteKills, UdpTypes
<1>3. \A c \in Conns : ~Client(c)
  BY ClientKeeps
<1>. QED
  <2>1. Udp \/ UNCHANGED vars
    BY <1>2, <1>3, StepsOfPrograms DEF Selects, Edges, Sequentials
  <2>. QED
    BY <1>1, <2>1, UdpSendKeeps, UdpFinishKeeps, UdpNetKeeps, UdpReceiveKeeps DEF Udp

-----------------------------------------------------------------------------
(* server-multiprocess *)

\* Connections are closed while nothing arrives: they had been begun, had left
\* the backlog, and no descriptor stands for them any more.
LEMMA ClosedSome ==
  ASSUME KernelInv, NEW C \in SUBSET Conns, closed' = closed \cup C,
         \A c \in C : c \notin backlog /\ peer[c] # "new",
         UNCHANGED <<program, backlog, stream>>, file' \in [Fds -> Conns \cup {None}],
         \A f \in Fds : file'[f] = None \/ (file'[f] = file[f] /\ file[f] \notin C)
  PROVE  /\ KernelInv' /\ UNCHANGED <<program, backlog, peer, sent, taken, got, edge>> /\ Fds' = Fds
         /\ \A d \in Conns : \A e : Owes(d, e) => Owes(d, e)'
<1>1. UNCHANGED <<program, backlog, peer, sent, taken, got, edge>> /\ Fds' = Fds /\ None \notin Conns
  BY KernelAssumption DEF stream, Fds
<1>2. StreamInv'
  BY <1>1 DEF KernelInv, StreamInv
<1>3. FilesInv'
  <2>1. \A f, g \in Fds : file'[f] # None /\ file'[f] = file'[g] => f = g
    BY <1>1 DEF KernelInv, FilesInv
  <2>2. \A f \in Fds : file'[f] \notin backlog' \cup closed'
    BY <1>1 DEF KernelInv, FilesInv
  <2>3. closed' \subseteq Conns /\ backlog \cap closed' = {}
    BY DEF KernelInv, FilesInv
  <2>. QED  BY <1>1, <2>1, <2>2, <2>3 DEF KernelInv, FilesInv
<1>4. BegunInv'
  BY <1>1 DEF KernelInv, BegunInv
<1>. QED  BY <1>1, <1>2, <1>3, <1>4 DEF KernelInv, Owes

\* The last descriptor of a connection is closed: it is answered or broken off.
LEMMA HangsUpOn ==
  ASSUME KernelInv, NEW c \in Conns, c \notin closed, closed' = closed \cup {c},
         peer[c] = "gone" \/ (AtEnd(c) /\ Owes(c, <<>>)),
         UNCHANGED <<program, stream>>, program # "epollET-nonblock"
  PROVE  ServiceStep
<1>1. UNCHANGED <<program, sent, got, taken>> /\ Seen' = Seen
  BY DEF stream, Seen
<1>2. Seen[c] = "broken" \/ (Seen[c] = "finished" /\ Len(got[c]) = sent[c])
  <2>1. CASE peer[c] = "gone"
    BY <2>1 DEF Seen
  <2>2. CASE peer[c] = "finished" /\ AtEnd(c) /\ Owes(c, <<>>)
    <3>1. Seen[c] = "finished"
      BY <2>2 DEF Seen
    <3>2. Unread(c) = 0
      BY <2>2 DEF AtEnd
    <3>3. taken[c] = Len(got[c]) /\ taken[c] \in Nat /\ sent[c] \in Nat
      <4>1. got[c] \in Seq(Conns \X Nat) /\ taken[c] \in Nat /\ sent[c] \in Nat
        BY DEF KernelInv, StreamInv
      <4>2. Len(got[c]) \in Nat /\ Len(<<>>) = 0
        BY <4>1, LenProperties
      <4>. QED  BY <2>2, <4>1, <4>2 DEF Owes
    <3>. QED  BY <3>1, <3>2, <3>3 DEF Unread
  <2>. QED  BY <2>1, <2>2 DEF AtEnd
<1>3. Service!Hangup(c)
  BY <1>1, <1>2 DEF Service!Hangup, Seen
<1>. QED  BY <1>3 DEF ServiceStep, Service!Next

\* The children that were waited for.
Reaped == In({"reaped"})

\* What is kept of a child.
ChildRecord == [at : {"none", "read", "reply", "zombie", "reaped"}, buf : Seq(Conns \X Nat)]

\* The memory of server-multiprocess and of its children.
ProcessMemory ==
  [clientfd : Watchable, installed : BOOLEAN, pending : BOOLEAN, errno : {"0", "EINTR", "ECHILD"},
   child : [Conns -> ChildRecord]]

\* Where the main process is: it has one descriptor at most, and the connection
\* of that one has a child only after fork.
ProcessTypes ==
  /\ mem \in ProcessMemory
  /\ pc \in {"accept", "fork", "parent", "failed", "ended"}
  /\ ending \in {"none", "fork error", "accept error"} /\ (pc = "ended" <=> ending # "none")
  /\ OpenFds \subseteq {mem.clientfd}
  /\ pc \in {"accept", "failed"} => OpenFds = {}
  /\ pc \in {"fork", "parent"} => mem.clientfd \in OpenFds
  /\ pc = "fork" => mem.child[file[mem.clientfd]].at = "none"
  /\ pc = "parent" => mem.child[file[mem.clientfd]].at # "none"

\* A child has a connection that was accepted; it is not closed while the child
\* runs, and the child owes what it read.
ChildInv(c) ==
  /\ mem.child[c].at # "none" => peer[c] # "new" /\ c \notin backlog
  /\ mem.child[c].at \in {"read", "reply"} => c \notin closed
  /\ mem.child[c].at = "reply" => mem.child[c].buf # <<>>
  /\ mem.child[c].at \in {"zombie", "reaped"} => peer[c] = "gone" \/ AtEnd(c)
  /\ Owes(c, IF mem.child[c].at = "reply" THEN mem.child[c].buf ELSE <<>>)

\* A signal under way stands for zombies; with a handler and no signal under way
\* there are none, or only the first child, which ended before the handler was
\* installed; and errno is lost only to a handler that reaped two children.
ProcessSignals ==
  /\ mem.pending => mem.installed /\ Zombies # {}
  /\ ~mem.installed => \A c \in Conns : mem.child[c].at # "none" =>
       pc = "parent" /\ c = file[mem.clientfd] /\ mem.child[c].at # "reaped"
  /\ mem.installed /\ ~mem.pending =>
       Zombies = {} \/ (Reaped = {} /\ \A a, b \in Zombies : a = b)
  /\ pc = "failed" => mem.installed /\ Reaped # {}
  /\ pc = "failed" /\ mem.errno # "EINTR" => \E a, b \in Reaped : a # b
  /\ Cardinality(Zombies \cup Running) <= MaxProcs

\* The inductive invariant of server-multiprocess.
ProcessInv ==
  ProcessTypes /\ (\A c \in Conns : ChildInv(c)) /\ ProcessSignals /\ ExitExplained

\* Where the children are, as sets and one by one.
LEMMA ChildrenAre ==
  ASSUME program = "multiprocess"
  PROVE  \A c \in Conns : /\ c \in Zombies <=> mem.child[c].at = "zombie"
                          /\ c \in Running <=> mem.child[c].at \in {"read", "reply"}
                          /\ c \in Reaped <=> mem.child[c].at = "reaped"
BY DEF Zombies, Running, Reaped, In

\* The same after a step.
LEMMA ChildrenAreNext ==
  ASSUME program' = "multiprocess"
  PROVE  \A c \in Conns : /\ c \in Zombies' <=> mem'.child[c].at = "zombie"
                          /\ c \in Running' <=> mem'.child[c].at \in {"read", "reply"}
                          /\ c \in Reaped' <=> mem'.child[c].at = "reaped"
BY DEF Zombies, Running, Reaped, In

\* All of them are connections.
LEMMA ChildrenAmong ==
  /\ Zombies \subseteq Conns /\ Running \subseteq Conns /\ Reaped \subseteq Conns
  /\ Zombies' \subseteq Conns /\ Running' \subseteq Conns /\ Reaped' \subseteq Conns
BY DEF Zombies, Running, Reaped, In

\* The children stay what they are, one by one or as sets.
LEMMA ChildrenStay ==
  ASSUME program = "multiprocess", program' = program,
         \A c \in Conns : mem'.child[c].at = mem.child[c].at
  PROVE  Zombies' = Zombies /\ Running' = Running /\ Reaped' = Reaped
BY ChildrenAre, ChildrenAreNext, ChildrenAmong

\* A set with two elements in it has a cardinality above one; a subset of a finite set.
LEMMA TwoAreMany ==
  ASSUME NEW S \in SUBSET Conns, NEW a \in S, NEW b \in S, a # b
  PROVE  Cardinality(S) > 1
<1>1. IsFiniteSet(S)
  BY FS_Subset, KernelAssumption
<1>2. IsFiniteSet({a, b}) /\ Cardinality({a, b}) = 2
  <2>1. IsFiniteSet({a}) /\ Cardinality({a}) = 1
    BY FS_Singleton
  <2>2. {a, b} = {a} \cup {b} /\ b \notin {a}
    OBVIOUS
  <2>3. IsFiniteSet({a} \cup {b}) /\ Cardinality({a} \cup {b}) = Cardinality({a}) + 1
    BY <2>1, <2>2, FS_AddElement
  <2>. QED  BY <2>1, <2>2, <2>3
<1>3. {a, b} \in SUBSET S
  OBVIOUS
<1>4. Cardinality({a, b}) <= Cardinality(S) /\ Cardinality(S) \in Nat
  BY <1>1, <1>3, FS_Subset, FS_CardinalityType
<1>. QED  BY <1>2, <1>4

\* A set whose elements are all the same has one.
LEMMA OneIsOne ==
  ASSUME NEW S \in SUBSET Conns, \A a, b \in S : a = b, S # {}
  PROVE  Cardinality(S) = 1
<1>1. PICK a \in S : S = {a}
  OBVIOUS
<1>. QED  BY <1>1, FS_Singleton

\* The main process accepts: its one descriptor is the new connection's, which
\* has no child yet.
LEMMA ProcessAcceptKeeps ==
  ASSUME KernelInv, program = "multiprocess", ProcessInv, ProcessAccept
  PROVE  KernelInv' /\ ProcessInv' /\ ServiceStep
<1> USE DEF ProcessInv
<1>1. /\ pc = "accept" /\ pc' = "fork" /\ mem' = [mem EXCEPT !.clientfd = NewFd] /\ ending = "none"
      /\ OpenFds = {} /\ UNCHANGED <<ending, closed, stream>>
  BY DEF ProcessAccept, At, ProcessTypes
<1>2. PICK c \in Conns : Accepts(c)
  BY DEF ProcessAccept
<1>3. /\ KernelInv' /\ c \in backlog /\ NewFd \in FreeFds /\ program' = program /\ Fds' = Fds
      /\ file' = [file EXCEPT ![NewFd] = c] /\ backlog' = backlog \ {c}
      /\ OpenFds' = {NewFd}
  BY <1>1, <1>2, AcceptsKeeps
<1>4. PICK f : f = NewFd
  OBVIOUS
<1>5. f \in Fds /\ OpenFds' = {f} /\ file'[f] = c
  BY <1>3, <1>4 DEF FreeFds, KernelInv, FilesInv
<1>6. /\ mem' \in ProcessMemory /\ mem'.clientfd = f /\ mem'.child = mem.child
      /\ mem'.installed = mem.installed /\ mem'.pending = mem.pending
  <2>1. mem' = [mem EXCEPT !.clientfd = f] /\ mem \in ProcessMemory /\ f \in Watchable
    BY <1>1, <1>4, <1>5 DEF ProcessTypes, Watchable
  <2>2. Watchable' = Watchable
    BY <1>3 DEF Watchable
  <2>. QED  BY <2>1, <2>2 DEF ProcessMemory, ChildRecord
<1>7. mem.child[c].at = "none"
  BY <1>3 DEF ChildInv
<1>8. ProcessTypes'
  BY <1>1, <1>3, <1>5, <1>6, <1>7 DEF ProcessTypes, ProcessMemory, Watchable
<1>9. UNCHANGED <<peer, sent, taken, got>>
  BY <1>1 DEF stream
<1>10. ASSUME NEW d \in Conns PROVE ChildInv(d)'
  <2>1. ChildInv(d)
    OBVIOUS
  <2>. QED  BY <1>1, <1>3, <1>6, <1>9, <2>1 DEF ChildInv, Owes, AtEnd, Unread
<1>11. Zombies' = Zombies /\ Running' = Running /\ Reaped' = Reaped
  BY <1>3, <1>6, ChildrenStay
<1>12. ProcessSignals'
  BY <1>1, <1>6, <1>11 DEF ProcessSignals
<1>13. ServiceStep
  BY <1>1, <1>3, <1>9, Unseen DEF Seen
<1>. QED  BY <1>1, <1>3, <1>8, <1>10, <1>12, <1>13, NotEnded

\* fork gives the new connection its child.
LEMMA ForkKeeps ==
  ASSUME KernelInv, program = "multiprocess", ProcessInv, Fork
  PROVE  KernelInv' /\ ProcessInv' /\ ServiceStep
<1> USE DEF ProcessInv
<1>1. /\ pc = "fork" /\ pc' = "parent" /\ ending = "none" /\ CanFork /\ mem.clientfd \in OpenFds
      /\ mem' = [mem EXCEPT !.child[file[mem.clientfd]].at = "read"] /\ mem \in ProcessMemory
      /\ UNCHANGED <<ending, sockets, stream>> /\ mem.child[file[mem.clientfd]].at = "none"
  BY DEF Fork, At, ProcessTypes
<1>2. PICK c : c = file[mem.clientfd]
  OBVIOUS
<1>3. c \in Conns /\ c \notin closed /\ c \notin backlog /\ peer[c] # "new"
  BY <1>1, <1>2, OneIsServed DEF KernelInv, FilesInv, BegunInv
<1>4. /\ KernelInv' /\ UNCHANGED <<program, file, backlog, closed, peer, sent, taken, got, edge>>
      /\ Fds' = Fds /\ OpenFds' = OpenFds
  BY <1>1, StillKeeps
<1>5. /\ mem' \in ProcessMemory /\ mem'.clientfd = mem.clientfd /\ mem'.installed = mem.installed
      /\ mem'.pending = mem.pending
      /\ mem'.child[c].at = "read" /\ \A d \in Conns \ {c} : mem'.child[d] = mem.child[d]
  <2>1. mem' = [mem EXCEPT !.child[c].at = "read"]
    BY <1>1, <1>2
  <2>2. Watchable' = Watchable
    BY <1>4 DEF Watchable
  <2>3. PICK r : r = [mem.child[c] EXCEPT !.at = "read"]
    OBVIOUS
  <2>4. PICK t : t = [mem.child EXCEPT ![c] = r]
    OBVIOUS
  <2>5. mem' = [mem EXCEPT !.child = t]
    BY <2>1, <2>3, <2>4
  <2>6. mem.child \in [Conns -> ChildRecord] /\ mem.child[c] \in ChildRecord
    BY <1>1, <1>3 DEF ProcessMemory
  <2>7. r \in ChildRecord /\ r.at = "read"
    BY <2>3, <2>6 DEF ChildRecord
  <2>8. t \in [Conns -> ChildRecord] /\ t[c] = r /\ \A d \in Conns \ {c} : t[d] = mem.child[d]
    BY <1>3, <2>4, <2>6, <2>7
  <2>9. mem' \in [clientfd : Watchable, installed : BOOLEAN, pending : BOOLEAN, errno : {"0", "EINTR", "ECHILD"},
                 child : [Conns -> ChildRecord]] /\ mem'.child = t
    BY <1>1, <2>5, <2>8 DEF ProcessMemory
  <2>. QED  BY <1>1, <2>2, <2>5, <2>7, <2>8, <2>9 DEF ProcessMemory, ChildRecord
<1>6. ProcessTypes'
  <2>1. mem'.child[file'[mem'.clientfd]].at = "read"
    BY <1>2, <1>4, <1>5
  <2>2. OpenFds' \subseteq {mem'.clientfd} /\ mem'.clientfd \in OpenFds'
    BY <1>1, <1>4, <1>5 DEF ProcessTypes
  <2>3. mem' \in ProcessMemory'
    BY <1>4, <1>5 DEF ProcessMemory, Watchable, ChildRecord
  <2>4. ending' = "none" /\ pc' = "parent"
    BY <1>1
  <2>. QED  BY <2>1, <2>2, <2>3, <2>4 DEF ProcessTypes
<1>7. ASSUME NEW d \in Conns \ {c} PROVE ChildInv(d)'
  <2>1. ChildInv(d) /\ mem'.child[d] = mem.child[d]
    BY <1>5
  <2>. QED  BY <1>4, <2>1 DEF ChildInv, Owes, AtEnd, Unread
<1>8. ChildInv(c)'
  <2>1. Owes(c, <<>>)
    BY <1>1, <1>2, <1>3 DEF ChildInv
  <2>. QED  BY <1>3, <1>4, <1>5, <2>1 DEF ChildInv, Owes
<1>9. Zombies' = Zombies /\ Reaped' = Reaped /\ Running' = Running \cup {c} /\ c \notin Zombies \cup Running
  <2>1. mem.child[c].at = "none" /\ program' = "multiprocess"
    BY <1>1, <1>2, <1>4
  <2>2. \A d \in Conns : mem'.child[d].at = IF d = c THEN "read" ELSE mem.child[d].at
    BY <1>5
  <2>. QED  BY <1>3, <2>1, <2>2, ChildrenAre, ChildrenAreNext, ChildrenAmong
<1>10. Cardinality(Zombies' \cup Running') <= MaxProcs
  <2>1. IsFiniteSet(Zombies \cup Running)
    BY ChildrenAmong, FS_Subset, KernelAssumption
  <2>2. Zombies' \cup Running' = (Zombies \cup Running) \cup {c}
    BY <1>9
  <2>3. Cardinality(Zombies' \cup Running') = Cardinality(Zombies \cup Running) + 1
    BY <1>9, <2>1, <2>2, FS_AddElement
  <2>. QED  BY <1>1, <2>1, <2>3, FS_CardinalityType, ProcessAssumption DEF CanFork
<1>11. ProcessSignals'
  BY <1>1, <1>2, <1>4, <1>5, <1>9, <1>10 DEF ProcessSignals
<1>12. ServiceStep
  BY <1>4, Unseen DEF Seen
<1>. QED  BY <1>1, <1>4, <1>6, <1>7, <1>8, <1>11, <1>12, NotEnded

\* The server ends, and its children go on.
LEMMA ProcessEnds ==
  ASSUME KernelInv, program = "multiprocess", ProcessInv, NEW why \in {"fork error", "accept error"},
         Ends(why), ExitExplained', pc # "parent"
  PROVE  KernelInv' /\ ProcessInv' /\ ServiceStep
<1> USE DEF ProcessInv
<1>1. /\ KernelInv' /\ ServiceStep /\ ending' = why /\ pc' = "ended"
      /\ UNCHANGED <<mem, program, file, backlog, closed, peer, sent, taken, got, edge>>
      /\ Fds' = Fds /\ OpenFds' = OpenFds
  BY EndsKeeps
<1>2. ProcessTypes'
  BY <1>1 DEF ProcessTypes, ProcessMemory, Watchable
<1>3. \A d \in Conns : ChildInv(d)'
  BY <1>1 DEF ChildInv, Owes, AtEnd, Unread
<1>4. Zombies' = Zombies /\ Running' = Running /\ Reaped' = Reaped
  BY <1>1, ChildrenStay
<1>6. ProcessSignals'
  BY <1>1, <1>4 DEF ProcessSignals
<1>. QED  BY <1>1, <1>2, <1>3, <1>6

\* The main process closes the connection, which its child may still have open.
LEMMA ParentClosesKeeps ==
  ASSUME KernelInv, program = "multiprocess", ProcessInv, ParentCloses
  PROVE  KernelInv' /\ ProcessInv' /\ ServiceStep
<1> USE DEF ProcessInv
<1>1. /\ pc = "parent" /\ pc' = "accept" /\ ending = "none" /\ mem.clientfd \in OpenFds
      /\ OpenFds \subseteq {mem.clientfd} /\ mem \in ProcessMemory
      /\ file' = [file EXCEPT ![mem.clientfd] = None]
      /\ closed' = closed \cup ({file[mem.clientfd]} \ Running)
      /\ mem' = [mem EXCEPT !.installed = TRUE, !.clientfd = LISTEN]
      /\ UNCHANGED <<program, ending, backlog, stream>>
  BY DEF ParentCloses, At, ProcessTypes
<1>2. PICK f, c, C : f = mem.clientfd /\ c = file[mem.clientfd] /\ C = {c} \ Running
  OBVIOUS
<1>3. f \in Fds /\ c \in Conns /\ c = file[f] /\ c # None /\ c \notin closed /\ c \notin backlog /\ peer[c] # "new"
  BY <1>1, <1>2, OneIsServed DEF KernelInv, FilesInv, BegunInv
<1>4. \A g \in Fds : file'[g] = None
  BY <1>1, <1>2, <1>3 DEF OpenFds, FreeFds, KernelInv, FilesInv
<1>5. /\ KernelInv' /\ UNCHANGED <<program, backlog, peer, sent, taken, got, edge>> /\ Fds' = Fds
      /\ closed' = closed \cup C /\ \A d \in Conns : \A e : Owes(d, e) => Owes(d, e)'
  <2>1. C \in SUBSET Conns /\ closed' = closed \cup C /\ \A d \in C : d \notin backlog /\ peer[d] # "new"
    BY <1>1, <1>2, <1>3
  <2>2. file' \in [Fds -> Conns \cup {None}]
    BY <1>1 DEF KernelInv, FilesInv
  <2>. QED  BY <1>1, <1>4, <2>1, <2>2, ClosedSome
<1>6. OpenFds' = {}
  BY <1>4, <1>5 DEF OpenFds, FreeFds
<1>7. mem' \in ProcessMemory /\ mem'.clientfd = LISTEN /\ mem'.child = mem.child
      /\ mem'.installed = TRUE /\ mem'.pending = mem.pending
  BY <1>1, <1>5 DEF ProcessMemory, ChildRecord, Watchable
<1>8. ProcessTypes'
  BY <1>1, <1>5, <1>6, <1>7 DEF ProcessTypes, ProcessMemory, Watchable
<1>9. ASSUME NEW d \in Conns PROVE ChildInv(d)'
  <2>1. ChildInv(d)
    OBVIOUS
  <2>2. d \in closed' => d \in closed \/ mem.child[d].at \notin {"read", "reply"}
    BY <1>1, <1>2, <1>5, ChildrenAre
  <2>3. mem'.child[d] = mem.child[d]
    BY <1>7
  <2>. QED  BY <1>5, <2>1, <2>2, <2>3 DEF ChildInv, AtEnd, Unread, Owes
<1>10. Zombies' = Zombies /\ Running' = Running /\ Reaped' = Reaped
  BY <1>1, <1>7, ChildrenStay
<1>11. ProcessSignals'
  <2>1. ~mem.installed => Reaped = {} /\ \A a, b \in Zombies : a = b
    BY <1>1, ChildrenAre, ChildrenAmong DEF ProcessSignals
  <2>2. mem.pending \in BOOLEAN /\ mem.installed \in BOOLEAN
    BY <1>1 DEF ProcessMemory
  <2>. QED  BY <1>1, <1>7, <1>10, <2>1, <2>2 DEF ProcessSignals
<1>12. ServiceStep
  <2>1. CASE c \in Running
    <3>1. closed' = closed
      BY <1>1, <1>2, <2>1
    <3>. QED  BY <1>5, <3>1, Unseen DEF Seen
  <2>2. CASE c \notin Running
    <3>1. closed' = closed \cup {c}
      BY <1>1, <1>2, <2>2
    <3>2. mem.child[c].at \in {"zombie", "reaped"}
      <4>1. mem.child[c].at # "none"
        BY <1>1, <1>2 DEF ProcessTypes
      <4>. QED  BY <1>1, <1>3, <2>2, <4>1, ChildrenAre DEF ProcessMemory, ChildRecord
    <3>3. peer[c] = "gone" \/ (AtEnd(c) /\ Owes(c, <<>>))
      BY <1>3, <3>2 DEF ChildInv
    <3>. QED  BY <1>1, <1>3, <3>1, <3>3, HangsUpOn
  <2>. QED  BY <2>1, <2>2
<1>. QED  BY <1>1, <1>5, <1>8, <1>9, <1>11, <1>12, NotEnded

\* A child moves: of the memory only its entry changes, and pending with it.
ChildMoves(c, child) ==
  /\ mem' \in ProcessMemory /\ mem'.child[c] = child
  /\ \A d \in Conns \ {c} : mem'.child[d] = mem.child[d]
  /\ mem'.clientfd = mem.clientfd /\ mem'.installed = mem.installed /\ mem'.errno = mem.errno

\* A child gets a new record, and the rest of the memory stays.
LEMMA ChildMovesTo ==
  ASSUME mem \in ProcessMemory, NEW c \in Conns, NEW child \in ChildRecord, NEW p \in BOOLEAN,
         mem' = [mem EXCEPT !.child[c] = child, !.pending = p], program' = program
  PROVE  ChildMoves(c, child) /\ mem'.pending = p
<1>1. PICK t : t = [mem.child EXCEPT ![c] = child]
  OBVIOUS
<1>2. mem' = [mem EXCEPT !.child = t, !.pending = p]
  BY <1>1
<1>3. mem.child \in [Conns -> ChildRecord]
  BY DEF ProcessMemory
<1>4. t \in [Conns -> ChildRecord] /\ t[c] = child /\ \A d \in Conns \ {c} : t[d] = mem.child[d]
  BY <1>1, <1>3
<1>5. /\ mem' \in [clientfd : Watchable, installed : BOOLEAN, pending : BOOLEAN, errno : {"0", "EINTR", "ECHILD"},
                   child : [Conns -> ChildRecord]]
      /\ mem'.child = t /\ mem'.pending = p
      /\ mem'.clientfd = mem.clientfd /\ mem'.installed = mem.installed /\ mem'.errno = mem.errno
  BY <1>2, <1>4 DEF ProcessMemory
<1>. QED  BY <1>4, <1>5 DEF ChildMoves, ProcessMemory, Watchable, Fds, ChildRecord

\* A child that still runs leaves the signals as they were.
LEMMA ChildMovesOn ==
  ASSUME mem \in ProcessMemory, NEW c \in Conns, NEW child \in ChildRecord,
         mem' = [mem EXCEPT !.child[c] = child], program' = program
  PROVE  ChildMoves(c, child) /\ mem'.pending = mem.pending
<1>1. PICK t : t = [mem.child EXCEPT ![c] = child]
  OBVIOUS
<1>2. mem' = [mem EXCEPT !.child = t]
  BY <1>1
<1>3. mem.child \in [Conns -> ChildRecord]
  BY DEF ProcessMemory
<1>4. t \in [Conns -> ChildRecord] /\ t[c] = child /\ \A d \in Conns \ {c} : t[d] = mem.child[d]
  BY <1>1, <1>3
<1>5. /\ mem' \in [clientfd : Watchable, installed : BOOLEAN, pending : BOOLEAN, errno : {"0", "EINTR", "ECHILD"},
                   child : [Conns -> ChildRecord]]
      /\ mem'.child = t /\ mem'.pending = mem.pending
      /\ mem'.clientfd = mem.clientfd /\ mem'.installed = mem.installed /\ mem'.errno = mem.errno
  BY <1>2, <1>4 DEF ProcessMemory
<1>. QED  BY <1>4, <1>5 DEF ChildMoves, ProcessMemory, Watchable, Fds, ChildRecord

\* The main process stays as it was when a child moves that runs and still does.
LEMMA ChildBeside ==
  ASSUME KernelInv, program = "multiprocess", ProcessInv, NEW c \in Running, NEW child,
         ChildMoves(c, child), child.at \in {"read", "reply"}, mem'.pending = mem.pending,
         UNCHANGED <<program, pc, ending, file>>, Fds' = Fds, OpenFds' = OpenFds
  PROVE  /\ ProcessTypes' /\ ProcessSignals' /\ ExitExplained'
<1> USE DEF ProcessInv
<1>1. c \in Conns /\ mem.child[c].at \in {"read", "reply"}
  BY ChildrenAre, ChildrenAmong
<1>2. /\ mem' \in ProcessMemory /\ mem'.child[c] = child
      /\ \A d \in Conns \ {c} : mem'.child[d] = mem.child[d]
      /\ mem'.clientfd = mem.clientfd /\ mem'.installed = mem.installed /\ mem'.errno = mem.errno
  BY DEF ChildMoves
<1>3. \A d \in Conns : \/ mem'.child[d].at = mem.child[d].at
                       \/ d = c /\ mem'.child[d].at \in {"read", "reply"}
  BY <1>1, <1>2
<1>4. Zombies' = Zombies /\ Running' = Running /\ Reaped' = Reaped
  BY <1>1, <1>3, ChildrenAre, ChildrenAreNext, ChildrenAmong
<1>5. ProcessTypes'
  <2>1. pc = "fork" => mem'.child[file[mem.clientfd]].at = "none"
    <3>1. mem.clientfd \in OpenFds => file[mem.clientfd] \in Conns
      BY OneIsServed
    <3>. QED  BY <1>1, <1>3, <3>1 DEF ProcessTypes
  <2>2. pc = "parent" => mem'.child[file[mem.clientfd]].at # "none"
    <3>1. mem.clientfd \in OpenFds => file[mem.clientfd] \in Conns
      BY OneIsServed
    <3>. QED  BY <1>1, <1>3, <3>1 DEF ProcessTypes
  <2>3. mem' \in ProcessMemory'
    BY <1>2 DEF ProcessMemory, Watchable, ChildRecord
  <2>4. /\ pc' = "fork" => mem'.child[file'[mem'.clientfd]].at = "none"
        /\ pc' = "parent" => mem'.child[file'[mem'.clientfd]].at # "none"
    BY <1>2, <2>1, <2>2
  <2>5. OpenFds' \subseteq {mem'.clientfd} /\ (pc' \in {"fork", "parent"} => mem'.clientfd \in OpenFds')
    BY <1>2 DEF ProcessTypes
  <2>. QED  BY <2>3, <2>4, <2>5 DEF ProcessTypes
<1>6. ProcessSignals'
  BY <1>1, <1>2, <1>3, <1>4 DEF ProcessSignals
<1>7. ExitExplained'
  BY <1>4 DEF ProcessTypes, ExitExplained, Reaped
<1>. QED  BY <1>5, <1>6, <1>7

\* A child reads, and owes what it read.
LEMMA ChildReceivesKeeps ==
  ASSUME KernelInv, program = "multiprocess", ProcessInv, NEW c \in Conns, ChildReceives(c)
  PROVE  KernelInv' /\ ProcessInv' /\ ServiceStep
<1> USE DEF ProcessInv
<1>1. /\ mem.child[c].at = "read" /\ Takes(c, Arrived(c, MAXLINE)) /\ mem \in ProcessMemory
      /\ mem' = [mem EXCEPT !.child[c] = [at |-> "reply", buf |-> Arrived(c, MAXLINE)]]
      /\ UNCHANGED <<pc, ending, sockets>>
  BY DEF ChildReceives, In, ProcessTypes
<1>2. PICK b : b = Arrived(c, MAXLINE)
  OBVIOUS
<1>3. /\ KernelInv' /\ UNCHANGED <<program, file, backlog, closed, peer, sent, got, edge>>
      /\ Fds' = Fds /\ OpenFds' = OpenFds
      /\ taken' = [taken EXCEPT ![c] = taken[c] + Len(b)]
      /\ b \in Seq(Conns \X Nat) /\ b # <<>>
  <2>1. MAXLINE \in Nat
    BY KernelAssumption
  <2>. QED  BY <1>1, <1>2, <2>1, TakesKeeps, ArrivedType DEF sockets, Fds, OpenFds, FreeFds, Takes
<1>4. /\ ServiceStep /\ (Owes(c, <<>>) => Owes(c, b)')
      /\ \A d \in Conns \ {c} : \A e : Owes(d, e) => Owes(d, e)'
  <2>1. MAXLINE \in Nat
    BY KernelAssumption
  <2>. QED  BY <1>1, <1>2, <2>1, TakesUnseen
<1>5. PICK child : child = [at |-> "reply", buf |-> b]
  OBVIOUS
<1>6. ChildMoves(c, child) /\ mem'.pending = mem.pending /\ child.at = "reply" /\ child.buf = b
  <2>1. child \in ChildRecord /\ mem' = [mem EXCEPT !.child[c] = child]
    BY <1>1, <1>2, <1>3, <1>5 DEF ChildRecord
  <2>. QED  BY <1>1, <1>3, <1>5, <2>1, ChildMovesOn
<1>7. c \in Running
  BY <1>1, ChildrenAre
<1>8. ProcessTypes' /\ ProcessSignals' /\ ExitExplained'
  BY <1>1, <1>3, <1>6, <1>7, ChildBeside
<1>9. ChildInv(c)'
  <2>1. Owes(c, <<>>) /\ c \notin closed /\ c \notin backlog /\ peer[c] # "new"
    BY <1>1 DEF ChildInv
  <2>2. mem'.child[c].at = "reply" /\ mem'.child[c].buf = b
    BY <1>6 DEF ChildMoves
  <2>3. Owes(c, b)'
    BY <1>4, <2>1
  <2>4. Owes(c, mem.child[c].buf)'
    BY <2>2, <2>3 DEF Owes
  <2>. QED  BY <1>3, <2>1, <2>2, <2>4 DEF ChildInv
<1>10. ASSUME NEW d \in Conns \ {c} PROVE ChildInv(d)'
  <2>1. ChildInv(d) /\ mem'.child[d] = mem.child[d] /\ taken'[d] = taken[d]
    BY <1>3, <1>6 DEF ChildMoves, KernelInv, StreamInv
  <2>. QED  BY <1>3, <1>4, <2>1 DEF ChildInv, AtEnd, Unread, Owes
<1>. QED  BY <1>3, <1>4, <1>8, <1>9, <1>10

\* A child writes what it owes.
LEMMA ChildWritesKeeps ==
  ASSUME KernelInv, program = "multiprocess", ProcessInv, NEW c \in Conns, ChildWrites(c)
  PROVE  KernelInv' /\ ProcessInv' /\ ServiceStep
<1> USE DEF ProcessInv
<1>1. /\ mem.child[c].at = "reply" /\ Writes(c, mem.child[c].buf) /\ mem \in ProcessMemory
      /\ mem' = [mem EXCEPT !.child[c] = [at |-> "read", buf |-> <<>>]]
      /\ UNCHANGED <<pc, ending, sockets>>
  BY DEF ChildWrites, In, ProcessTypes
<1>2. PICK b : b = mem.child[c].buf
  OBVIOUS
<1>3. b \in Seq(Conns \X Nat) /\ b # <<>> /\ Owes(c, b) /\ c \notin closed /\ c \notin backlog /\ peer[c] # "new"
  BY <1>1, <1>2 DEF ChildInv, ProcessMemory, ChildRecord
<1>4. /\ KernelInv' /\ UNCHANGED <<program, file, backlog, closed, sent, taken, edge>>
      /\ Fds' = Fds /\ OpenFds' = OpenFds
  BY <1>1, <1>2, <1>3, WritesKeeps DEF sockets, Fds, OpenFds, FreeFds
<1>5. /\ ServiceStep /\ Owes(c, <<>>)' /\ \A d \in Conns \ {c} : \A e : Owes(d, e) => Owes(d, e)'
  BY <1>1, <1>2, <1>3, WritesSeen
<1>6. PICK child : child = [at |-> "read", buf |-> <<>>]
  OBVIOUS
<1>7. ChildMoves(c, child) /\ mem'.pending = mem.pending /\ child.at = "read"
  <2>1. child \in ChildRecord /\ mem' = [mem EXCEPT !.child[c] = child]
    BY <1>1, <1>6, EmptySeq DEF ChildRecord
  <2>. QED  BY <1>1, <1>4, <1>6, <2>1, ChildMovesOn
<1>8. c \in Running
  BY <1>1, ChildrenAre
<1>9. ProcessTypes' /\ ProcessSignals' /\ ExitExplained'
  BY <1>1, <1>4, <1>7, <1>8, ChildBeside
<1>10. \A d \in Conns : peer'[d] = "new" => peer[d] = "new"
  BY <1>1 DEF Writes, KernelInv, StreamInv
<1>11. ChildInv(c)'
  <2>1. mem'.child[c].at = "read"
    BY <1>7 DEF ChildMoves
  <2>. QED  BY <1>3, <1>4, <1>5, <1>10, <2>1 DEF ChildInv, Owes
<1>12. ASSUME NEW d \in Conns \ {c} PROVE ChildInv(d)'
  <2>1. ChildInv(d) /\ mem'.child[d] = mem.child[d] /\ peer'[d] = peer[d]
    BY <1>1, <1>7 DEF ChildMoves, Writes, KernelInv, StreamInv
  <2>2. Owes(d, IF mem.child[d].at = "reply" THEN mem.child[d].buf ELSE <<>>)'
    BY <1>5, <2>1 DEF ChildInv
  <2>3. /\ peer[d] = "gone" \/ AtEnd(d) => peer'[d] = "gone" \/ AtEnd(d)'
        /\ UNCHANGED <<backlog, closed>>
    BY <1>4, <2>1 DEF AtEnd, Unread
  <2>. QED  BY <2>1, <2>2, <2>3 DEF ChildInv
<1>. QED  BY <1>4, <1>5, <1>9, <1>11, <1>12

\* A child passes over an error of read.
LEMMA ChildErrsKeeps ==
  ASSUME KernelInv, program = "multiprocess", ProcessInv, NEW c \in Conns, ChildErrs(c)
  PROVE  KernelInv' /\ ProcessInv' /\ ServiceStep
<1> USE DEF ProcessInv
<1>1. /\ mem.child[c].at = "read" /\ TakesError(c) /\ UNCHANGED <<pc, mem, ending, sockets>>
      /\ peer[c] = "reset" /\ peer' = [peer EXCEPT ![c] = "gone"]
  BY DEF ChildErrs, In, TakesError, Failing
<1>2. /\ KernelInv' /\ UNCHANGED <<program, file, backlog, closed, sent, taken, got, edge>>
      /\ Fds' = Fds /\ OpenFds' = OpenFds
  BY <1>1, ErrorStays DEF sockets, Fds, OpenFds, FreeFds
<1>3. ServiceStep /\ \A d \in Conns : \A b : Owes(d, b) => Owes(d, b)'
  BY <1>1, <1>2, ErrorUnseen, Unseen
<1>4. \A d \in Conns : peer'[d] = IF d = c THEN "gone" ELSE peer[d]
  BY <1>1 DEF KernelInv, StreamInv
<1>5. ASSUME NEW d \in Conns PROVE ChildInv(d)'
  <2>1. ChildInv(d) /\ mem'.child[d] = mem.child[d]
    BY <1>1
  <2>2. peer'[d] = peer[d] \/ (peer[d] # "new" /\ peer'[d] = "gone")
    BY <1>1, <1>4
  <2>. QED  BY <1>2, <1>3, <2>1, <2>2 DEF ChildInv, AtEnd, Unread, Owes
<1>6. Zombies' = Zombies /\ Running' = Running /\ Reaped' = Reaped
  BY <1>1, <1>2, ChildrenStay
<1>7. ProcessTypes'
  BY <1>1, <1>2 DEF ProcessTypes, ProcessMemory, ChildRecord, Watchable
<1>8. ProcessSignals'
  BY <1>1, <1>2, <1>6 DEF ProcessSignals
<1>9. ExitExplained'
  BY <1>1, <1>2, <1>6 DEF ProcessTypes, ExitExplained, Reaped
<1>. QED  BY <1>2, <1>3, <1>5, <1>7, <1>8, <1>9

\* A child exits, and closes its connection unless the main process has it too.
LEMMA ChildExitsKeeps ==
  ASSUME KernelInv, program = "multiprocess", ProcessInv, NEW c \in Conns, ChildExits(c)
  PROVE  KernelInv' /\ ProcessInv' /\ ServiceStep
<1> USE DEF ProcessInv
<1>1. /\ mem.child[c].at \in {"read", "reply"} /\ mem \in ProcessMemory
      /\ closed' = closed \cup ({c} \ Range(file))
      /\ mem' = [mem EXCEPT !.child[c] = [at |-> "zombie", buf |-> <<>>], !.pending = mem.installed]
      /\ UNCHANGED <<program, pc, ending, file, backlog, stream>>
  BY DEF ChildExits, In, ProcessTypes
<1>2. peer[c] = "gone" \/ (AtEnd(c) /\ Owes(c, <<>>))
  <2>1. CASE mem.child[c].at = "read" /\ AtEnd(c)
    BY <2>1 DEF ChildInv
  <2>2. CASE Dead(c)
    BY <2>2 DEF Dead
  <2>. QED  BY <2>1, <2>2 DEF ChildExits, In
<1>3. c \notin closed /\ c \notin backlog /\ peer[c] # "new"
  BY <1>1 DEF ChildInv
<1>4. PICK C : C = {c} \ Range(file)
  OBVIOUS
<1>5. /\ KernelInv' /\ UNCHANGED <<program, file, backlog, peer, sent, taken, got, edge>> /\ Fds' = Fds
      /\ closed' = closed \cup C /\ \A d \in Conns : \A e : Owes(d, e) => Owes(d, e)'
  <2>1. \A f \in Fds : file[f] \notin C
    BY <1>4 DEF Range, KernelInv, FilesInv
  <2>2. C \in SUBSET Conns /\ closed' = closed \cup C /\ \A d \in C : d \notin backlog /\ peer[d] # "new"
    BY <1>1, <1>3, <1>4
  <2>3. file' \in [Fds -> Conns \cup {None}]
    BY <1>1 DEF KernelInv, FilesInv
  <2>. QED  BY <1>1, <2>1, <2>2, <2>3, ClosedSome
<1>6. OpenFds' = OpenFds
  BY <1>5 DEF OpenFds, FreeFds
<1>7. PICK child : child = [at |-> "zombie", buf |-> <<>>]
  OBVIOUS
<1>8. ChildMoves(c, child) /\ mem'.pending = mem.installed /\ child.at = "zombie"
  <2>1. child \in ChildRecord /\ mem.installed \in BOOLEAN
    BY <1>1, <1>7, EmptySeq DEF ChildRecord, ProcessMemory
  <2>2. mem' = [mem EXCEPT !.child[c] = child, !.pending = mem.installed]
    BY <1>1, <1>7
  <2>. QED  BY <1>1, <1>7, <2>1, <2>2, ChildMovesTo
<1>9. /\ mem' \in ProcessMemory /\ mem'.child[c].at = "zombie"
      /\ \A d \in Conns \ {c} : mem'.child[d] = mem.child[d]
      /\ mem'.clientfd = mem.clientfd /\ mem'.installed = mem.installed /\ mem'.errno = mem.errno
  BY <1>8 DEF ChildMoves
<1>10. Zombies' = Zombies \cup {c} /\ Running' = Running \ {c} /\ Reaped' = Reaped /\ c \in Running
  <2>1. \A d \in Conns : mem'.child[d].at = IF d = c THEN "zombie" ELSE mem.child[d].at
    BY <1>9
  <2>2. program' = "multiprocess"
    BY <1>1
  <2>3. c \in Running
    BY <1>1, ChildrenAre
  <2>4. Zombies' = Zombies \cup {c}
    BY <2>1, <2>2, ChildrenAre, ChildrenAreNext, ChildrenAmong
  <2>5. Running' = Running \ {c}
    BY <2>1, <2>2, ChildrenAre, ChildrenAreNext, ChildrenAmong
  <2>6. Reaped' = Reaped
    <3>1. \A d \in Conns : mem'.child[d].at = "reaped" <=> mem.child[d].at = "reaped"
      BY <1>1, <2>1
    <3>2. \A d \in Conns : d \in Reaped' <=> d \in Reaped
      BY <2>2, <3>1, ChildrenAre, ChildrenAreNext
    <3>. QED  BY <3>2, ChildrenAmong
  <2>. QED  BY <2>3, <2>4, <2>5, <2>6
<1>11. ProcessTypes'
  <2>1. mem' \in ProcessMemory'
    BY <1>5, <1>9 DEF ProcessMemory, Watchable, ChildRecord
  <2>2. pc = "fork" => mem'.child[file[mem.clientfd]].at = "none"
    <3>1. mem.clientfd \in OpenFds => file[mem.clientfd] \in Conns
      BY OneIsServed
    <3>. QED  BY <1>1, <1>9, <3>1 DEF ProcessTypes
  <2>3. pc = "parent" => mem'.child[file[mem.clientfd]].at # "none"
    <3>1. mem.clientfd \in OpenFds => file[mem.clientfd] \in Conns
      BY OneIsServed
    <3>. QED  BY <1>1, <1>9, <3>1 DEF ProcessTypes
  <2>4. /\ pc' = "fork" => mem'.child[file'[mem'.clientfd]].at = "none"
        /\ pc' = "parent" => mem'.child[file'[mem'.clientfd]].at # "none"
    BY <1>1, <1>9, <2>2, <2>3
  <2>5. /\ OpenFds' \subseteq {mem'.clientfd}
        /\ pc' \in {"accept", "failed"} => OpenFds' = {}
        /\ pc' \in {"fork", "parent"} => mem'.clientfd \in OpenFds'
    BY <1>1, <1>6, <1>9 DEF ProcessTypes
  <2>. QED  BY <1>1, <2>1, <2>4, <2>5 DEF ProcessTypes
<1>12. ChildInv(c)'
  <2>1. peer'[c] = "gone" \/ AtEnd(c)'
    BY <1>2, <1>5 DEF AtEnd, Unread
  <2>2. Owes(c, <<>>)'
    BY <1>2, <1>5 DEF Owes
  <2>. QED  BY <1>3, <1>5, <1>9, <2>1, <2>2 DEF ChildInv
<1>13. ASSUME NEW d \in Conns \ {c} PROVE ChildInv(d)'
  <2>1. ChildInv(d) /\ mem'.child[d] = mem.child[d] /\ (d \in closed' => d \in closed)
    BY <1>4, <1>5, <1>9
  <2>. QED  BY <1>5, <2>1 DEF ChildInv, AtEnd, Unread, Owes
<1>14. ProcessSignals'
  <2>1. mem.pending \in BOOLEAN /\ mem.installed \in BOOLEAN /\ mem'.pending = mem.installed
    BY <1>1, <1>8 DEF ProcessMemory
  <2>2. Zombies' \cup Running' = Zombies \cup Running
    BY <1>10
  <2>3. ~mem.installed => \A d \in Conns : mem'.child[d].at # "none" =>
          pc = "parent" /\ d = file[mem.clientfd] /\ mem'.child[d].at # "reaped"
    BY <1>1, <1>9 DEF ProcessSignals
  <2>. QED  BY <1>1, <1>5, <1>9, <1>10, <2>1, <2>2, <2>3 DEF ProcessSignals
<1>15. ExitExplained'
  <2>1. Zombies' \cup Running' = Zombies \cup Running
    BY <1>10
  <2>. QED  BY <1>1, <1>10, <2>1 DEF ProcessTypes, ExitExplained, Reaped
<1>16. ServiceStep
  <2>1. CASE c \in Range(file)
    <3>1. closed' = closed
      BY <1>1, <2>1
    <3>. QED  BY <1>5, <3>1, Unseen DEF Seen
  <2>2. CASE c \notin Range(file)
    <3>1. closed' = closed \cup {c}
      BY <1>1, <2>2
    <3>. QED  BY <1>1, <1>2, <1>3, <3>1, HangsUpOn
  <2>. QED  BY <2>1, <2>2
<1>. QED  BY <1>5, <1>11, <1>12, <1>13, <1>14, <1>15, <1>16

\* The handler reaps every zombie there is; what it does to errno counts only
\* if accept has failed.
LEMMA CatchKeeps ==
  ASSUME KernelInv, program = "multiprocess", ProcessInv, catch_child
  PROVE  KernelInv' /\ ProcessInv' /\ ServiceStep
<1> USE DEF ProcessInv
<1>1. ending = "none" /\ mem.pending /\ mem \in ProcessMemory /\ UNCHANGED <<ending, sockets, stream>>
  BY DEF catch_child, ProcessTypes
<1>2. PICK interrupts \in Interrupting :
        /\ pc' = IF interrupts THEN "failed" ELSE pc
        /\ mem' = [mem EXCEPT
             !.pending = FALSE,
             !.child = [c \in Conns |-> IF c \in Zombies THEN [mem.child[c] EXCEPT !.at = "reaped"] ELSE mem.child[c]],
             !.errno = CASE interrupts -> "EINTR"
                         [] ~interrupts /\ Running = {} -> "ECHILD"
                         [] OTHER -> mem.errno]
  BY <1>1 DEF catch_child, ProcessMemory
<1>3. PICK t, e :
        /\ t = [c \in Conns |-> IF c \in Zombies THEN [mem.child[c] EXCEPT !.at = "reaped"] ELSE mem.child[c]]
        /\ e = CASE interrupts -> "EINTR" [] ~interrupts /\ Running = {} -> "ECHILD" [] OTHER -> mem.errno
  OBVIOUS
<1>4. interrupts \in BOOLEAN /\ (interrupts => pc = "accept")
  BY DEF Interrupting
<1>5. mem' = [mem EXCEPT !.pending = FALSE, !.child = t, !.errno = e]
  BY <1>2, <1>3
<1>6. e \in {"0", "EINTR", "ECHILD"} /\ (interrupts => e = "EINTR")
  BY <1>1, <1>3, <1>4 DEF ProcessMemory
<1>7. /\ t \in [Conns -> ChildRecord]
      /\ \A c \in Conns : t[c].buf = mem.child[c].buf
                          /\ t[c].at = IF mem.child[c].at = "zombie" THEN "reaped" ELSE mem.child[c].at
  <2> SUFFICES ASSUME NEW c \in Conns
      PROVE  /\ t[c] \in ChildRecord /\ t[c].buf = mem.child[c].buf
             /\ t[c].at = IF mem.child[c].at = "zombie" THEN "reaped" ELSE mem.child[c].at
    BY <1>3
  <2>1. mem.child[c] \in ChildRecord
    BY <1>1 DEF ProcessMemory
  <2>2. CASE c \in Zombies
    BY <1>3, <2>1, <2>2, ChildrenAre DEF ChildRecord
  <2>3. CASE c \notin Zombies
    BY <1>3, <2>1, <2>3, ChildrenAre DEF ChildRecord
  <2>. QED  BY <2>2, <2>3
<1>8. /\ KernelInv' /\ UNCHANGED <<program, file, backlog, closed, peer, sent, taken, got, edge>>
      /\ Fds' = Fds /\ OpenFds' = OpenFds
  BY <1>1, StillKeeps
<1>9. /\ mem' \in ProcessMemory /\ mem'.child = t /\ mem'.pending = FALSE /\ mem'.errno = e
      /\ mem'.clientfd = mem.clientfd /\ mem'.installed = mem.installed
  BY <1>1, <1>5, <1>6, <1>7 DEF ProcessMemory
<1>10. \A c \in Conns : /\ mem'.child[c].buf = mem.child[c].buf
                        /\ mem'.child[c].at = IF mem.child[c].at = "zombie" THEN "reaped" ELSE mem.child[c].at
  BY <1>7, <1>9
<1>11. Zombies' = {} /\ Running' = Running /\ Reaped' = Reaped \cup Zombies /\ Zombies \cap Reaped = {}
  <2>1. program' = "multiprocess"
    BY <1>8
  <2>2. Zombies' = {}
    BY <1>10, <2>1, ChildrenAreNext, ChildrenAmong
  <2>3. Running' = Running
    BY <1>10, <2>1, ChildrenAre, ChildrenAreNext, ChildrenAmong
  <2>4. Reaped' = Reaped \cup Zombies
    BY <1>10, <2>1, ChildrenAre, ChildrenAreNext, ChildrenAmong
  <2>5. Zombies \cap Reaped = {}
    BY ChildrenAre, ChildrenAmong
  <2>. QED  BY <2>2, <2>3, <2>4, <2>5
<1>12. ProcessTypes'
  <2>1. mem' \in ProcessMemory'
    BY <1>8, <1>9 DEF ProcessMemory, Watchable, ChildRecord
  <2>2. mem.clientfd \in OpenFds => file[mem.clientfd] \in Conns
    BY OneIsServed
  <2>3. /\ pc' = "fork" => mem'.child[file'[mem'.clientfd]].at = "none"
        /\ pc' = "parent" => mem'.child[file'[mem'.clientfd]].at # "none"
    <3>1. pc' \in {"fork", "parent"} => pc' = pc /\ mem.clientfd \in OpenFds
      BY <1>2, <1>4 DEF ProcessTypes
    <3>2. PICK d : d = file[mem.clientfd]
      OBVIOUS
    <3>3. file'[mem'.clientfd] = d
      BY <1>8, <1>9, <3>2
    <3>4. pc' \in {"fork", "parent"} => d \in Conns
      BY <2>2, <3>1, <3>2
    <3>5. /\ pc' = "fork" => mem.child[d].at = "none"
          /\ pc' = "parent" => mem.child[d].at # "none"
      BY <3>1, <3>2 DEF ProcessTypes
    <3>6. d \in Conns => mem'.child[d].at = IF mem.child[d].at = "zombie" THEN "reaped" ELSE mem.child[d].at
      BY <1>10
    <3>. QED  BY <3>3, <3>4, <3>5, <3>6
  <2>4. /\ OpenFds' \subseteq {mem'.clientfd}
        /\ pc' \in {"accept", "failed"} => OpenFds' = {}
        /\ pc' \in {"fork", "parent"} => mem'.clientfd \in OpenFds'
        /\ pc' \in {"accept", "fork", "parent", "failed", "ended"} /\ (pc' = "ended" <=> ending # "none")
    BY <1>2, <1>4, <1>8, <1>9 DEF ProcessTypes
  <2>. QED  BY <1>1, <2>1, <2>3, <2>4 DEF ProcessTypes
<1>13. ASSUME NEW c \in Conns PROVE ChildInv(c)'
  <2>1. ChildInv(c) /\ mem'.child[c].buf = mem.child[c].buf
        /\ mem'.child[c].at = IF mem.child[c].at = "zombie" THEN "reaped" ELSE mem.child[c].at
    BY <1>10
  <2>2. Owes(c, IF mem.child[c].at = "reply" THEN mem.child[c].buf ELSE <<>>)'
    <3>1. CASE mem.child[c].at = "reply"
      BY <1>8, <2>1, <3>1 DEF ChildInv, Owes
    <3>2. CASE mem.child[c].at # "reply"
      BY <1>8, <2>1, <3>2 DEF ChildInv, Owes
    <3>. QED  BY <3>1, <3>2
  <2>3. /\ peer[c] = "gone" \/ AtEnd(c) => peer'[c] = "gone" \/ AtEnd(c)'
        /\ UNCHANGED <<backlog, closed, peer>>
    BY <1>8 DEF AtEnd, Unread
  <2>. QED  BY <2>1, <2>2, <2>3 DEF ChildInv
<1>14. ProcessSignals'
  <2>1. mem.installed /\ Zombies # {}
    BY <1>1 DEF ProcessSignals
  <2>2. pc' = "failed" => Reaped' # {}
    BY <1>11, <2>1
  <2>3. ASSUME pc' = "failed", e # "EINTR" PROVE \E a, b \in Reaped' : a # b
    <3>1. pc = "failed"
      BY <1>2, <1>4, <1>6, <2>3
    <3>2. Reaped # {}
      BY <3>1 DEF ProcessSignals
    <3>. QED  BY <1>11, <2>1, <3>2
  <2>4. Cardinality(Zombies' \cup Running') <= MaxProcs
    <3>1. IsFiniteSet(Zombies \cup Running) /\ Zombies' \cup Running' \in SUBSET (Zombies \cup Running)
      BY <1>11, ChildrenAmong, FS_Subset, KernelAssumption
    <3>2. Cardinality(Zombies' \cup Running') <= Cardinality(Zombies \cup Running)
      BY <3>1, FS_Subset
    <3>3. Cardinality(Zombies' \cup Running') \in Nat /\ Cardinality(Zombies \cup Running) \in Nat
      BY <3>1, FS_Subset, FS_CardinalityType
    <3>. QED  BY <3>2, <3>3, ProcessAssumption DEF ProcessSignals
  <2>. QED  BY <1>9, <1>11, <2>1, <2>2, <2>3, <2>4 DEF ProcessSignals
<1>15. ServiceStep
  BY <1>8, Unseen DEF Seen
<1>. QED  BY <1>1, <1>8, <1>12, <1>13, <1>14, <1>15, NotEnded

\* Clients change nothing of the processes.
LEMMA ProcessClientKeeps ==
  ASSUME KernelInv, program = "multiprocess", ProcessInv, NEW c \in Conns, Client(c)
  PROVE  KernelInv' /\ ProcessInv' /\ ServiceStep
<1> USE DEF ProcessInv
<1>1. /\ KernelInv' /\ UNCHANGED <<pc, mem, ending, program, file, closed, taken, got>>
      /\ Fds' = Fds /\ OpenFds' = OpenFds /\ ending = "none"
  BY ClientKeeps
<1>2. ServiceStep /\ \A d \in Conns : \A e : Owes(d, e) => Owes(d, e)'
  BY ClientSeen
<1>3. \A d \in Conns : /\ peer[d] # "new" => peer'[d] # "new"
                       /\ d \in backlog' => d \in backlog \/ peer[d] = "new"
                       /\ peer[d] = "gone" \/ AtEnd(d) => peer'[d] = "gone" \/ AtEnd(d)'
  <2>1. peer \in [Conns -> {"new", "open", "finished", "reset", "gone"}] /\ sent \in [Conns -> Nat]
    BY DEF KernelInv, StreamInv
  <2>2. CASE Connect(c)
    BY <1>1, <2>1, <2>2 DEF Connect, AtEnd, Unread
  <2>3. CASE Send(c)
    BY <1>1, <2>1, <2>3 DEF Send, AtEnd, Unread, sockets
  <2>4. CASE Finish(c)
    BY <1>1, <2>1, <2>4 DEF Finish, AtEnd, Unread, sockets
  <2>5. CASE Reset(c)
    BY <1>1, <2>1, <2>5 DEF Reset, AtEnd, Unread, sockets
  <2>. QED  BY <2>2, <2>3, <2>4, <2>5 DEF Client
<1>4. ASSUME NEW d \in Conns PROVE ChildInv(d)'
  <2>1. ChildInv(d) /\ mem'.child[d] = mem.child[d]
    BY <1>1
  <2>2. Owes(d, IF mem.child[d].at = "reply" THEN mem.child[d].buf ELSE <<>>)'
    BY <1>2, <2>1 DEF ChildInv
  <2>. QED  BY <1>1, <1>3, <2>1, <2>2 DEF ChildInv
<1>5. Zombies' = Zombies /\ Running' = Running /\ Reaped' = Reaped
  BY <1>1, ChildrenStay
<1>6. ProcessTypes'
  BY <1>1 DEF ProcessTypes, ProcessMemory, ChildRecord, Watchable
<1>7. ProcessSignals'
  BY <1>1, <1>5 DEF ProcessSignals
<1>. QED  BY <1>1, <1>2, <1>4, <1>6, <1>7, NotEnded

\* Every step of server-multiprocess and of its clients.
LEMMA ProcessStep ==
  ASSUME KernelInv, program = "multiprocess", ProcessInv, [Next]_vars
  PROVE  KernelInv' /\ ProcessInv' /\ ServiceStep
<1> USE DEF ProcessInv
<1>1. CASE UNCHANGED vars
  <2>1. /\ KernelInv' /\ UNCHANGED <<program, file, backlog, closed, peer, sent, taken, got, edge>>
        /\ UNCHANGED <<pc, mem, ending>> /\ Fds' = Fds /\ OpenFds' = OpenFds /\ Watchable' = Watchable
        /\ ServiceStep /\ ExitExplained'
    BY <1>1, VarsStay
  <2>2. ProcessTypes'
    BY <2>1 DEF ProcessTypes, ProcessMemory, ChildRecord
  <2>3. \A d \in Conns : ChildInv(d)'
    BY <2>1 DEF ChildInv, Owes, AtEnd, Unread
  <2>4. Zombies' = Zombies /\ Running' = Running /\ Reaped' = Reaped
    BY <2>1, ChildrenStay
  <2>5. ProcessSignals'
    BY <2>1, <2>4 DEF ProcessSignals
  <2>. QED  BY <2>1, <2>2, <2>3, <2>5
<1>2. CASE ForkFails
  <2>1. pc = "fork" /\ ~CanFork /\ Ends("fork error")
    BY <1>2 DEF ForkFails, At
  <2>2. ending' = "fork error" /\ UNCHANGED <<mem, program>>
    BY <2>1, EndsKeeps
  <2>3. Zombies' = Zombies /\ Running' = Running
    BY <2>2, ChildrenStay
  <2>4. Cardinality(Zombies \cup Running) = MaxProcs
    <3>1. IsFiniteSet(Zombies \cup Running)
      BY ChildrenAmong, FS_Subset, KernelAssumption
    <3>2. Cardinality(Zombies \cup Running) \in Nat
      BY <3>1, FS_CardinalityType
    <3>3. Cardinality(Zombies \cup Running) <= MaxProcs
      BY DEF ProcessSignals
    <3>4. ~(Cardinality(Zombies \cup Running) < MaxProcs) /\ MaxProcs \in Nat
      BY <2>1, ProcessAssumption DEF CanFork
    <3>. QED  BY <3>2, <3>3, <3>4
  <2>5. ExitExplained'
    BY <2>2, <2>3, <2>4 DEF ExitExplained
  <2>. QED  BY <2>1, <2>5, ProcessEnds
<1>3. CASE AcceptAgain
  <2>1. pc = "failed" /\ pc' = "accept" /\ UNCHANGED <<mem, ending, sockets, stream>> /\ ending = "none"
    BY <1>3 DEF AcceptAgain, At, ProcessTypes
  <2>2. /\ KernelInv' /\ UNCHANGED <<program, file, backlog, closed, peer, sent, taken, got, edge>>
        /\ Fds' = Fds /\ OpenFds' = OpenFds
    BY <2>1, StillKeeps
  <2>3. ProcessTypes'
    BY <2>1, <2>2 DEF ProcessTypes, ProcessMemory, ChildRecord, Watchable
  <2>4. \A d \in Conns : ChildInv(d)'
    BY <2>1, <2>2 DEF ChildInv, Owes, AtEnd, Unread
  <2>5. Zombies' = Zombies /\ Running' = Running /\ Reaped' = Reaped
    BY <2>1, <2>2, ChildrenStay
  <2>6. ProcessSignals'
    BY <2>1, <2>2, <2>5 DEF ProcessSignals
  <2>7. ServiceStep
    BY <2>2, Unseen DEF Seen
  <2>. QED  BY <2>1, <2>2, <2>3, <2>4, <2>6, <2>7, NotEnded
<1>4. CASE AcceptGivesUp
  <2>1. pc = "failed" /\ mem.errno # "EINTR" /\ Ends("accept error")
    BY <1>4 DEF AcceptGivesUp, At
  <2>2. ending' = "accept error" /\ UNCHANGED <<mem, program>>
    BY <2>1, EndsKeeps
  <2>3. Reaped' = Reaped
    BY <2>2, ChildrenStay
  <2>4. Cardinality(Reaped) > 1
    <3>1. PICK a, b \in Reaped : a # b
      BY <2>1 DEF ProcessSignals
    <3>. QED  BY <3>1, ChildrenAmong, TwoAreMany
  <2>5. ExitExplained'
    BY <2>2, <2>3, <2>4 DEF ExitExplained, Reaped
  <2>. QED  BY <2>1, <2>5, ProcessEnds
<1>5. ~AcceptFails
  <2>1. SUFFICES ASSUME AcceptFails PROVE FALSE
    OBVIOUS
  <2>2. pc = "accept" /\ FreeFds = {}
    BY <2>1 DEF AcceptFails, Accepting, Handling, At
  <2>3. OpenFds = {} /\ MaxFd[program] \in Nat \ {0}
    BY <2>2, KernelAssumption DEF ProcessTypes, KernelInv, FilesInv
  <2>4. 1 \in Fds
    BY <2>3 DEF Fds
  <2>. QED  BY <2>2, <2>3, <2>4 DEF OpenFds
<1>6. ~WriteKills
  BY DEF WriteKills, ProcessTypes
<1>. QED
  <2>1. Parent \/ catch_child \/ (\E c \in Conns : Child(c)) \/ (\E c \in Conns : Client(c)) \/ UNCHANGED vars
    BY <1>5, <1>6, StepsOfPrograms DEF Selects, Sequentials, Edges
  <2>2. CASE Parent
    BY <1>2, <1>3, <1>4, <2>2, ProcessAcceptKeeps, ForkKeeps, ParentClosesKeeps DEF Parent
  <2>3. CASE \E c \in Conns : Child(c)
    BY <2>3, ChildReceivesKeeps, ChildWritesKeeps, ChildErrsKeeps, ChildExitsKeeps DEF Child
  <2>. QED  BY <1>1, <2>1, <2>2, <2>3, CatchKeeps, ProcessClientKeeps

\* What the runs check of server-multiprocess follows.
LEMMA ProcessMeans ==
  ASSUME KernelInv, program = "multiprocess", ProcessInv
  PROVE  TablesAgree /\ ExitExplained /\ StallExplained /\ ZombiesNoticed
<1>1. TablesAgree
  BY DEF TablesAgree, ProcessInv, ProcessTypes
<1>2. ExitExplained
  BY DEF ProcessInv
<1>3. StallExplained
  BY DEF StallExplained, Awaited, Handling, At
<1>4. ZombiesNoticed
  <2> SUFFICES ASSUME ~mem.pending, Zombies # {}
      PROVE  Cardinality(Zombies) = 1 /\ In({"reaped"}) = {}
    BY DEF ZombiesNoticed
  <2>1. ProcessSignals /\ mem.installed \in BOOLEAN
    BY DEF ProcessInv, ProcessTypes, ProcessMemory
  <2>2. Reaped = {} /\ \A a, b \in Zombies : a = b
    <3>1. CASE mem.installed
      BY <2>1, <3>1 DEF ProcessSignals
    <3>2. CASE ~mem.installed
      BY <2>1, <3>2, ChildrenAre, ChildrenAmong DEF ProcessSignals
    <3>. QED  BY <2>1, <3>1, <3>2
  <2>3. Cardinality(Zombies) = 1
    BY <2>2, ChildrenAmong, OneIsOne
  <2>. QED  BY <2>2, <2>3 DEF Reaped
<1>. QED  BY <1>1, <1>2, <1>3, <1>4

-----------------------------------------------------------------------------
(* server-multithread *)

\* The indices of addr_fd.
Ring == 0 .. RING - 1

\* What is kept of a worker.
WorkerRecord ==
  [at : {"none", "read", "blocked", "reply", "close", "done"}, slot : Ring,
   on : Conns \cup {None}, buf : Seq(Conns \X Nat)]

\* The memory of server-multithread, which its workers share.
ThreadMemory ==
  [addr_fd : [Ring -> Fds \cup {None}], i : Ring, new : Conns \cup {None},
   worker : [Conns -> WorkerRecord]]

\* The worker of a connection that has one and has not finished.
Active(c) == mem.worker[c].at \in {"read", "blocked", "reply", "close"}

\* Where the main thread and the workers are.
ThreadTypes ==
  /\ mem \in ThreadMemory
  /\ pc \in {"accept", "create", "ended"} /\ (pc = "ended" <=> ending # "none")
  /\ pc = "accept" => mem.new = None
  /\ pc = "create" => mem.new \in Conns /\ mem.addr_fd[mem.i] \in Fds
  /\ \A c \in Conns : Active(c) => EntryFd(c) \in Fds
  /\ \A c \in Conns : mem.worker[c].at = "blocked" => mem.worker[c].on \in Conns

\* How many entries main will fill before it fills this one, when i is the next.
Ahead(i, slot) == IF slot >= i THEN slot - i ELSE slot - i + RING

\* An entry of the ring is its worker's, and main fills it no sooner than after
\* all connections that are on their way.
WorkerPlace(c) ==
  /\ c \in backlog \/ peer[c] = "new" => mem.worker[c].at = "none"
  /\ Active(c) => file[EntryFd(c)] = c /\ Ahead(mem.i, mem.worker[c].slot) >= Pending

\* A worker waits on its own connection, and owes what it read from it.
WorkerData(c) ==
  /\ mem.worker[c].at = "blocked" => mem.worker[c].on = c
  /\ mem.worker[c].at = "close" => AtEnd(c)
  /\ mem.worker[c].at = "reply" => mem.worker[c].buf # <<>>
  /\ Owes(c, IF mem.worker[c].at = "reply" THEN mem.worker[c].buf ELSE <<>>)

\* What patient clients ensure: the entries that main fills next are not in use.
ThreadRing ==
  /\ Pending <= RING
  /\ pc = "create" => file[mem.addr_fd[mem.i]] = mem.new /\ mem.worker[mem.new].at = "none"
  /\ \A c \in Conns : WorkerPlace(c) /\ WorkerData(c)

\* The inductive invariant of server-multithread.
ThreadInv == ThreadTypes /\ (Patient => ThreadRing) /\ ExitExplained

\* What the constants of the ring are.
LEMMA RingIs == RING \in Nat \ {0} /\ Patient \in BOOLEAN /\ Ring \subseteq Nat
BY ThreadAssumption DEF Ring

\* How many connections are on their way is a number.
LEMMA PendingIs ==
  ASSUME KernelInv
  PROVE  IsFiniteSet(backlog) /\ Cardinality(backlog) \in Nat /\ Pending \in Nat
<1>1. backlog \in SUBSET Conns
  BY DEF KernelInv, FilesInv
<1>2. IsFiniteSet(backlog) /\ Cardinality(backlog) \in Nat
  BY <1>1, FS_Subset, FS_CardinalityType, KernelAssumption
<1>. QED  BY <1>2 DEF Pending

\* The next entry of the ring, seen from the distance to the one main fills next.
LEMMA RingTurns ==
  ASSUME NEW i \in Ring, NEW j, j = (i + 1) % RING
  PROVE  /\ j \in Ring
         /\ \A s \in Ring : IF s = i THEN Ahead(j, s) = RING - 1
                            ELSE Ahead(i, s) >= 1 /\ Ahead(j, s) = Ahead(i, s) - 1
<1>1. RING \in Nat \ {0} /\ i \in 0 .. RING - 1
  BY RingIs DEF Ring
<1>2. j = IF i + 1 = RING THEN 0 ELSE i + 1
  <2>1. CASE i + 1 = RING
    BY <1>1, <2>1
  <2>2. CASE i + 1 < RING
    BY <1>1, <2>2
  <2>. QED  BY <1>1, <2>1, <2>2
<1>. QED  BY <1>1, <1>2 DEF Ring, Ahead

\* A distance in the ring is a number, and the next entry has none.
LEMMA AheadIs == ASSUME NEW i \in Ring, NEW s \in Ring PROVE Ahead(i, s) \in Nat /\ Ahead(i, i) = 0
<1>1. RING \in Nat \ {0} /\ i \in 0 .. RING - 1 /\ s \in 0 .. RING - 1
  BY RingIs DEF Ring
<1>. QED  BY <1>1 DEF Ahead

\* Only the entry that is p ahead has the distance p.
LEMMA RingReaches ==
  ASSUME NEW i \in Ring, NEW p \in Ring, NEW s \in Ring, s # (i + p) % RING
  PROVE  Ahead(i, s) # p
<1>1. RING \in Nat \ {0} /\ i \in 0 .. RING - 1 /\ p \in 0 .. RING - 1 /\ s \in 0 .. RING - 1
  BY RingIs DEF Ring
<1>2. (i + p) % RING = IF i + p < RING THEN i + p ELSE i + p - RING
  <2>1. CASE i + p < RING
    BY <1>1, <2>1
  <2>2. CASE i + p >= RING
    <3>1. i + p - RING \in 0 .. RING - 1
      BY <1>1, <2>2
    <3>. QED  BY <1>1, <2>2, <3>1
  <2>. QED  BY <1>1, <2>1, <2>2
<1>. QED  BY <1>1, <1>2 DEF Ahead

\* A worker moves: of the memory only its own record changes.
WorkerMoves(w, rec) ==
  /\ mem' \in ThreadMemory /\ mem'.worker[w] = rec
  /\ \A d \in Conns \ {w} : mem'.worker[d] = mem.worker[d]
  /\ mem'.addr_fd = mem.addr_fd /\ mem'.i = mem.i /\ mem'.new = mem.new

\* A worker gets a new record, and the rest of the memory stays.
LEMMA WorkerMovesTo ==
  ASSUME mem \in ThreadMemory, NEW w \in Conns, NEW rec \in WorkerRecord,
         NEW t, t = [mem.worker EXCEPT ![w] = rec], mem' = [mem EXCEPT !.worker = t]
  PROVE  WorkerMoves(w, rec)
<1>1. mem.worker \in [Conns -> WorkerRecord]
  BY DEF ThreadMemory
<1>2. t \in [Conns -> WorkerRecord] /\ t[w] = rec /\ \A d \in Conns \ {w} : t[d] = mem.worker[d]
  BY <1>1
<1>. QED  BY <1>2 DEF WorkerMoves, ThreadMemory

\* A worker that only goes from one place to the next.
LEMMA StepsMoves ==
  ASSUME mem \in ThreadMemory, NEW w \in Conns, NEW to \in {"none", "read", "blocked", "reply", "close", "done"},
         Steps(w, to)
  PROVE  \E rec \in WorkerRecord :
           /\ WorkerMoves(w, rec) /\ rec.at = to /\ rec.slot = mem.worker[w].slot
           /\ rec.on = mem.worker[w].on /\ rec.buf = mem.worker[w].buf
<1>1. PICK rec : rec = [mem.worker[w] EXCEPT !.at = to]
  OBVIOUS
<1>2. PICK t : t = [mem.worker EXCEPT ![w] = rec]
  OBVIOUS
<1>3. mem' = [mem EXCEPT !.worker = t]
  BY <1>1, <1>2 DEF Steps
<1>4. mem.worker[w] \in WorkerRecord
  BY DEF ThreadMemory
<1>5. /\ rec \in WorkerRecord /\ rec.at = to /\ rec.slot = mem.worker[w].slot
      /\ rec.on = mem.worker[w].on /\ rec.buf = mem.worker[w].buf
  BY <1>1, <1>4 DEF WorkerRecord
<1>6. WorkerMoves(w, rec)
  BY <1>2, <1>3, <1>5, WorkerMovesTo
<1>. QED  BY <1>5, <1>6

\* Main accepts: the entry it fills was the next one, which nobody uses.
LEMMA ThreadAcceptKeeps ==
  ASSUME KernelInv, program = "multithread", ThreadInv, ThreadAccept
  PROVE  KernelInv' /\ ThreadInv' /\ (Patient => ServiceStep)
<1> USE DEF ThreadInv
<1>1. /\ pc = "accept" /\ pc' = "create" /\ ending = "none" /\ mem \in ThreadMemory /\ mem.new = None
      /\ UNCHANGED <<ending, closed, stream>>
  BY DEF ThreadAccept, At, ThreadTypes
<1>2. PICK c \in Conns : Accepts(c) /\ mem' = [mem EXCEPT !.addr_fd[mem.i] = NewFd, !.new = c]
  BY DEF ThreadAccept
<1>3. /\ KernelInv' /\ c \in backlog /\ NewFd \in FreeFds /\ program' = program /\ Fds' = Fds
      /\ file' = [file EXCEPT ![NewFd] = c] /\ backlog' = backlog \ {c}
  BY <1>1, <1>2, AcceptsKeeps
<1>4. UNCHANGED <<peer, sent, taken, got>> /\ None \notin Conns
  BY <1>1, KernelAssumption DEF stream
<1>5. PICK f, a : f = NewFd /\ a = [mem.addr_fd EXCEPT ![mem.i] = f]
  OBVIOUS
<1>6. f \in Fds /\ file[f] = None /\ file'[f] = c /\ \A g \in Fds : g # f => file'[g] = file[g]
  BY <1>3, <1>5 DEF FreeFds, KernelInv, FilesInv
<1>7. /\ a \in [Ring -> Fds \cup {None}] /\ mem.i \in Ring /\ a[mem.i] = f
      /\ \A s \in Ring : s # mem.i => a[s] = mem.addr_fd[s]
  BY <1>1, <1>5, <1>6 DEF ThreadMemory
<1>8. /\ mem' \in ThreadMemory /\ mem'.addr_fd = a /\ mem'.i = mem.i /\ mem'.new = c
      /\ mem'.worker = mem.worker
  <2>1. mem' = [mem EXCEPT !.addr_fd = a, !.new = c]
    BY <1>2, <1>5
  <2>. QED  BY <1>1, <1>7, <2>1 DEF ThreadMemory
<1>9. \A d \in Conns : mem.worker[d] \in WorkerRecord /\ mem.worker[d].slot \in Ring
  BY <1>1 DEF ThreadMemory, WorkerRecord
<1>10. ThreadTypes'
  <2>1. mem' \in ThreadMemory'
    BY <1>3, <1>8 DEF ThreadMemory, WorkerRecord, Ring
  <2>2. mem'.addr_fd[mem'.i] = f
    BY <1>7, <1>8
  <2>3. \A d \in Conns : Active(d)' => EntryFd(d)' \in Fds
    <3> SUFFICES ASSUME NEW d \in Conns, Active(d)' PROVE a[mem.worker[d].slot] \in Fds
      BY <1>8 DEF EntryFd
    <3>1. mem.addr_fd[mem.worker[d].slot] \in Fds
      BY <1>8 DEF ThreadTypes, Active, EntryFd
    <3>. QED  BY <1>6, <1>7, <1>9, <3>1
  <2>4. \A d \in Conns : mem'.worker[d].at = "blocked" => mem'.worker[d].on \in Conns
    BY <1>8 DEF ThreadTypes
  <2>. QED  BY <1>1, <1>3, <1>4, <1>6, <1>8, <2>1, <2>2, <2>3, <2>4 DEF ThreadTypes
<1>11. Pending' = Pending /\ Pending >= 1 /\ Pending \in Nat
  <2>1. IsFiniteSet(backlog) /\ Cardinality(backlog) \in Nat /\ Pending = Cardinality(backlog)
    BY <1>1, PendingIs DEF Pending
  <2>2. Cardinality(backlog \ {c}) = Cardinality(backlog) - 1 /\ Cardinality(backlog \ {c}) \in Nat
    BY <1>3, <2>1, FS_RemoveElement, FS_CardinalityType
  <2>3. Pending' = Cardinality(backlog \ {c}) + 1
    BY <1>3, <1>4, <1>8 DEF Pending
  <2>. QED  BY <2>1, <2>2, <2>3
<1>12. ASSUME Patient PROVE ThreadRing'
  <2>1. ThreadRing
    BY <1>12
  <2>2. mem.worker[c].at = "none"
    BY <1>3, <2>1 DEF ThreadRing, WorkerPlace
  <2>3. ASSUME NEW d \in Conns PROVE WorkerPlace(d)'
    <3>1. WorkerPlace(d) /\ mem'.worker[d] = mem.worker[d]
      BY <1>8, <2>1 DEF ThreadRing
    <3>2. d \in backlog' \/ peer'[d] = "new" => mem'.worker[d].at = "none"
      BY <1>3, <1>4, <3>1 DEF WorkerPlace
    <3>3. ASSUME Active(d)'
          PROVE  file'[EntryFd(d)'] = d /\ Ahead(mem'.i, mem'.worker[d].slot) >= Pending'
      <4>1. /\ file[EntryFd(d)] = d /\ Ahead(mem.i, mem.worker[d].slot) >= Pending
            /\ EntryFd(d) \in Fds
        BY <3>1, <3>3 DEF WorkerPlace, Active, ThreadTypes
      <4>2. Ahead(mem'.i, mem'.worker[d].slot) = Ahead(mem.i, mem.worker[d].slot)
        BY <1>8
      <4>3. mem.worker[d].slot # mem.i
        <5>1. Ahead(mem.i, mem.i) = 0
          BY <1>7, AheadIs
        <5>2. Ahead(mem.i, mem.worker[d].slot) >= 1
          BY <1>7, <1>9, <1>11, <4>1, AheadIs
        <5>. QED  BY <5>1, <5>2
      <4>4. EntryFd(d)' = EntryFd(d)
        BY <1>7, <1>8, <1>9, <4>3 DEF EntryFd
      <4>5. EntryFd(d) # f
        BY <1>4, <1>6, <4>1
      <4>. QED  BY <1>6, <1>11, <4>1, <4>2, <4>4, <4>5
    <3>. QED  BY <3>2, <3>3 DEF WorkerPlace
  <2>4. ASSUME NEW d \in Conns PROVE WorkerData(d)'
    <3>1. WorkerData(d) /\ mem'.worker[d] = mem.worker[d]
      BY <1>8, <2>1 DEF ThreadRing
    <3>. QED  BY <1>4, <3>1 DEF WorkerData, Owes, AtEnd, Unread
  <2>5. file'[mem'.addr_fd[mem'.i]] = mem'.new /\ mem'.worker[mem'.new].at = "none"
    BY <1>6, <1>7, <1>8, <2>2
  <2>6. Pending' <= RING
    BY <1>11, <2>1 DEF ThreadRing
  <2>. QED  BY <2>3, <2>4, <2>5, <2>6 DEF ThreadRing
<1>13. ServiceStep
  BY <1>1, <1>3, <1>4, Unseen DEF Seen
<1>. QED  BY <1>1, <1>3, <1>10, <1>12, <1>13, NotEnded

\* Main starts the worker and goes on to the next entry.
LEMMA ThreadCreateKeeps ==
  ASSUME KernelInv, program = "multithread", ThreadInv, ThreadCreate
  PROVE  KernelInv' /\ ThreadInv' /\ (Patient => ServiceStep)
<1> USE DEF ThreadInv
<1>1. /\ pc = "create" /\ pc' = "accept" /\ ending = "none" /\ mem \in ThreadMemory
      /\ mem.new \in Conns /\ mem.addr_fd[mem.i] \in Fds
      /\ mem' = [mem EXCEPT !.i = (mem.i + 1) % RING, !.new = None,
                   !.worker[mem.new] = [Idle EXCEPT !.at = "read", !.slot = mem.i]]
      /\ UNCHANGED <<ending, sockets, stream>>
  BY DEF ThreadCreate, At, ThreadTypes
<1>2. PICK c, j, rec : /\ c = mem.new /\ j = (mem.i + 1) % RING
                       /\ rec = [Idle EXCEPT !.at = "read", !.slot = mem.i]
  OBVIOUS
<1>3. PICK t : t = [mem.worker EXCEPT ![c] = rec]
  OBVIOUS
<1>4. mem' = [mem EXCEPT !.i = j, !.new = None, !.worker = t]
  BY <1>1, <1>2, <1>3
<1>5. mem.i \in Ring /\ c \in Conns /\ mem.worker \in [Conns -> WorkerRecord]
  BY <1>1, <1>2 DEF ThreadMemory
<1>6. rec \in WorkerRecord /\ rec.at = "read" /\ rec.slot = mem.i /\ rec.buf = <<>>
  BY <1>2, <1>5, EmptySeq DEF Idle, WorkerRecord
<1>7. t \in [Conns -> WorkerRecord] /\ t[c] = rec /\ \A d \in Conns \ {c} : t[d] = mem.worker[d]
  BY <1>3, <1>5, <1>6
<1>8. j \in Ring
  BY <1>2, <1>5, RingTurns
<1>9. /\ mem' \in ThreadMemory /\ mem'.i = j /\ mem'.new = None /\ mem'.worker = t
      /\ mem'.addr_fd = mem.addr_fd
  BY <1>1, <1>4, <1>7, <1>8 DEF ThreadMemory
<1>10. /\ KernelInv' /\ UNCHANGED <<program, file, backlog, closed, peer, sent, taken, got, edge>>
       /\ Fds' = Fds
  BY <1>1, StillKeeps
<1>11. ThreadTypes'
  <2>1. mem' \in ThreadMemory'
    BY <1>9, <1>10 DEF ThreadMemory, WorkerRecord, Ring
  <2>2. \A d \in Conns : Active(d)' => EntryFd(d)' \in Fds
    <3> SUFFICES ASSUME NEW d \in Conns, Active(d)' PROVE mem.addr_fd[t[d].slot] \in Fds
      BY <1>9 DEF EntryFd
    <3>1. CASE d = c
      BY <1>1, <1>6, <1>7, <3>1
    <3>2. CASE d # c
      BY <1>7, <1>9, <3>2 DEF ThreadTypes, Active, EntryFd
    <3>. QED  BY <3>1, <3>2
  <2>3. \A d \in Conns : mem'.worker[d].at = "blocked" => mem'.worker[d].on \in Conns
    BY <1>6, <1>7, <1>9 DEF ThreadTypes
  <2>. QED  BY <1>1, <1>9, <1>10, <2>1, <2>2, <2>3 DEF ThreadTypes
<1>12. Pending \in Nat /\ Pending' = Pending - 1 /\ Pending' \in Nat
  <2>1. Cardinality(backlog) \in Nat /\ c # None
    BY <1>5, PendingIs, KernelAssumption
  <2>. QED  BY <1>2, <1>9, <1>10, <2>1 DEF Pending
<1>13. ASSUME Patient PROVE ThreadRing'
  <2>1. ThreadRing
    BY <1>13
  <2>2. file[mem.addr_fd[mem.i]] = c /\ mem.worker[c].at = "none" /\ Pending <= RING
    BY <1>1, <1>2, <2>1 DEF ThreadRing
  <2>3. c \notin backlog /\ peer[c] # "new"
    BY <1>1, <1>5, <2>2 DEF KernelInv, FilesInv, BegunInv
  <2>4. \A s \in Ring : IF s = mem.i THEN Ahead(j, s) = RING - 1
                       ELSE Ahead(mem.i, s) >= 1 /\ Ahead(j, s) = Ahead(mem.i, s) - 1
    BY <1>2, <1>5, RingTurns
  <2>5. ASSUME NEW d \in Conns \ {c} PROVE WorkerPlace(d)' /\ WorkerData(d)'
    <3>1. /\ WorkerPlace(d) /\ WorkerData(d) /\ mem'.worker[d] = mem.worker[d]
          /\ mem.worker[d].slot \in Ring
      BY <1>5, <1>7, <1>9, <2>1 DEF ThreadRing, WorkerRecord
    <3>2. d \in backlog' \/ peer'[d] = "new" => mem'.worker[d].at = "none"
      BY <1>10, <3>1 DEF WorkerPlace
    <3>3. ASSUME Active(d)'
          PROVE  file'[EntryFd(d)'] = d /\ Ahead(mem'.i, mem'.worker[d].slot) >= Pending'
      <4>1. file[EntryFd(d)] = d /\ Ahead(mem.i, mem.worker[d].slot) >= Pending
        BY <3>1, <3>3 DEF WorkerPlace, Active
      <4>2. EntryFd(d)' = EntryFd(d)
        BY <1>9, <3>1 DEF EntryFd
      <4>3. PICK s : s = mem.worker[d].slot
        OBVIOUS
      <4>4. Ahead(j, s) >= Pending'
        <5>1. Ahead(mem.i, s) >= Pending /\ s \in Ring /\ RING \in Nat \ {0} /\ Ahead(mem.i, s) \in Nat
          BY <1>5, <3>1, <4>1, <4>3, RingIs, AheadIs
        <5>2. CASE s = mem.i
          <6>1. Ahead(j, s) = RING - 1
            BY <2>4, <5>1, <5>2
          <6>. QED  BY <1>12, <2>2, <5>1, <6>1
        <5>3. CASE s # mem.i
          <6>1. Ahead(j, s) = Ahead(mem.i, s) - 1
            BY <2>4, <5>1, <5>3
          <6>. QED  BY <1>12, <5>1, <6>1
        <5>. QED  BY <5>2, <5>3
      <4>5. Ahead(mem'.i, mem'.worker[d].slot) = Ahead(j, s)
        BY <1>9, <3>1, <4>3
      <4>. QED  BY <1>10, <4>1, <4>2, <4>4, <4>5
    <3>4. WorkerData(d)'
      BY <1>10, <3>1 DEF WorkerData, Owes, AtEnd, Unread
    <3>. QED  BY <3>2, <3>3, <3>4 DEF WorkerPlace
  <2>6. WorkerPlace(c)'
    <3>1. mem'.worker[c] = rec /\ EntryFd(c)' = mem.addr_fd[mem.i] /\ mem'.worker[c].slot = mem.i
      BY <1>6, <1>7, <1>9 DEF EntryFd
    <3>2. Ahead(j, mem.i) = RING - 1 /\ RING \in Nat
      BY <1>5, <2>4, RingIs
    <3>3. Ahead(mem'.i, mem'.worker[c].slot) >= Pending'
      BY <1>9, <1>12, <2>2, <3>1, <3>2
    <3>. QED  BY <1>10, <2>2, <2>3, <3>1, <3>3 DEF WorkerPlace
  <2>7. WorkerData(c)'
    <3>1. mem'.worker[c].at = "read"
      BY <1>6, <1>7, <1>9
    <3>2. Owes(c, <<>>)
      BY <1>5, <2>1, <2>2 DEF ThreadRing, WorkerData
    <3>. QED  BY <1>10, <3>1, <3>2 DEF WorkerData, Owes
  <2>8. Pending' <= RING
    BY <1>12, <2>2, RingIs
  <2>. QED  BY <1>1, <2>5, <2>6, <2>7, <2>8 DEF ThreadRing
<1>14. ServiceStep
  BY <1>10, Unseen DEF Seen
<1>. QED  BY <1>1, <1>10, <1>11, <1>13, <1>14, NotEnded

\* A worker that goes on with its connection disturbs nobody's place in the ring.
LEMMA WorkerGoesOn ==
  ASSUME KernelInv, program = "multithread", ThreadInv, ending = "none", NEW w \in Conns, NEW rec,
         WorkerMoves(w, rec), rec.slot = mem.worker[w].slot, Active(w),
         rec.at \in {"read", "blocked", "reply", "close"}, rec.at = "blocked" => rec.on \in Conns,
         UNCHANGED <<program, pc, ending, file, backlog, closed>>, Fds' = Fds,
         \A d \in Conns : peer'[d] = "new" => peer[d] = "new"
  PROVE  /\ ThreadTypes' /\ ExitExplained'
         /\ Patient /\ (\A d \in Conns : WorkerData(d)') => ThreadRing'
<1> USE DEF ThreadInv
<1>1. /\ mem' \in ThreadMemory /\ mem'.worker[w] = rec
      /\ \A d \in Conns \ {w} : mem'.worker[d] = mem.worker[d]
      /\ mem'.addr_fd = mem.addr_fd /\ mem'.i = mem.i /\ mem'.new = mem.new
  BY DEF WorkerMoves
<1>2. ASSUME NEW d \in Conns
      PROVE  /\ mem'.worker[d].slot = mem.worker[d].slot /\ EntryFd(d)' = EntryFd(d)
             /\ Active(d)' <=> Active(d)
  <2>1. CASE d = w
    BY <1>1, <2>1 DEF EntryFd, Active
  <2>2. CASE d # w
    BY <1>1, <2>2 DEF EntryFd, Active
  <2>. QED  BY <2>1, <2>2
<1>3. ThreadTypes'
  <2>1. mem' \in ThreadMemory'
    BY <1>1 DEF ThreadMemory, WorkerRecord, Ring
  <2>2. \A d \in Conns : Active(d)' => EntryFd(d)' \in Fds
    BY <1>2 DEF ThreadTypes
  <2>3. \A d \in Conns : mem'.worker[d].at = "blocked" => mem'.worker[d].on \in Conns
    BY <1>1 DEF ThreadTypes
  <2>4. /\ pc' \in {"accept", "create", "ended"} /\ (pc' = "ended" <=> ending' # "none")
        /\ pc' = "accept" => mem'.new = None
        /\ pc' = "create" => mem'.new \in Conns /\ mem'.addr_fd[mem'.i] \in Fds
    BY <1>1 DEF ThreadTypes
  <2>. QED  BY <2>1, <2>2, <2>3, <2>4 DEF ThreadTypes
<1>4. ASSUME Patient, \A d \in Conns : WorkerData(d)' PROVE ThreadRing'
  <2>1. ThreadRing
    BY <1>4
  <2>2. Pending' = Pending
    BY <1>1 DEF Pending
  <2>3. ASSUME NEW d \in Conns PROVE WorkerPlace(d)'
    <3>1. WorkerPlace(d)
      BY <2>1 DEF ThreadRing
    <3>2. d \in backlog' \/ peer'[d] = "new" => mem'.worker[d].at = "none"
      <4>1. Active(w) /\ WorkerPlace(w)
        BY <2>1 DEF ThreadRing
      <4>2. w \notin backlog /\ peer[w] # "new"
        BY <4>1 DEF WorkerPlace, Active
      <4>. QED  BY <1>1, <3>1, <4>2 DEF WorkerPlace
    <3>3. Active(d)' => file'[EntryFd(d)'] = d /\ Ahead(mem'.i, mem'.worker[d].slot) >= Pending'
      <4>1. mem'.i = mem.i /\ file' = file /\ mem'.worker[d].slot = mem.worker[d].slot
            /\ EntryFd(d)' = EntryFd(d) /\ (Active(d)' <=> Active(d))
        BY <1>1, <1>2
      <4>. QED  BY <2>2, <3>1, <4>1 DEF WorkerPlace
    <3>. QED  BY <3>2, <3>3 DEF WorkerPlace
  <2>4. pc' = "create" => file'[mem'.addr_fd[mem'.i]] = mem'.new /\ mem'.worker[mem'.new].at = "none"
    <3> SUFFICES ASSUME pc = "create" PROVE file[mem.addr_fd[mem.i]] = mem.new /\ mem'.worker[mem.new].at = "none"
      BY <1>1
    <3>1. file[mem.addr_fd[mem.i]] = mem.new /\ mem.worker[mem.new].at = "none" /\ mem.new \in Conns
      BY <2>1 DEF ThreadRing, ThreadTypes
    <3>2. mem.new # w
      BY <3>1 DEF Active
    <3>. QED  BY <1>1, <3>1, <3>2
  <2>5. Pending' <= RING
    BY <2>1, <2>2 DEF ThreadRing
  <2>. QED  BY <1>4, <2>3, <2>4, <2>5 DEF ThreadRing
<1>. QED  BY <1>3, <1>4, NotEnded

\* What a worker has read and not yet answered is nobody else's to change.
LEMMA DataStays ==
  ASSUME NEW d \in Conns, WorkerData(d), mem'.worker[d] = mem.worker[d],
         peer'[d] = peer[d] \/ peer'[d] = "gone", sent'[d] = sent[d], taken'[d] = taken[d],
         \A e : Owes(d, e) => Owes(d, e)'
  PROVE  WorkerData(d)'
<1>1. Owes(d, IF mem.worker[d].at = "reply" THEN mem.worker[d].buf ELSE <<>>)'
  BY DEF WorkerData
<1>2. AtEnd(d) => AtEnd(d)'
  BY DEF AtEnd, Unread
<1>. QED  BY <1>1, <1>2 DEF WorkerData

\* A worker calls read: with patient clients on its own connection.
LEMMA WorkerReadsKeeps ==
  ASSUME KernelInv, program = "multithread", ThreadInv, NEW w \in Conns, WorkerReads(w)
  PROVE  KernelInv' /\ ThreadInv' /\ (Patient => ServiceStep)
<1> USE DEF ThreadInv
<1>1. /\ ending = "none" /\ mem.worker[w].at = "read" /\ file[EntryFd(w)] # None /\ mem \in ThreadMemory
      /\ mem' = [mem EXCEPT !.worker[w].at = "blocked", !.worker[w].on = file[EntryFd(w)]]
      /\ UNCHANGED <<pc, ending, sockets, stream>>
  BY DEF WorkerReads, WorkerAt, ThreadTypes
<1>2. EntryFd(w) \in Fds /\ file[EntryFd(w)] \in Conns
  BY <1>1 DEF ThreadTypes, Active, KernelInv, FilesInv
<1>3. PICK c, rec : c = file[EntryFd(w)] /\ rec = [mem.worker[w] EXCEPT !.at = "blocked", !.on = c]
  OBVIOUS
<1>4. PICK t : t = [mem.worker EXCEPT ![w] = rec]
  OBVIOUS
<1>5. mem.worker[w] \in WorkerRecord /\ mem.worker \in [Conns -> WorkerRecord]
  BY <1>1 DEF ThreadMemory
<1>6. mem' = [mem EXCEPT !.worker = t]
  <2>1. [mem.worker EXCEPT ![w].at = "blocked", ![w].on = c] = t
    BY <1>3, <1>4, <1>5 DEF WorkerRecord
  <2>. QED  BY <1>1, <1>3, <2>1
<1>7. rec \in WorkerRecord /\ rec.at = "blocked" /\ rec.on = c /\ rec.slot = mem.worker[w].slot
  BY <1>2, <1>3, <1>5 DEF WorkerRecord
<1>8. WorkerMoves(w, rec)
  BY <1>1, <1>4, <1>6, <1>7, WorkerMovesTo
<1>9. /\ KernelInv' /\ UNCHANGED <<program, file, backlog, closed, peer, sent, taken, got, edge>>
      /\ Fds' = Fds
  BY <1>1, StillKeeps
<1>10. Active(w)
  BY <1>1 DEF Active
<1>11. ThreadTypes' /\ ExitExplained' /\ (Patient /\ (\A d \in Conns : WorkerData(d)') => ThreadRing')
  BY <1>1, <1>2, <1>3, <1>7, <1>8, <1>9, <1>10, WorkerGoesOn
<1>12. ASSUME Patient, NEW d \in Conns PROVE WorkerData(d)'
  <2>1. ThreadRing
    BY <1>12
  <2>2. WorkerData(d) /\ WorkerPlace(w)
    BY <2>1 DEF ThreadRing
  <2>3. CASE d = w
    <3>1. c = w
      BY <1>3, <1>10, <2>2 DEF WorkerPlace
    <3>2. mem'.worker[w] = rec
      BY <1>8 DEF WorkerMoves
    <3>3. Owes(w, <<>>)'
      BY <1>1, <1>9, <2>2, <2>3 DEF WorkerData, Owes
    <3>. QED  BY <1>7, <2>3, <3>1, <3>2, <3>3 DEF WorkerData
  <2>4. CASE d # w
    <3>1. mem'.worker[d] = mem.worker[d]
      BY <1>8, <2>4 DEF WorkerMoves
    <3>. QED  BY <1>9, <2>2, <3>1, DataStays DEF Owes
  <2>. QED  BY <2>3, <2>4
<1>13. ServiceStep
  BY <1>9, Unseen DEF Seen
<1>. QED  BY <1>9, <1>11, <1>12, <1>13

\* A worker's read returns, and the worker owes what it read.
LEMMA WorkerReceivesKeeps ==
  ASSUME KernelInv, program = "multithread", ThreadInv, NEW w \in Conns, WorkerReceives(w)
  PROVE  KernelInv' /\ ThreadInv' /\ (Patient => ServiceStep)
<1> USE DEF ThreadInv
<1>1. PICK c, b : c = mem.worker[w].on /\ b = Arrived(c, MAXLINE)
  OBVIOUS
<1>2. /\ ending = "none" /\ mem.worker[w].at = "blocked" /\ Takes(c, b) /\ mem \in ThreadMemory
      /\ mem' = [mem EXCEPT !.worker[w].at = "reply", !.worker[w].buf = b]
      /\ UNCHANGED <<pc, ending, sockets>>
  BY <1>1 DEF WorkerReceives, WorkerAt, ThreadTypes
<1>3. c \in Conns
  BY <1>1, <1>2 DEF ThreadTypes
<1>4. /\ KernelInv' /\ UNCHANGED <<program, file, backlog, closed, peer, sent, got, edge>>
      /\ Fds' = Fds /\ taken' = [taken EXCEPT ![c] = taken[c] + Len(b)]
      /\ b \in Seq(Conns \X Nat) /\ b # <<>>
  <2>1. MAXLINE \in Nat
    BY KernelAssumption
  <2>. QED  BY <1>1, <1>2, <1>3, <2>1, TakesKeeps, ArrivedType DEF sockets, Fds, Takes
<1>5. /\ ServiceStep /\ (Owes(c, <<>>) => Owes(c, b)')
      /\ \A d \in Conns \ {c} : \A e : Owes(d, e) => Owes(d, e)'
  <2>1. MAXLINE \in Nat
    BY KernelAssumption
  <2>. QED  BY <1>1, <1>2, <1>3, <2>1, TakesUnseen
<1>6. PICK rec : rec = [mem.worker[w] EXCEPT !.at = "reply", !.buf = b]
  OBVIOUS
<1>7. PICK t : t = [mem.worker EXCEPT ![w] = rec]
  OBVIOUS
<1>8. mem.worker[w] \in WorkerRecord /\ mem.worker \in [Conns -> WorkerRecord]
  BY <1>2 DEF ThreadMemory
<1>9. mem' = [mem EXCEPT !.worker = t]
  <2>1. [mem.worker EXCEPT ![w].at = "reply", ![w].buf = b] = t
    BY <1>6, <1>7, <1>8 DEF WorkerRecord
  <2>. QED  BY <1>2, <2>1
<1>10. rec \in WorkerRecord /\ rec.at = "reply" /\ rec.buf = b /\ rec.slot = mem.worker[w].slot
  BY <1>4, <1>6, <1>8 DEF WorkerRecord
<1>11. WorkerMoves(w, rec)
  BY <1>2, <1>7, <1>9, <1>10, WorkerMovesTo
<1>12. Active(w)
  BY <1>2 DEF Active
<1>13. ThreadTypes' /\ ExitExplained' /\ (Patient /\ (\A d \in Conns : WorkerData(d)') => ThreadRing')
  BY <1>2, <1>4, <1>10, <1>11, <1>12, WorkerGoesOn
<1>14. ASSUME Patient, NEW d \in Conns PROVE WorkerData(d)'
  <2>1. ThreadRing
    BY <1>14
  <2>2. WorkerData(d) /\ WorkerData(w)
    BY <2>1 DEF ThreadRing
  <2>3. c = w
    BY <1>1, <1>2, <2>2 DEF WorkerData
  <2>4. CASE d = w
    <3>1. mem'.worker[w] = rec
      BY <1>11 DEF WorkerMoves
    <3>2. Owes(w, <<>>)
      BY <1>2, <2>2 DEF WorkerData
    <3>3. Owes(w, b)'
      BY <1>5, <2>3, <3>2
    <3>4. mem'.worker[w].at = "reply" /\ mem'.worker[w].buf = b
      BY <1>10, <3>1
    <3>5. Owes(w, mem.worker[w].buf)'
      BY <3>3, <3>4 DEF Owes
    <3>. QED  BY <1>4, <2>4, <3>4, <3>5 DEF WorkerData
  <2>5. CASE d # w
    <3>1. mem'.worker[d] = mem.worker[d] /\ taken'[d] = taken[d] /\ peer'[d] = peer[d] /\ sent'[d] = sent[d]
      BY <1>4, <1>11, <2>3, <2>5 DEF WorkerMoves, KernelInv, StreamInv
    <3>2. \A e : Owes(d, e) => Owes(d, e)'
      BY <1>5, <2>3, <2>5
    <3>. QED  BY <2>2, <3>1, <3>2, DataStays
  <2>. QED  BY <2>4, <2>5
<1>. QED  BY <1>4, <1>5, <1>13, <1>14

\* A worker's read finds the end of the connection.
LEMMA WorkerEndsKeeps ==
  ASSUME KernelInv, program = "multithread", ThreadInv, NEW w \in Conns, WorkerEnds(w)
  PROVE  KernelInv' /\ ThreadInv' /\ (Patient => ServiceStep)
<1> USE DEF ThreadInv
<1>1. /\ ending = "none" /\ mem.worker[w].at = "blocked" /\ AtEnd(mem.worker[w].on) /\ mem \in ThreadMemory
      /\ Steps(w, "close") /\ UNCHANGED <<pc, ending, sockets, stream>>
  BY DEF WorkerEnds, WorkerAt, ThreadTypes, Steps
<1>2. PICK rec \in WorkerRecord :
        WorkerMoves(w, rec) /\ rec.at = "close" /\ rec.slot = mem.worker[w].slot
  BY <1>1, StepsMoves
<1>3. /\ KernelInv' /\ UNCHANGED <<program, file, backlog, closed, peer, sent, taken, got, edge>>
      /\ Fds' = Fds
  BY <1>1, StillKeeps
<1>4. Active(w)
  BY <1>1 DEF Active
<1>5. ThreadTypes' /\ ExitExplained' /\ (Patient /\ (\A d \in Conns : WorkerData(d)') => ThreadRing')
  BY <1>1, <1>2, <1>3, <1>4, WorkerGoesOn
<1>6. ASSUME Patient, NEW d \in Conns PROVE WorkerData(d)'
  <2>1. ThreadRing
    BY <1>6
  <2>2. WorkerData(d)
    BY <2>1 DEF ThreadRing
  <2>3. CASE d = w
    <3>1. mem'.worker[w].at = "close"
      BY <1>2 DEF WorkerMoves
    <3>2. AtEnd(w)'
      BY <1>1, <1>3, <2>2, <2>3 DEF WorkerData, AtEnd, Unread
    <3>3. Owes(w, <<>>)'
      BY <1>1, <1>3, <2>2, <2>3 DEF WorkerData, Owes
    <3>. QED  BY <2>3, <3>1, <3>2, <3>3 DEF WorkerData
  <2>4. CASE d # w
    <3>1. mem'.worker[d] = mem.worker[d]
      BY <1>2, <2>4 DEF WorkerMoves
    <3>. QED  BY <1>3, <2>2, <3>1, DataStays DEF Owes
  <2>. QED  BY <2>3, <2>4
<1>7. ServiceStep
  BY <1>3, Unseen DEF Seen
<1>. QED  BY <1>3, <1>5, <1>6, <1>7

\* A worker passes over an error of read.
LEMMA WorkerErrsKeeps ==
  ASSUME KernelInv, program = "multithread", ThreadInv, NEW w \in Conns, WorkerErrs(w)
  PROVE  KernelInv' /\ ThreadInv' /\ (Patient => ServiceStep)
<1> USE DEF ThreadInv
<1>1. PICK c : c = mem.worker[w].on
  OBVIOUS
<1>2. /\ ending = "none" /\ mem.worker[w].at = "blocked" /\ TakesError(c) /\ mem \in ThreadMemory
      /\ Steps(w, "read") /\ UNCHANGED <<pc, ending, sockets>>
  BY <1>1 DEF WorkerErrs, WorkerAt, ThreadTypes, Steps
<1>3. PICK rec \in WorkerRecord :
        WorkerMoves(w, rec) /\ rec.at = "read" /\ rec.slot = mem.worker[w].slot
  BY <1>2, StepsMoves
<1>4. /\ KernelInv' /\ UNCHANGED <<sent, taken, got, edge, program, file, backlog, closed>>
      /\ Fds' = Fds
  BY <1>2, ErrorStays DEF sockets, Fds
<1>5. ServiceStep /\ \A d \in Conns : \A e : Owes(d, e) => Owes(d, e)'
  BY <1>2, <1>4, ErrorUnseen, Unseen
<1>6. \A d \in Conns : /\ peer'[d] = peer[d] \/ peer'[d] = "gone"
                       /\ peer'[d] = "new" => peer[d] = "new"
  BY <1>2 DEF TakesError, KernelInv, StreamInv
<1>7. Active(w)
  BY <1>2 DEF Active
<1>8. ThreadTypes' /\ ExitExplained' /\ (Patient /\ (\A d \in Conns : WorkerData(d)') => ThreadRing')
  BY <1>2, <1>3, <1>4, <1>6, <1>7, WorkerGoesOn
<1>9. ASSUME Patient, NEW d \in Conns PROVE WorkerData(d)'
  <2>1. ThreadRing
    BY <1>9
  <2>2. WorkerData(d)
    BY <2>1 DEF ThreadRing
  <2>3. CASE d = w
    <3>1. mem'.worker[w].at = "read"
      BY <1>3 DEF WorkerMoves
    <3>2. Owes(w, <<>>)
      BY <1>2, <2>2, <2>3 DEF WorkerData
    <3>3. Owes(w, <<>>)'
      BY <1>5, <3>2
    <3>. QED  BY <2>3, <3>1, <3>3 DEF WorkerData
  <2>4. CASE d # w
    <3>1. mem'.worker[d] = mem.worker[d]
      BY <1>3, <2>4 DEF WorkerMoves
    <3>. QED  BY <1>4, <1>5, <1>6, <2>2, <3>1, DataStays
  <2>. QED  BY <2>3, <2>4
<1>. QED  BY <1>4, <1>5, <1>8, <1>9

\* A worker writes: with patient clients to its own connection, what it owes.
LEMMA WorkerWritesKeeps ==
  ASSUME KernelInv, program = "multithread", ThreadInv, NEW w \in Conns, WorkerWrites(w)
  PROVE  KernelInv' /\ ThreadInv' /\ (Patient => ServiceStep)
<1> USE DEF ThreadInv
<1>1. PICK c, b : c = file[EntryFd(w)] /\ b = mem.worker[w].buf
  OBVIOUS
<1>2. /\ ending = "none" /\ mem.worker[w].at = "reply" /\ mem \in ThreadMemory
      /\ Steps(w, "read") /\ UNCHANGED <<pc, ending, sockets>>
      /\ IF c = None THEN UNCHANGED stream ELSE Writes(c, b)
  BY <1>1 DEF WorkerWrites, WorkerAt, ThreadTypes, Steps
<1>3. PICK rec \in WorkerRecord :
        WorkerMoves(w, rec) /\ rec.at = "read" /\ rec.slot = mem.worker[w].slot
  BY <1>2, StepsMoves
<1>4. Active(w)
  BY <1>2 DEF Active
<1>5. EntryFd(w) \in Fds /\ c \in Conns \cup {None} /\ b \in Seq(Conns \X Nat)
  BY <1>1, <1>2, <1>4 DEF ThreadTypes, ThreadMemory, WorkerRecord, KernelInv, FilesInv
<1>6. KernelInv' /\ UNCHANGED <<sent, taken, edge>>
  <2>1. CASE c = None
    <3>1. UNCHANGED <<sockets, stream>>
      BY <1>2, <2>1
    <3>. QED  BY <3>1, StillKeeps
  <2>2. CASE c # None
    BY <1>2, <1>5, <2>2, WritesKeeps
  <2>. QED  BY <2>1, <2>2
<1>7. UNCHANGED <<program, file, backlog, closed>> /\ Fds' = Fds
  BY <1>2 DEF sockets, Fds
<1>8. \A d \in Conns : peer'[d] = "new" => peer[d] = "new"
  BY <1>2 DEF stream, Writes, KernelInv, StreamInv
<1>9. ThreadTypes' /\ ExitExplained' /\ (Patient /\ (\A d \in Conns : WorkerData(d)') => ThreadRing')
  BY <1>2, <1>3, <1>4, <1>7, <1>8, WorkerGoesOn
<1>10. ASSUME Patient PROVE ServiceStep /\ \A d \in Conns : WorkerData(d)'
  <2>1. ThreadRing
    BY <1>10
  <2>2. WorkerData(w) /\ WorkerPlace(w)
    BY <2>1 DEF ThreadRing
  <2>3. c = w /\ c # None
    BY <1>1, <1>4, <2>2, KernelAssumption DEF WorkerPlace
  <2>4. Writes(w, b) /\ b # <<>> /\ Owes(w, b) /\ w \notin closed
    <3>1. w \notin closed
      BY <1>1, <1>5, <2>3 DEF KernelInv, FilesInv
    <3>. QED  BY <1>1, <1>2, <2>2, <2>3, <3>1 DEF WorkerData
  <2>5. /\ ServiceStep /\ Owes(w, <<>>)' /\ \A d \in Conns \ {w} : \A e : Owes(d, e) => Owes(d, e)'
    BY <1>2, <1>5, <2>4, WritesSeen
  <2>6. WorkerData(w)'
    <3>1. mem'.worker[w].at = "read"
      BY <1>3 DEF WorkerMoves
    <3>. QED  BY <2>5, <3>1 DEF WorkerData
  <2>7. ASSUME NEW d \in Conns \ {w} PROVE WorkerData(d)'
    <3>1. WorkerData(d) /\ mem'.worker[d] = mem.worker[d]
      BY <1>3, <2>1 DEF WorkerMoves, ThreadRing
    <3>2. peer'[d] = peer[d]
      BY <2>4 DEF Writes, KernelInv, StreamInv
    <3>. QED  BY <1>6, <2>5, <3>1, <3>2, DataStays
  <2>. QED  BY <2>5, <2>6, <2>7
<1>. QED  BY <1>6, <1>9, <1>10

\* A worker closes what its entry names: with patient clients its own connection.
LEMMA WorkerClosesKeeps ==
  ASSUME KernelInv, program = "multithread", ThreadInv, NEW w \in Conns, WorkerCloses(w)
  PROVE  KernelInv' /\ ThreadInv' /\ (Patient => ServiceStep)
<1> USE DEF ThreadInv
<1>1. PICK f, c : f = EntryFd(w) /\ c = file[f]
  OBVIOUS
<1>2. /\ ending = "none" /\ mem.worker[w].at = "close" /\ mem \in ThreadMemory
      /\ Steps(w, "done") /\ UNCHANGED <<pc, ending, stream>>
      /\ IF c = None THEN UNCHANGED sockets ELSE Closes(f)
  BY <1>1 DEF WorkerCloses, WorkerAt, ThreadTypes, Steps
<1>3. PICK rec \in WorkerRecord : WorkerMoves(w, rec) /\ rec.at = "done"
  BY <1>2, StepsMoves
<1>4. /\ mem' \in ThreadMemory /\ mem'.worker[w] = rec
      /\ \A d \in Conns \ {w} : mem'.worker[d] = mem.worker[d]
      /\ mem'.addr_fd = mem.addr_fd /\ mem'.i = mem.i /\ mem'.new = mem.new
  BY <1>3 DEF WorkerMoves
<1>5. f \in Fds /\ c \in Conns \cup {None}
  BY <1>1, <1>2 DEF ThreadTypes, Active, KernelInv, FilesInv
<1>6. /\ KernelInv' /\ UNCHANGED <<program, backlog, peer, sent, taken, got, edge>> /\ Fds' = Fds
      /\ \A d \in Conns : \A e : Owes(d, e) => Owes(d, e)'
      /\ \A g \in Fds : file'[g] = IF g = f THEN None ELSE file[g]
      /\ c # None => closed' = closed \cup {c}
  <2>1. CASE c = None
    <3>1. UNCHANGED <<sockets, stream>>
      BY <1>2, <2>1
    <3>2. KernelInv' /\ UNCHANGED <<program, file, backlog, closed, peer, sent, taken, got, edge>> /\ Fds' = Fds
      BY <3>1, StillKeeps
    <3>. QED  BY <1>1, <1>5, <2>1, <3>2 DEF Owes
  <2>2. CASE c # None
    <3>1. /\ file' = [file EXCEPT ![f] = None] /\ closed' = closed \cup {c}
          /\ UNCHANGED <<program, backlog>>
      BY <1>1, <1>2, <2>2 DEF Closes
    <3>2. /\ \A g \in Fds : file'[g] = IF g = f THEN None ELSE file[g]
          /\ file' \in [Fds -> Conns \cup {None}]
      BY <3>1 DEF KernelInv, FilesInv
    <3>3. \A g \in Fds : file'[g] = None \/ (file'[g] = file[g] /\ file[g] \notin {c})
      BY <1>1, <1>5, <3>2 DEF KernelInv, FilesInv
    <3>4. c \in Conns /\ c \notin backlog /\ peer[c] # "new"
      BY <1>1, <1>5, <2>2 DEF KernelInv, FilesInv, BegunInv
    <3>5. {c} \in SUBSET Conns /\ \A d \in {c} : d \notin backlog /\ peer[d] # "new"
      BY <3>4
    <3>. QED  BY <1>2, <3>1, <3>2, <3>3, <3>5, ClosedSome
  <2>. QED  BY <2>1, <2>2
<1>7. \A d \in Conns \ {w} : (Active(d)' <=> Active(d)) /\ EntryFd(d)' = EntryFd(d)
  BY <1>4 DEF Active, EntryFd
<1>8. ThreadTypes'
  <2>1. mem' \in ThreadMemory'
    BY <1>4, <1>6 DEF ThreadMemory, WorkerRecord, Ring
  <2>2. \A d \in Conns : Active(d)' => EntryFd(d)' \in Fds
    <3>1. ~Active(w)'
      BY <1>3, <1>4 DEF Active
    <3>. QED  BY <1>7, <3>1 DEF ThreadTypes
  <2>3. \A d \in Conns : mem'.worker[d].at = "blocked" => mem'.worker[d].on \in Conns
    BY <1>3, <1>4 DEF ThreadTypes
  <2>4. /\ pc' \in {"accept", "create", "ended"} /\ (pc' = "ended" <=> ending' # "none")
        /\ pc' = "accept" => mem'.new = None
        /\ pc' = "create" => mem'.new \in Conns /\ mem'.addr_fd[mem'.i] \in Fds
    BY <1>2, <1>4 DEF ThreadTypes
  <2>. QED  BY <1>6, <2>1, <2>2, <2>3, <2>4 DEF ThreadTypes
<1>9. ASSUME Patient PROVE ThreadRing' /\ ServiceStep
  <2>1. ThreadRing
    BY <1>9
  <2>2. WorkerPlace(w) /\ WorkerData(w) /\ Active(w)
    BY <1>2, <2>1 DEF ThreadRing, Active
  <2>3. c = w /\ c # None /\ AtEnd(w) /\ Owes(w, <<>>)
    BY <1>1, <1>2, <2>2, KernelAssumption DEF WorkerPlace, WorkerData
  <2>4. closed' = closed \cup {w} /\ w \notin closed /\ w \notin backlog /\ peer[w] # "new"
    <3>1. closed' = closed \cup {w}
      BY <1>6, <2>3
    <3>2. w \notin closed
      BY <1>1, <1>5, <2>3 DEF KernelInv, FilesInv
    <3>3. w \notin backlog /\ peer[w] # "new"
      BY <1>2, <2>2 DEF WorkerPlace
    <3>. QED  BY <3>1, <3>2, <3>3
  <2>5. ServiceStep
    BY <1>2, <1>6, <2>3, <2>4, HangsUpOn
  <2>6. Pending' = Pending
    BY <1>4, <1>6 DEF Pending
  <2>7. ASSUME NEW d \in Conns \ {w} PROVE WorkerPlace(d)' /\ WorkerData(d)'
    <3>1. WorkerPlace(d) /\ WorkerData(d) /\ mem'.worker[d] = mem.worker[d]
      BY <1>4, <2>1 DEF ThreadRing
    <3>2. d \in backlog' \/ peer'[d] = "new" => mem'.worker[d].at = "none"
      BY <1>6, <3>1 DEF WorkerPlace
    <3>3. Active(d)' => file'[EntryFd(d)'] = d /\ Ahead(mem'.i, mem'.worker[d].slot) >= Pending'
      <4> SUFFICES ASSUME Active(d)
          PROVE  file'[EntryFd(d)] = d /\ Ahead(mem.i, mem.worker[d].slot) >= Pending
        BY <1>4, <1>7, <2>6
      <4>1. file[EntryFd(d)] = d /\ Ahead(mem.i, mem.worker[d].slot) >= Pending /\ EntryFd(d) \in Fds
        BY <3>1 DEF WorkerPlace, ThreadTypes
      <4>2. EntryFd(d) # f
        BY <1>1, <2>3, <4>1
      <4>. QED  BY <1>6, <4>1, <4>2
    <3>4. WorkerData(d)'
      BY <1>6, <3>1, DataStays
    <3>. QED  BY <3>2, <3>3, <3>4 DEF WorkerPlace
  <2>8. WorkerPlace(w)' /\ WorkerData(w)'
    <3>1. mem'.worker[w].at = "done" /\ Owes(w, <<>>)'
      BY <1>3, <1>4, <1>6, <2>3
    <3>. QED  BY <1>6, <2>4, <3>1 DEF WorkerPlace, WorkerData, Active
  <2>9. pc' = "create" => file'[mem'.addr_fd[mem'.i]] = mem'.new /\ mem'.worker[mem'.new].at = "none"
    <3> SUFFICES ASSUME pc = "create" PROVE file'[mem.addr_fd[mem.i]] = mem.new /\ mem'.worker[mem.new].at = "none"
      BY <1>2, <1>4
    <3>1. /\ file[mem.addr_fd[mem.i]] = mem.new /\ mem.worker[mem.new].at = "none" /\ mem.new \in Conns
          /\ mem.addr_fd[mem.i] \in Fds
      BY <2>1 DEF ThreadRing, ThreadTypes
    <3>2. mem.new # w
      BY <1>2, <3>1
    <3>3. mem.addr_fd[mem.i] # f
      BY <1>1, <2>3, <3>1, <3>2
    <3>. QED  BY <1>4, <1>6, <3>1, <3>2, <3>3
  <2>10. Pending' <= RING
    BY <2>1, <2>6 DEF ThreadRing
  <2>. QED  BY <2>5, <2>7, <2>8, <2>9, <2>10 DEF ThreadRing
<1>. QED  BY <1>2, <1>6, <1>8, <1>9, NotEnded

\* The server ends; its workers end with it.
LEMMA ThreadEnds ==
  ASSUME KernelInv, program = "multithread", ThreadInv, NEW why, why # "none", Ends(why), ExitExplained',
         ending = "none"
  PROVE  KernelInv' /\ ThreadInv' /\ (Patient => ServiceStep)
<1> USE DEF ThreadInv
<1>1. /\ KernelInv' /\ ServiceStep /\ ending' = why /\ pc' = "ended"
      /\ UNCHANGED <<mem, program, file, backlog, closed, peer, sent, taken, got, edge>>
      /\ Fds' = Fds
  BY EndsKeeps
<1>2. ThreadTypes'
  BY <1>1 DEF ThreadTypes, ThreadMemory, WorkerRecord, Ring, Active, EntryFd
<1>3. ASSUME Patient PROVE ThreadRing'
  <2>1. ThreadRing
    BY <1>3
  <2>. QED
    BY <1>1, <2>1 DEF ThreadRing, WorkerPlace, WorkerData, Active, EntryFd, Pending, Owes, AtEnd, Unread
<1>. QED  BY <1>1, <1>2, <1>3

\* With patient clients a connection arrives only when the entry it will get is free.
LEMMA ThreadClientKeeps ==
  ASSUME KernelInv, program = "multithread", ThreadInv, NEW c \in Conns, Client(c)
  PROVE  KernelInv' /\ ThreadInv' /\ (Patient => ServiceStep)
<1> USE DEF ThreadInv
<1>1. /\ KernelInv' /\ UNCHANGED <<pc, mem, ending, program, file, closed, taken, got>>
      /\ Fds' = Fds /\ ending = "none"
  BY ClientKeeps
<1>2. ServiceStep /\ \A d \in Conns : \A e : Owes(d, e) => Owes(d, e)'
  BY ClientSeen
<1>3. ThreadTypes'
  BY <1>1 DEF ThreadTypes, ThreadMemory, WorkerRecord, Ring, Active, EntryFd
<1>4. peer \in [Conns -> {"new", "open", "finished", "reset", "gone"}] /\ sent \in [Conns -> Nat]
  BY DEF KernelInv, StreamInv
<1>5. \A d \in Conns : /\ peer[d] # "new" => peer'[d] # "new"
                       /\ d \in backlog' => d \in backlog \/ peer[d] = "new"
                       /\ AtEnd(d) => AtEnd(d)'
  <2>2. CASE Connect(c)
    BY <1>1, <1>4, <2>2 DEF Connect, AtEnd, Unread
  <2>3. CASE Send(c)
    BY <1>1, <1>4, <2>3 DEF Send, AtEnd, Unread, sockets
  <2>4. CASE Finish(c)
    BY <1>1, <1>4, <2>4 DEF Finish, AtEnd, Unread, sockets
  <2>5. CASE Reset(c)
    BY <1>1, <1>4, <2>5 DEF Reset, AtEnd, Unread, sockets
  <2>. QED  BY <2>2, <2>3, <2>4, <2>5 DEF Client
<1>6. ASSUME Patient PROVE ThreadRing'
  <2>1. ThreadRing
    BY <1>6
  <2>2. \A d \in Conns : WorkerData(d)'
    <3> SUFFICES ASSUME NEW d \in Conns PROVE WorkerData(d)'
      OBVIOUS
    <3>1. WorkerData(d) /\ mem'.worker[d] = mem.worker[d]
      BY <1>1, <2>1 DEF ThreadRing
    <3>2. Owes(d, IF mem.worker[d].at = "reply" THEN mem.worker[d].buf ELSE <<>>)'
      BY <1>2, <3>1 DEF WorkerData
    <3>. QED  BY <1>5, <3>1, <3>2 DEF WorkerData
  <2>3. Pending \in Nat /\ Pending' \in Nat /\ RING \in Nat \ {0}
    <3>1. backlog' \in SUBSET Conns
      BY <1>1 DEF KernelInv, FilesInv
    <3>2. Cardinality(backlog') \in Nat
      BY <3>1, FS_Subset, FS_CardinalityType, KernelAssumption
    <3>. QED  BY <3>2, PendingIs, RingIs DEF Pending
  <2>4. /\ Pending' <= RING
        /\ \A d \in Conns : Active(d) => Ahead(mem.i, mem.worker[d].slot) >= Pending'
    <3>1. CASE backlog' = backlog
      <4>1. Pending' = Pending
        BY <1>1, <3>1 DEF Pending
      <4>. QED  BY <2>1, <4>1 DEF ThreadRing, WorkerPlace
    <3>2. CASE Connect(c) /\ RingHasRoom
      <4>1. /\ Pending < RING
            /\ \A d \in Conns : \/ mem.worker[d].slot # (mem.i + Pending) % RING
                                \/ mem.worker[d].at \in {"none", "done"}
        BY <3>2 DEF RingHasRoom, WorkerAt
      <4>2. Pending' = Pending + 1
        <5>1. IsFiniteSet(backlog) /\ Cardinality(backlog) \in Nat
          BY PendingIs
        <5>2. backlog' = backlog \cup {c} /\ c \notin backlog
          BY <3>2 DEF Connect, KernelInv, BegunInv
        <5>3. Cardinality(backlog') = Cardinality(backlog) + 1
          BY <5>1, <5>2, FS_AddElement
        <5>. QED  BY <1>1, <5>1, <5>3 DEF Pending
      <4>3. ASSUME NEW d \in Conns, Active(d) PROVE Ahead(mem.i, mem.worker[d].slot) >= Pending'
        <5>1. PICK s : s = mem.worker[d].slot
          OBVIOUS
        <5>2. s \in Ring /\ mem.i \in Ring /\ Pending \in Ring
          BY <2>3, <4>1, <5>1 DEF ThreadTypes, ThreadMemory, WorkerRecord, Ring
        <5>3. s # (mem.i + Pending) % RING
          BY <4>1, <4>3, <5>1 DEF Active
        <5>4. Ahead(mem.i, s) # Pending
          BY <5>2, <5>3, RingReaches
        <5>5. Ahead(mem.i, s) >= Pending
          BY <2>1, <4>3, <5>1 DEF ThreadRing, WorkerPlace
        <5>6. Ahead(mem.i, s) \in Nat
          BY <5>2, AheadIs
        <5>. QED  BY <2>3, <4>2, <5>1, <5>4, <5>5, <5>6
      <4>. QED  BY <2>3, <4>1, <4>2, <4>3
    <3>. QED  BY <1>6, <3>1, <3>2 DEF Client, Send, Finish, Reset, sockets
  <2>5. \A d \in Conns : WorkerPlace(d)'
    <3> SUFFICES ASSUME NEW d \in Conns PROVE WorkerPlace(d)'
      OBVIOUS
    <3>1. WorkerPlace(d) /\ mem' = mem /\ file' = file
      BY <1>1, <2>1 DEF ThreadRing
    <3>2. (Active(d)' <=> Active(d)) /\ EntryFd(d)' = EntryFd(d)
      BY <3>1 DEF Active, EntryFd
    <3>3. d \in backlog' \/ peer'[d] = "new" => mem.worker[d].at = "none"
      BY <1>5, <3>1 DEF WorkerPlace
    <3>. QED  BY <2>4, <3>1, <3>2, <3>3 DEF WorkerPlace
  <2>. QED  BY <1>1, <2>1, <2>2, <2>4, <2>5 DEF ThreadRing
<1>. QED  BY <1>1, <1>2, <1>3, <1>6, NotEnded

\* Every step of server-multithread and of its clients.
LEMMA ThreadStep ==
  ASSUME KernelInv, program = "multithread", ThreadInv, [Next]_vars
  PROVE  KernelInv' /\ ThreadInv' /\ (Patient => ServiceStep)
<1> USE DEF ThreadInv
<1>1. CASE UNCHANGED vars
  <2>1. /\ KernelInv' /\ UNCHANGED <<program, file, backlog, closed, peer, sent, taken, got, edge>>
        /\ UNCHANGED <<pc, mem, ending>> /\ Fds' = Fds /\ ServiceStep /\ ExitExplained'
    BY <1>1, VarsStay
  <2>2. ThreadTypes'
    BY <2>1 DEF ThreadTypes, ThreadMemory, WorkerRecord, Ring, Active, EntryFd
  <2>3. ASSUME Patient PROVE ThreadRing'
    <3>1. ThreadRing
      BY <2>3
    <3>. QED
      BY <2>1, <3>1 DEF ThreadRing, WorkerPlace, WorkerData, Active, EntryFd, Pending, Owes, AtEnd, Unread
  <2>. QED  BY <2>1, <2>2, <2>3
<1>2. ASSUME NEW w \in Conns, WorkerKilled(w) PROVE KernelInv' /\ ThreadInv' /\ (Patient => ServiceStep)
  <2>1. /\ mem.worker[w].at = "reply" /\ ending = "none" /\ file[EntryFd(w)] # None
        /\ Dead(file[EntryFd(w)]) /\ Ends("SIGPIPE")
    BY <1>2 DEF WorkerKilled, WorkerAt
  <2>2. PICK c : c = file[EntryFd(w)]
    OBVIOUS
  <2>3. c \in Conns /\ Dead(c)
    BY <2>1, <2>2 DEF ThreadTypes, Active, KernelInv, FilesInv
  <2>4. ending' = "SIGPIPE" /\ UNCHANGED <<program, peer>>
    BY <2>1, EndsKeeps
  <2>5. ExitExplained'
    BY <2>3, <2>4 DEF ExitExplained, Dead
  <2>. QED  BY <2>1, <2>5, ThreadEnds
<1>3. CASE AcceptFails
  <2>1. Ends("no descriptor") /\ pc = "accept"
    BY <1>3 DEF AcceptFails, Accepting, Handling, At
  <2>2. ending = "none"
    BY <2>1 DEF ThreadTypes
  <2>3. ExitExplained'
    BY <1>3, AcceptFailsExplained
  <2>. QED  BY <2>1, <2>2, <2>3, ThreadEnds
<1>4. ~WriteKills
  BY DEF WriteKills, ThreadTypes
<1>. QED
  <2>1. Acceptor \/ (\E c \in Conns : Worker(c)) \/ AcceptFails \/ (\E c \in Conns : Client(c)) \/ UNCHANGED vars
    BY <1>4, StepsOfPrograms DEF Selects, Sequentials, Edges
  <2>2. CASE Acceptor
    BY <2>2, ThreadAcceptKeeps, ThreadCreateKeeps DEF Acceptor
  <2>3. CASE \E c \in Conns : Worker(c)
    BY <1>2, <2>3, WorkerReadsKeeps, WorkerReceivesKeeps, WorkerEndsKeeps, WorkerErrsKeeps, WorkerWritesKeeps,
       WorkerClosesKeeps DEF Worker
  <2>. QED  BY <1>1, <1>3, <2>1, <2>2, <2>3, ThreadClientKeeps

\* What the runs check of server-multithread follows.
LEMMA ThreadMeans ==
  ASSUME KernelInv, program = "multithread", ThreadInv
  PROVE  TablesAgree /\ ExitExplained /\ StallExplained
<1>1. TablesAgree
  BY DEF TablesAgree, ThreadInv, ThreadTypes, ThreadMemory, WorkerRecord, ThreadRing, WorkerPlace, Active
<1>. QED  BY <1>1 DEF ThreadInv, StallExplained, Awaited, Handling, At

-----------------------------------------------------------------------------
(* The beginning *)

\* The kernel begins in its invariant.
LEMMA KernelBegins == Init => KernelInv
<1> SUFFICES ASSUME Init PROVE KernelInv
  OBVIOUS
<1>1. /\ program \in Programs /\ ending = "none" /\ file = [f \in Fds |-> None] /\ closed = {}
      /\ backlog = {} /\ peer = [c \in Conns |-> "new"]
      /\ sent = [c \in Conns |-> 0] /\ taken = [c \in Conns |-> 0]
      /\ got = [c \in Conns |-> <<>>] /\ edge = {}
  BY DEF Init, KernelInit
<1>2. None \notin Conns /\ <<>> \in Seq(Conns \X Nat)
  BY KernelAssumption, EmptySeq
<1>3. FilesInv
  BY <1>1, <1>2 DEF FilesInv
<1>4. StreamInv
  BY <1>1, <1>2 DEF StreamInv
<1>5. BegunInv
  BY <1>1, <1>2 DEF BegunInv
<1>. QED  BY <1>3, <1>4, <1>5 DEF KernelInv

\* At the start every descriptor is free, every client silent and nothing owed.
LEMMA Beginning ==
  ASSUME Init
  PROVE  /\ FreeFds = Fds /\ OpenFds = {} /\ ExitExplained /\ ending = "none"
         /\ \A c \in Conns : Owes(c, <<>>) /\ peer[c] = "new" /\ sent[c] = 0 /\ taken[c] = 0 /\ got[c] = <<>>
         /\ closed = {} /\ backlog = {} /\ <<>> \in Seq(Conns \X Nat)
<1>1. /\ ending = "none" /\ file = [f \in Fds |-> None] /\ closed = {} /\ backlog = {}
      /\ peer = [c \in Conns |-> "new"] /\ sent = [c \in Conns |-> 0] /\ taken = [c \in Conns |-> 0]
      /\ got = [c \in Conns |-> <<>>]
  BY DEF Init, KernelInit
<1>2. FreeFds = Fds /\ OpenFds = {}
  BY <1>1 DEF FreeFds, OpenFds
<1>3. <<>> \in Seq(Conns \X Nat) /\ Len(<<>>) = 0
  BY EmptySeq
<1>4. ASSUME NEW c \in Conns PROVE Owes(c, <<>>)
  BY <1>1, <1>3 DEF Owes
<1>. QED  BY <1>1, <1>2, <1>3, <1>4 DEF ExitExplained

\* server-epoll begins in its invariant.
LEMMA EpollBegins == ASSUME Init, program = "epoll" PROVE EpollInv
<1>1. /\ pc = "wait" /\ mem = [ep |-> <<>>, i |-> 0, watched |-> {LISTEN}, fd |-> LISTEN, buf |-> <<>>]
  BY DEF Init, EpollInit
<1>2. <<>> \in Seq(Watchable)
  BY EmptySeq
<1>3. EpollTypes
  BY <1>1, <1>2, Beginning DEF EpollTypes, Watchable
<1>4. OwesInReply
  BY <1>1, Beginning DEF OwesInReply
<1>. QED  BY <1>1, <1>3, <1>4, Beginning DEF EpollInv, EpollFresh, EpollKnows

\* server-poll begins in its invariant, whatever the stack held.
LEMMA PollBegins == ASSUME Init, program = "poll" PROVE PollInv
<1>1. PICK stack \in SUBSET Entries :
        /\ pc = "wait"
        /\ mem = [client |-> [k \in Entries |-> None], revents |-> stack,
                  maxi |-> 0, N |-> 0, i |-> 1, fd |-> LISTEN, buf |-> <<>>]
  BY DEF Init, PollInit
<1>2. OPEN_MAX \in Nat \ {0} /\ 0 \in 0 .. OPEN_MAX - 1 /\ stack \subseteq 0 .. OPEN_MAX - 1
  BY PollAssumption DEF Entries
<1>3. mem \in PollMemory
  BY <1>1, <1>2, Beginning DEF PollMemory, Watchable
<1>4. Registers(mem.client, mem.maxi)
  <2>1. mem.client = [k \in Entries |-> None]
    BY <1>1
  <2>2. Range(mem.client) \ {None} = {}
    BY <2>1 DEF Range
  <2>. QED  BY <2>1, <2>2, Beginning DEF Registers
<1>5. PollTypes
  BY <1>1, <1>3, <1>4, Beginning DEF PollTypes
<1>6. OwesInReply
  BY <1>1, Beginning DEF OwesInReply
<1>. QED  BY <1>1, <1>5, <1>6, Beginning DEF PollInv, PollAccepts, PollScans

\* The select servers begin in their invariant.
LEMMA SelectBegins == ASSUME Init, program \in Selects PROVE SelectInv
<1>1. /\ pc = "wait"
      /\ mem = [allset |-> {LISTEN}, rset |-> {}, maxfd |-> LISTEN, N |-> 0, i |-> 0,
                client |-> [k \in 0 .. FD_SETSIZE - 1 |-> None], maxi |-> -1,
                fd |-> LISTEN, buf |-> <<>>]
  BY DEF Init, SelectInit, Selects
<1>2. FD_SETSIZE \in Nat \ {0} /\ -1 \in -1 .. FD_SETSIZE - 1 /\ LISTEN \in Nat /\ LISTEN \in Watchable
  BY SelectAssumption DEF LISTEN, Watchable
<1>3. mem \in SelectMemory
  BY <1>1, <1>2, Beginning DEF SelectMemory, Slots
<1>4. mem.client = [k \in Slots |-> None] /\ \A k \in Slots : mem.client[k] = None
  BY <1>1 DEF Slots
<1>5. Registers(mem.client, mem.maxi)
  <2>2. Range(mem.client) \ {None} = {}
    BY <1>4 DEF Range
  <2>. QED  BY <1>4, <2>2, Beginning DEF Registers
<1>6. mem.allset = {LISTEN} /\ mem.rset = {} /\ mem.N = 0
  BY <1>1
<1>7. SelectTypes
  BY <1>1, <1>3, <1>4, <1>5, <1>6, Beginning DEF SelectTypes
<1>8. SelectCounts
  BY <1>1, <1>6, FS_EmptySet DEF SelectCounts
<1>9. OwesInReply
  BY <1>1, Beginning DEF OwesInReply
<1>. QED  BY <1>1, <1>7, <1>8, <1>9, Beginning DEF SelectInv, SelectAccepts, SelectScans

\* The sequential servers begin in their invariant.
LEMMA SequentialBegins == ASSUME Init, program \in Sequentials PROVE SequentialInv
<1>1. PICK length \in {"usable", "negative"} :
        /\ pc = "accept" /\ mem = [fd |-> LISTEN, buf |-> <<>>, clientaddr_len |-> length]
        /\ program = "local" => length = "usable"
  BY DEF Init, SequentialInit, Sequentials
<1>2. SequentialTypes
  BY <1>1, Beginning DEF SequentialTypes, Served, Watchable
<1>3. OwesInReply
  BY <1>1, Beginning DEF OwesInReply
<1>. QED  BY <1>2, <1>3, Beginning DEF SequentialInv

\* The readers begin in their invariant.
LEMMA EdgeBegins == ASSUME Init, program \in Edges PROVE EdgeInv
<1>1. pc = "accept" /\ mem = [fd |-> LISTEN]
  BY DEF Init, EdgeInit, Edges
<1>2. EdgeTypes
  BY <1>1, Beginning DEF EdgeTypes, Watchable
<1>3. EdgesLeft
  BY Beginning DEF EdgesLeft, Unread
<1>4. EdgesShown
  BY Beginning, EmptySeq DEF EdgesShown
<1>. QED  BY <1>2, <1>3, <1>4, Beginning DEF EdgeInv

\* server-multithread begins in its invariant.
LEMMA ThreadBegins == ASSUME Init, program = "multithread" PROVE ThreadInv
<1>1. /\ pc = "accept"
      /\ mem = [addr_fd |-> [k \in 0 .. RING - 1 |-> None], i |-> 0, new |-> None,
                worker |-> [c \in Conns |-> Idle]]
  BY DEF Init, ThreadInit
<1>2. RING \in Nat \ {0} /\ 0 \in Ring
  BY RingIs DEF Ring
<1>3. Idle \in WorkerRecord /\ Idle.at = "none"
  BY <1>2, EmptySeq DEF Idle, WorkerRecord
<1>4. mem \in ThreadMemory /\ mem.new = None /\ \A c \in Conns : mem.worker[c].at = "none"
  BY <1>1, <1>2, <1>3 DEF ThreadMemory, Ring
<1>5. ThreadTypes
  BY <1>1, <1>4, Beginning DEF ThreadTypes, Active
<1>6. ThreadRing
  <2>1. Pending = 0
    <3>1. Cardinality(backlog) = 0
      <4>1. backlog = {}
        BY Beginning
      <4>. QED  BY <4>1, FS_EmptySet
    <3>. QED  BY <1>4, <3>1 DEF Pending
  <2>2. ASSUME NEW c \in Conns PROVE WorkerPlace(c) /\ WorkerData(c)
    BY <1>4, Beginning DEF WorkerPlace, WorkerData, Active
  <2>. QED  BY <1>1, <1>2, <2>1, <2>2 DEF ThreadRing
<1>. QED  BY <1>5, <1>6, Beginning DEF ThreadInv

\* server-multiprocess begins in its invariant.
LEMMA ProcessBegins == ASSUME Init, program = "multiprocess" PROVE ProcessInv
<1>1. /\ pc = "accept"
      /\ mem = [clientfd |-> LISTEN, installed |-> FALSE, pending |-> FALSE, errno |-> "0",
                child |-> [c \in Conns |-> [at |-> "none", buf |-> <<>>]]]
  BY DEF Init, ProcessInit
<1>2. mem \in ProcessMemory /\ (\A c \in Conns : mem.child[c].at = "none")
      /\ mem.pending = FALSE /\ mem.installed = FALSE
  BY <1>1, Beginning DEF ProcessMemory, ChildRecord, Watchable
<1>3. ProcessTypes
  BY <1>1, <1>2, Beginning DEF ProcessTypes
<1>4. ASSUME NEW c \in Conns PROVE ChildInv(c)
  BY <1>2, Beginning DEF ChildInv
<1>5. ProcessSignals
  <2>1. Zombies = {} /\ Running = {}
    BY <1>2, ChildrenAre, ChildrenAmong
  <2>2. Cardinality(Zombies \cup Running) = 0
    BY <2>1, FS_EmptySet
  <2>. QED  BY <1>1, <1>2, <2>1, <2>2, ProcessAssumption DEF ProcessSignals
<1>. QED  BY <1>3, <1>4, <1>5, Beginning DEF ProcessInv

\* The UDP server begins in its invariant.
LEMMA UdpBegins == ASSUME Init, program = "UDP" PROVE UdpInv
<1>1. pc = "recvfrom" /\ mem = [net |-> {}]
  BY DEF Init, UdpInit
<1>2. UdpTypes
  BY <1>1, Beginning, EmptySeq DEF UdpTypes
<1>. QED  BY <1>1, <1>2, Beginning DEF UdpInv, UdpOne

-----------------------------------------------------------------------------
(* The bound on what clients do *)

\* The bytes sent and the clients that broke off stay within the bound of the model.
MovesInv == Moves <= MaxMoves[program]

\* What is counted is finite, so that the count is a number.
LEMMA MovesAre ==
  ASSUME KernelInv
  PROVE  /\ IsFiniteSet(BytesSent) /\ Cardinality(BytesSent) \in Nat
         /\ IsFiniteSet(BrokenOff) /\ Cardinality(BrokenOff) \in Nat /\ Moves \in Nat
         /\ MaxMoves[program] \in Nat
<1>1. IsFiniteSet(BrokenOff)
  BY FS_Subset, KernelAssumption DEF BrokenOff
<1>2. IsFiniteSet(BytesSent)
  <2> DEFINE parts == {{c} \X (1 .. sent[c]) : c \in Conns}
  <2>1. IsFiniteSet(parts)
    <3>1. PICK f : f = [c \in Conns |-> {c} \X (1 .. sent[c])]
      OBVIOUS
    <3>2. f \in Surjection(Conns, parts)
      BY <3>1 DEF Surjection
    <3>. QED  BY <3>2, FS_Surjection, KernelAssumption
  <2>2. ASSUME NEW s \in parts PROVE IsFiniteSet(s)
    <3>1. PICK c \in Conns : s = {c} \X (1 .. sent[c])
      OBVIOUS
    <3>2. IsFiniteSet({c}) /\ IsFiniteSet(1 .. sent[c])
      <4>1. 1 \in Int /\ sent[c] \in Int
        BY DEF KernelInv, StreamInv
      <4>. QED  BY <4>1, FS_Singleton, FS_Interval
    <3>. QED  BY <3>1, <3>2, FS_Product
  <2>. HIDE DEF parts
  <2>3. IsFiniteSet(UNION parts)
    BY <2>1, <2>2, FS_UNION
  <2>. QED  BY <2>3 DEF BytesSent, parts
<1>. QED  BY <1>1, <1>2, FS_CardinalityType, KernelAssumption DEF Moves, KernelInv, FilesInv

\* Each client's bytes are among all of them.
LEMMA SentIsBounded ==
  ASSUME KernelInv, MovesInv, NEW c \in Conns
  PROVE  sent[c] \in 0 .. MaxMoves[program]
<1>1. sent[c] \in Nat
  BY DEF KernelInv, StreamInv
<1>2. PICK f : f = [k \in 1 .. sent[c] |-> <<c, k>>]
  OBVIOUS
<1>3. f \in Injection(1 .. sent[c], BytesSent)
  <2>1. \A k \in 1 .. sent[c] : <<c, k>> \in BytesSent
    BY DEF BytesSent
  <2>. QED  BY <1>2, <2>1 DEF Injection, IsInjective
<1>4. Cardinality(1 .. sent[c]) <= Cardinality(BytesSent)
  BY <1>3, MovesAre, FS_Injection
<1>5. Cardinality(1 .. sent[c]) = sent[c]
  <2>1. Cardinality(1 .. sent[c]) = IF 1 > sent[c] THEN 0 ELSE sent[c] - 1 + 1
    BY <1>1, FS_Interval
  <2>. QED  BY <1>1, <2>1
<1>. QED  BY <1>1, <1>4, <1>5, MovesAre DEF Moves, MovesInv

\* What a server does adds no move.
Quiet ==
  sent' = sent /\ \A c \in Conns : peer'[c] \in {"reset", "gone"} => peer[c] \in {"reset", "gone"}

\* A quiet step keeps the bound.
LEMMA QuietMoves ==
  ASSUME KernelInv, MovesInv, Quiet, program' = program PROVE MovesInv'
<1>1. BytesSent' = BytesSent /\ BrokenOff' \in SUBSET BrokenOff
  BY DEF Quiet, BytesSent, BrokenOff
<1>2. Cardinality(BrokenOff') <= Cardinality(BrokenOff) /\ Cardinality(BrokenOff') \in Nat
  <2>1. IsFiniteSet(BrokenOff) /\ IsFiniteSet(BrokenOff')
    BY <1>1, MovesAre, FS_Subset
  <2>. QED  BY <1>1, <2>1, FS_Subset, FS_CardinalityType
<1>. QED  BY <1>1, <1>2, MovesAre DEF Moves, MovesInv

\* A client that sends or breaks off adds one.
LEMMA OneMove ==
  ASSUME KernelInv, MovesInv, Moves < MaxMoves[program], program' = program, NEW c \in Conns,
         \/ sent' = [sent EXCEPT ![c] = sent[c] + 1] /\ BrokenOff' = BrokenOff
         \/ sent' = sent /\ BrokenOff' \subseteq BrokenOff \cup {c}
  PROVE  MovesInv'
<1>0. /\ IsFiniteSet(BytesSent) /\ Cardinality(BytesSent) \in Nat
      /\ IsFiniteSet(BrokenOff) /\ Cardinality(BrokenOff) \in Nat /\ MaxMoves[program] \in Nat
  BY MovesAre
<1>1. CASE sent' = [sent EXCEPT ![c] = sent[c] + 1] /\ BrokenOff' = BrokenOff
  <2>1. sent \in [Conns -> Nat]
    BY DEF KernelInv, StreamInv
  <2>2. BytesSent' = BytesSent \cup {<<c, sent[c] + 1>>}
    <3>1. \A d \in Conns : {d} \X (1 .. sent'[d]) = IF d = c THEN ({d} \X (1 .. sent[d])) \cup {<<c, sent[c] + 1>>}
                                                  ELSE {d} \X (1 .. sent[d])
      BY <1>1, <2>1
    <3>. QED  BY <3>1 DEF BytesSent
  <2>3. Cardinality(BytesSent') <= Cardinality(BytesSent) + 1 /\ Cardinality(BytesSent') \in Nat
    <3>1. IsFiniteSet(BytesSent') /\ Cardinality(BytesSent') = IF <<c, sent[c] + 1>> \in BytesSent
                                                                THEN Cardinality(BytesSent) ELSE Cardinality(BytesSent) + 1
      BY <1>0, <2>2, FS_AddElement
    <3>. QED  BY <1>0, <3>1, FS_CardinalityType
  <2>. QED  BY <1>0, <1>1, <2>3 DEF Moves, MovesInv
<1>2. CASE sent' = sent /\ BrokenOff' \subseteq BrokenOff \cup {c}
  <2>1. BytesSent' = BytesSent
    BY <1>2 DEF BytesSent
  <2>2. IsFiniteSet(BrokenOff \cup {c}) /\ Cardinality(BrokenOff \cup {c}) <= Cardinality(BrokenOff) + 1
    <3>1. /\ IsFiniteSet(BrokenOff \cup {c})
          /\ Cardinality(BrokenOff \cup {c}) = IF c \in BrokenOff THEN Cardinality(BrokenOff)
                                               ELSE Cardinality(BrokenOff) + 1
      BY <1>0, FS_AddElement
    <3>2. Cardinality(BrokenOff) \in Nat
      BY <1>0
    <3>. QED  BY <3>1, <3>2
  <2>3. IsFiniteSet(BrokenOff') /\ Cardinality(BrokenOff') <= Cardinality(BrokenOff \cup {c})
    BY <1>2, <2>2, FS_Subset
  <2>4. Cardinality(BrokenOff') \in Nat /\ Cardinality(BrokenOff \cup {c}) \in Nat
    BY <2>2, <2>3, FS_CardinalityType
  <2>. QED  BY <1>0, <2>1, <2>2, <2>3, <2>4 DEF Moves, MovesInv
<1>. QED  BY <1>1, <1>2

\* An error taken from any descriptor; file[f] need not be a connection.
LEMMA ErrorIsQuiet == ASSUME KernelInv, NEW c, TakesError(c) PROVE Quiet
  BY DEF Quiet, TakesError, Failing, KernelInv, StreamInv

\* A step that leaves the streams alone is quiet.
LEMMA StillIsQuiet == ASSUME UNCHANGED stream PROVE Quiet
  BY DEF Quiet, stream

\* So is a read,
LEMMA TakingIsQuiet == ASSUME NEW c, NEW bytes, Takes(c, bytes) PROVE Quiet
  BY DEF Quiet, Takes

\* a write, even one that finds the client broke off,
LEMMA WritingIsQuiet == ASSUME KernelInv, NEW c, NEW bytes, Writes(c, bytes) PROVE Quiet
  BY DEF Quiet, Writes, KernelInv, StreamInv

\* and the end of the program.
LEMMA EndingIsQuiet == ASSUME NEW why, Ends(why) PROVE Quiet /\ program' = program
  BY StillIsQuiet DEF Ends, sockets

\* server-epoll sends nothing for a client.
LEMMA EpollIsQuiet == ASSUME KernelInv, Epoll PROVE Quiet /\ program' = program
<1>1. CASE EpollWait \/ EpollBatchDone
  BY <1>1, StillIsQuiet DEF EpollWait, EpollBatchDone, sockets
<1>2. CASE EpollAccept
  BY <1>2, StillIsQuiet DEF EpollAccept, Accepts
<1>3. CASE EpollRead
  BY <1>3, TakingIsQuiet DEF EpollRead, Serves, sockets
<1>4. CASE EpollReply
  BY <1>4, WritingIsQuiet DEF EpollReply, Replies, sockets
<1>5. CASE EpollClose
  BY <1>5, StillIsQuiet DEF EpollClose, Closes
<1>6. CASE EpollReadFails \/ EpollBadDescriptor
  BY <1>6, EndingIsQuiet DEF EpollReadFails, EpollBadDescriptor
<1>. QED  BY <1>1, <1>2, <1>3, <1>4, <1>5, <1>6 DEF Epoll

\* Nor does server-poll,
LEMMA PollIsQuiet == ASSUME KernelInv, Poll PROVE Quiet /\ program' = program
<1>1. CASE PollWait
  BY <1>1, StillIsQuiet DEF PollWait, sockets
<1>2. CASE PollAccept
  BY <1>2, StillIsQuiet DEF PollAccept, Accepts
<1>3. CASE PollRead
  BY <1>3, TakingIsQuiet DEF PollRead, Serves, sockets
<1>4. CASE PollReply
  BY <1>4, WritingIsQuiet DEF PollReply, Replies, sockets
<1>5. CASE PollClose
  BY <1>5, StillIsQuiet, ErrorIsQuiet DEF PollClose, Closes
<1>6. CASE PollTableFull
  BY <1>6, EndingIsQuiet DEF PollTableFull
<1>. QED  BY <1>1, <1>2, <1>3, <1>4, <1>5, <1>6 DEF Poll

\* the select servers,
LEMMA SelectIsQuiet == ASSUME KernelInv, Select PROVE Quiet /\ program' = program
<1>1. CASE SelectWait
  BY <1>1, StillIsQuiet DEF SelectWait, sockets
<1>2. CASE SelectAccept
  BY <1>2, StillIsQuiet DEF SelectAccept, Accepts
<1>3. CASE SelectRead
  BY <1>3, TakingIsQuiet DEF SelectRead, Serves, sockets
<1>4. CASE SelectReply
  BY <1>4, WritingIsQuiet DEF SelectReply, Replies, sockets
<1>5. CASE SelectClose
  BY <1>5, StillIsQuiet DEF SelectClose, Closes
<1>6. CASE SelectReadFails
  BY <1>6, ErrorIsQuiet DEF SelectReadFails, sockets
<1>7. CASE SelectTableFull
  BY <1>7, EndingIsQuiet DEF SelectTableFull
<1>. QED  BY <1>1, <1>2, <1>3, <1>4, <1>5, <1>6, <1>7 DEF Select

\* the sequential servers,
LEMMA SequentialIsQuiet == ASSUME KernelInv, Sequential PROVE Quiet /\ program' = program
<1>1. CASE SequentialAccept
  BY <1>1, StillIsQuiet DEF SequentialAccept, Accepts
<1>2. CASE SequentialRead
  BY <1>2, TakingIsQuiet DEF SequentialRead, Serves, sockets
<1>3. CASE SequentialReply
  BY <1>3, WritingIsQuiet DEF SequentialReply, Replies, sockets
<1>4. CASE LocalClose
  BY <1>4, StillIsQuiet, ErrorIsQuiet DEF LocalClose, Closes
<1>5. CASE SimpleReadFails
  BY <1>5, ErrorIsQuiet DEF SimpleReadFails, sockets
<1>6. CASE SequentialAcceptFails \/ SimpleKilled
  BY <1>6, EndingIsQuiet DEF SequentialAcceptFails, SimpleKilled
<1>. QED  BY <1>1, <1>2, <1>3, <1>4, <1>5, <1>6 DEF Sequential

\* the readers,
LEMMA EdgeIsQuiet == ASSUME KernelInv, EdgeServer PROVE Quiet /\ program' = program
<1>1. CASE EdgeStart
  BY <1>1, StillIsQuiet DEF EdgeStart, Accepts
<1>2. CASE EdgeWait
  BY <1>2 DEF EdgeWait, Quiet, sockets
<1>3. ASSUME NEW c \in Conns, EdgeReadOnce(c) \/ EdgeReadAgain(c) PROVE Quiet /\ program' = program
  BY <1>3 DEF EdgeReadOnce, EdgeReadAgain, Shows, Quiet, sockets
<1>4. ASSUME NEW c \in Conns, EdgeReadEnds(c) PROVE Quiet /\ program' = program
  BY <1>4, StillIsQuiet, ErrorIsQuiet DEF EdgeReadEnds, sockets
<1>. QED  BY <1>1, <1>2, <1>3, <1>4 DEF EdgeServer

\* server-multithread,
LEMMA ThreadIsQuiet ==
  ASSUME KernelInv, Acceptor \/ \E c \in Conns : Worker(c) PROVE Quiet /\ program' = program
<1>1. CASE ThreadAccept
  BY <1>1, StillIsQuiet DEF ThreadAccept, Accepts
<1>2. CASE ThreadCreate
  BY <1>2, StillIsQuiet DEF ThreadCreate, sockets
<1>3. ASSUME NEW c \in Conns, Worker(c) PROVE Quiet /\ program' = program
  <2>1. CASE WorkerReads(c) \/ WorkerEnds(c)
    BY <2>1, StillIsQuiet DEF WorkerReads, WorkerEnds, sockets
  <2>2. CASE WorkerReceives(c)
    BY <2>2, TakingIsQuiet DEF WorkerReceives, sockets
  <2>3. CASE WorkerErrs(c)
    BY <2>3, ErrorIsQuiet DEF WorkerErrs, sockets
  <2>4. CASE WorkerWrites(c)
    BY <2>4, StillIsQuiet, WritingIsQuiet DEF WorkerWrites, sockets
  <2>5. CASE WorkerKilled(c)
    BY <2>5, EndingIsQuiet DEF WorkerKilled
  <2>6. CASE WorkerCloses(c)
    BY <2>6, StillIsQuiet DEF WorkerCloses, Closes, sockets
  <2>. QED  BY <1>3, <2>1, <2>2, <2>3, <2>4, <2>5, <2>6 DEF Worker
<1>. QED  BY <1>1, <1>2, <1>3 DEF Acceptor

\* or server-multiprocess.
LEMMA ProcessIsQuiet ==
  ASSUME KernelInv, Parent \/ catch_child \/ \E c \in Conns : Child(c) PROVE Quiet /\ program' = program
<1>1. CASE ProcessAccept
  BY <1>1, StillIsQuiet DEF ProcessAccept, Accepts
<1>2. CASE Fork \/ AcceptAgain
  BY <1>2, StillIsQuiet DEF Fork, AcceptAgain, sockets
<1>3. CASE ParentCloses
  BY <1>3, StillIsQuiet DEF ParentCloses
<1>4. CASE ForkFails \/ AcceptGivesUp
  BY <1>4, EndingIsQuiet DEF ForkFails, AcceptGivesUp
<1>5. CASE catch_child
  BY <1>5, StillIsQuiet DEF catch_child, sockets
<1>6. ASSUME NEW c \in Conns, Child(c) PROVE Quiet /\ program' = program
  <2>1. CASE ChildReceives(c)
    BY <2>1, TakingIsQuiet DEF ChildReceives, sockets
  <2>2. CASE ChildWrites(c)
    BY <2>2, WritingIsQuiet DEF ChildWrites, sockets
  <2>3. CASE ChildErrs(c)
    BY <2>3, ErrorIsQuiet DEF ChildErrs, sockets
  <2>4. CASE ChildExits(c)
    BY <2>4, StillIsQuiet DEF ChildExits
  <2>. QED  BY <1>6, <2>1, <2>2, <2>3, <2>4 DEF Child
<1>. QED  BY <1>1, <1>2, <1>3, <1>4, <1>5, <1>6 DEF Parent

\* The clients of the UDP server are bounded by themselves.
LEMMA UdpKeepsMoves == ASSUME KernelInv, MovesInv, Udp PROVE MovesInv'
<1>1. CASE UdpServe \/ UdpLoses
  <2>1. Quiet /\ program' = program
    BY <1>1, StillIsQuiet DEF UdpServe, UdpLoses, sockets
  <2>. QED  BY <2>1, QuietMoves
<1>2. ASSUME NEW c \in Conns, UdpFinish(c) \/ UdpReceive(c) PROVE MovesInv'
  <2>1. Quiet /\ program' = program
    BY <1>2 DEF UdpFinish, UdpReceive, Quiet, sockets, KernelInv, StreamInv
  <2>. QED  BY <2>1, QuietMoves
<1>3. ASSUME NEW c \in Conns, UdpSend(c) PROVE MovesInv'
  <2>1. /\ sent' = [sent EXCEPT ![c] = sent[c] + 1] /\ BrokenOff' = BrokenOff
        /\ Moves < MaxMoves[program] /\ program' = program
    BY <1>3 DEF UdpSend, BrokenOff, sockets, KernelInv, StreamInv
  <2>. QED  BY <2>1, OneMove
<1>. QED  BY <1>1, <1>2, <1>3 DEF Udp

\* So are all the others.
LEMMA ClientKeepsMoves == ASSUME KernelInv, MovesInv, NEW c \in Conns, Client(c) PROVE MovesInv'
<1>0. program' = program
  BY ClientKeeps
<1>1. CASE Connect(c) \/ Finish(c)
  <2>1. Quiet
    BY <1>1 DEF Connect, Finish, Quiet, KernelInv, StreamInv
  <2>. QED  BY <1>0, <2>1, QuietMoves
<1>2. CASE Send(c)
  <2>1. /\ sent' = [sent EXCEPT ![c] = sent[c] + 1] /\ BrokenOff' = BrokenOff
        /\ Moves < MaxMoves[program]
    BY <1>2 DEF Send, BrokenOff
  <2>. QED  BY <1>0, <2>1, OneMove
<1>3. CASE Reset(c)
  <2>1. sent' = sent /\ BrokenOff' \subseteq BrokenOff \cup {c} /\ Moves < MaxMoves[program]
    BY <1>3 DEF Reset, BrokenOff, sockets, stream, KernelInv, StreamInv
  <2>. QED  BY <1>0, <2>1, OneMove
<1>. QED  BY <1>1, <1>2, <1>3 DEF Client

\* Every step keeps the bound.
LEMMA MovesStep == ASSUME KernelInv, MovesInv, [Next]_vars PROVE MovesInv'
<1>1. CASE UNCHANGED vars
  BY <1>1, StillIsQuiet, QuietMoves DEF vars, sockets
<1>2. CASE Next
  <2>1. CASE Quiet /\ program' = program
    BY <2>1, QuietMoves
  <2>2. CASE Udp
    BY <2>2, UdpKeepsMoves
  <2>3. CASE \E c \in Conns : Client(c)
    BY <2>3, ClientKeepsMoves
  <2>4. CASE AcceptFails \/ WriteKills
    BY <2>1, <2>4, EndingIsQuiet DEF AcceptFails, WriteKills
  <2>. QED  BY <1>2, <2>1, <2>2, <2>3, <2>4, StepsOfPrograms, EpollIsQuiet, PollIsQuiet, SelectIsQuiet,
             SequentialIsQuiet, EdgeIsQuiet, ThreadIsQuiet, ProcessIsQuiet
<1>. QED  BY <1>1, <1>2

\* At the start nothing is counted.
LEMMA MovesBegin == ASSUME Init PROVE MovesInv
<1>1. BytesSent = {} /\ BrokenOff = {}
  BY Beginning DEF BytesSent, BrokenOff
<1>2. Moves = 0
  <2>1. Cardinality(BytesSent) = 0 /\ Cardinality(BrokenOff) = 0
    BY <1>1, FS_EmptySet
  <2>. QED  BY <2>1 DEF Moves
<1>. QED  BY <1>2, KernelBegins, MovesAre DEF MovesInv

-----------------------------------------------------------------------------
(* All the servers *)

\* What is true of each program, when that is the one that runs.
ServersInv ==
  /\ KernelInv /\ MovesInv
  /\ program = "epoll" => EpollInv
  /\ program = "poll" => PollInv
  /\ program \in Selects => SelectInv
  /\ program \in Sequentials => SequentialInv
  /\ program \in Edges => EdgeInv
  /\ program = "multithread" => ThreadInv
  /\ program = "multiprocess" => ProcessInv
  /\ program = "UDP" => UdpInv

\* The programs are different ones, and there are no others.
LEMMA OneProgram ==
  ASSUME KernelInv
  PROVE  \/ program = "epoll" \/ program = "poll" \/ program \in Selects \/ program \in Sequentials
         \/ program \in Edges \/ program = "multithread" \/ program = "multiprocess" \/ program = "UDP"
  BY ProgramsAssumption DEF KernelInv, FilesInv, Selects, Sequentials, Edges

\* What the runs check of server-epoll follows.
LEMMA EpollMeans ==
  ASSUME KernelInv, program = "epoll", EpollInv
  PROVE  Memory /\ TablesAgree /\ ExitExplained /\ StallExplained
<1>1. Memory
  BY DEF Memory, EpollInv, EpollTypes, Watchable
<1>2. TablesAgree /\ ExitExplained
  BY DEF TablesAgree, EpollInv, EpollTypes
<1>3. StallExplained
  <2> SUFFICES ASSUME Handling, ~Ready(Handled) PROVE mem.i >= 2
    BY DEF StallExplained, Awaited
  <2>1. mem.i \in Nat /\ mem.ep \in Seq(Watchable) /\ Len(mem.ep) \in Nat
    BY LenProperties DEF EpollInv, EpollTypes
  <2>2. pc = "dispatch" /\ mem.i + 1 \in mem.i + 1 .. Len(mem.ep)
    BY <2>1 DEF Handling, At
  <2>3. mem.i <= 1 => Ready(mem.ep[mem.i + 1])
    BY <2>2 DEF EpollInv, EpollFresh
  <2>. QED  BY <2>1, <2>3 DEF Handled
<1>. QED  BY <1>1, <1>2, <1>3

\* What the runs check of server-poll follows.
LEMMA PollMeans ==
  ASSUME KernelInv, program = "poll", PollInv
  PROVE  Memory /\ TablesAgree /\ ExitExplained /\ StallExplained
<1>1. Memory
  BY DEF Memory, PollInv, PollTypes, PollMemory, Watchable
<1>2. TablesAgree /\ ExitExplained
  BY DEF TablesAgree, PollInv, PollTypes
<1>3. StallExplained
  <2>1. CASE pc = "scan"
    <3>1. PICK D \in SUBSET PollHits : PollCounted(D)
      BY <2>1 DEF PollInv, PollScans
    <3>2. Min(PollHits) \in D /\ PollHit = mem.client[Min(PollHits)]
      BY <3>1, PollFirst DEF PollInv
    <3>3. Ready(PollHit)
      BY <2>1, <3>1, <3>2 DEF PollCounted
    <3>. QED  BY <2>1, <3>3 DEF StallExplained, Awaited, Handling, At
  <2>2. CASE pc = "accept"
    BY <2>2 DEF StallExplained, Awaited, Handling, At, PollInv, PollAccepts, Ready
  <2>. QED  BY <2>1, <2>2 DEF StallExplained, Awaited, Handling, At
<1>. QED  BY <1>1, <1>2, <1>3

\* What the runs check of the select servers follows.
LEMMA SelectMeans ==
  ASSUME KernelInv, program \in Selects, SelectInv
  PROVE  Memory /\ TablesAgree /\ ExitExplained /\ StallExplained
<1>1. Memory
  <2>1. mem.N \in 0 .. Cardinality(mem.rset)
    <3>1. IsFiniteSet(mem.rset)
      BY FdsFinite, SelectFields, FS_Subset DEF SelectInv
    <3>2. Cardinality(mem.rset) \in Nat
      BY <3>1, FS_CardinalityType
    <3>. QED  BY <3>2, SelectFields DEF SelectInv, SelectCounts
  <2>. QED  BY <2>1 DEF Memory, SelectInv, SelectTypes, SelectMemory, Watchable, Selects, Slots
<1>2. TablesAgree /\ ExitExplained
  BY DEF TablesAgree, SelectInv, SelectTypes, Tabled, Selects
<1>3. StallExplained
  <2>1. CASE pc = "scan"
    <3>1. Ready(SelectHit)
      BY <2>1, SelectFirst DEF SelectInv
    <3>. QED  BY <2>1, <3>1 DEF StallExplained, Awaited, Handling, At, Selects
  <2>2. CASE pc = "accept"
    BY <2>2 DEF StallExplained, Awaited, Handling, At, SelectInv, SelectAccepts, Ready, Selects
  <2>. QED  BY <2>1, <2>2 DEF StallExplained, Awaited, Handling, At, Selects
<1>. QED  BY <1>1, <1>2, <1>3

\* What the runs check of all of the others with one thread follows.
LEMMA OneThreadMeans ==
  ASSUME KernelInv, ExitExplained, program \in Sequentials \cup Edges \cup {"UDP"}
  PROVE  Memory /\ TablesAgree /\ ExitExplained /\ StallExplained
  BY DEF Memory, TablesAgree, StallExplained, Awaited, Handling, At, Sequentials, Edges, Selects

\* What the runs check follows from the invariant.
LEMMA ServersMean ==
  ASSUME ServersInv
  PROVE  Memory /\ TablesAgree /\ ExitExplained /\ StallExplained
<1>1. CASE program = "multithread"
  <2>1. Memory
    BY <1>1 DEF ServersInv, Memory, ThreadInv, ThreadTypes, ThreadMemory, Ring
  <2>. QED  BY <1>1, <2>1, ThreadMeans DEF ServersInv
<1>2. CASE program = "multiprocess"
  <2>1. Memory
    BY <1>2 DEF ServersInv, Memory, ProcessInv, ProcessTypes, ProcessMemory, ProcessSignals
  <2>. QED  BY <1>2, <2>1, ProcessMeans DEF ServersInv
<1>3. CASE program \in Sequentials \cup Edges \cup {"UDP"}
  <2>1. ExitExplained
    BY <1>3 DEF ServersInv, SequentialInv, EdgeInv, UdpInv
  <2>. QED  BY <1>3, <2>1, OneThreadMeans DEF ServersInv
<1>. QED  BY <1>1, <1>2, <1>3, OneProgram, EpollMeans, PollMeans, SelectMeans DEF ServersInv

\* The types of all variables follow; a descriptor stands for one connection.
LEMMA ServersType == ASSUME ServersInv PROVE TypeOK
<1>1. Memory
  BY ServersMean
<1>2. KernelInv /\ MovesInv
  BY DEF ServersInv
<1>3. IsInjective(Restrict(file, OpenFds))
  BY <1>2 DEF IsInjective, Restrict, OpenFds, FreeFds, KernelInv, FilesInv
<1>4. ASSUME NEW c \in Conns PROVE sent[c] \in 0 .. MaxMoves[program] /\ taken[c] \in 0 .. sent[c]
  BY <1>2, SentIsBounded DEF KernelInv, StreamInv
<1>. QED  BY <1>1, <1>2, <1>3, <1>4 DEF TypeOK, KernelInv, FilesInv, StreamInv

\* No zombie waits without a signal, whichever program runs.
LEMMA ServersNotice == ASSUME ServersInv PROVE ZombiesNoticed
  BY ProcessMeans DEF ServersInv, ZombiesNoticed

\* The nonblocking reader waits for an edge only when it has read all.
LEMMA ServersDrain == ASSUME ServersInv PROVE DrainedWhenQuiet
<1> SUFFICES ASSUME program = "epollET-nonblock", pc = "wait", file[mem.fd] \notin edge
    PROVE  Unread(file[mem.fd]) = 0
  BY DEF DrainedWhenQuiet
<1>1. KernelInv /\ EdgeInv
  BY DEF ServersInv, Edges
<1>2. file[mem.fd] \in Conns
  BY <1>1, OneIsServed DEF EdgeInv, EdgeTypes
<1>. QED  BY <1>1, <1>2 DEF EdgeInv, EdgesLeft

\* Every program begins in its invariant.
LEMMA ServersBegin == ASSUME Init PROVE ServersInv
  BY KernelBegins, MovesBegin, EpollBegins, PollBegins, SelectBegins, SequentialBegins, EdgeBegins,
     ThreadBegins, ProcessBegins, UdpBegins DEF ServersInv

\* A step keeps the program.
LEMMA ProgramStays == ASSUME KernelInv, [Next]_vars PROVE program' = program
<1>1. CASE UNCHANGED vars
  BY <1>1 DEF vars, sockets
<1>2. CASE Next
  <2>1. CASE Udp
    BY <2>1 DEF Udp, UdpServe, UdpLoses, UdpSend, UdpFinish, UdpReceive, sockets
  <2>2. CASE \E c \in Conns : Client(c)
    BY <2>2, ClientKeeps
  <2>3. CASE AcceptFails \/ WriteKills
    BY <2>3, EndingIsQuiet DEF AcceptFails, WriteKills
  <2>. QED  BY <1>2, <2>1, <2>2, <2>3, StepsOfPrograms, EpollIsQuiet, PollIsQuiet, SelectIsQuiet,
             SequentialIsQuiet, EdgeIsQuiet, ThreadIsQuiet, ProcessIsQuiet
<1>. QED  BY <1>1, <1>2

\* Every step keeps the invariant of the program that runs, and is one of the
\* service when threads and datagrams are not mixed up.
LEMMA ServersStep ==
  ASSUME ServersInv, [Next]_vars
  PROVE  ServersInv' /\ (Patient /\ ~MayDuplicate => ServiceStep)
<1>1. program' = program /\ MovesInv'
  BY ProgramStays, MovesStep DEF ServersInv
<1>2. CASE program = "epoll"
  BY <1>1, <1>2, EpollStep DEF ServersInv, Selects, Sequentials, Edges
<1>3. CASE program = "poll"
  BY <1>1, <1>3, PollStep DEF ServersInv, Selects, Sequentials, Edges
<1>4. CASE program \in Selects
  BY <1>1, <1>4, SelectStep DEF ServersInv, Selects, Sequentials, Edges
<1>5. CASE program \in Sequentials
  BY <1>1, <1>5, SequentialStep DEF ServersInv, Selects, Sequentials, Edges
<1>6. CASE program \in Edges
  BY <1>1, <1>6, EdgeStep DEF ServersInv, Selects, Sequentials, Edges
<1>7. CASE program = "multithread"
  BY <1>1, <1>7, ThreadStep DEF ServersInv, Selects, Sequentials, Edges
<1>8. CASE program = "multiprocess"
  BY <1>1, <1>8, ProcessStep DEF ServersInv, Selects, Sequentials, Edges
<1>9. CASE program = "UDP"
  BY <1>1, <1>9, UdpStep DEF ServersInv, Selects, Sequentials, Edges
<1>. QED  BY <1>2, <1>3, <1>4, <1>5, <1>6, <1>7, <1>8, <1>9, OneProgram DEF ServersInv

\* The invariant of the program that runs always holds.
THEOREM ServersInvariant == Spec => []ServersInv
<1>1. Init => ServersInv
  BY ServersBegin
<1>2. ServersInv /\ [Next]_vars => ServersInv'
  BY ServersStep
<1>. QED  BY <1>1, <1>2, PTL DEF Spec

\* Every variable keeps its type, and every loop variable of the servers its range:
\* no descriptor stands for two connections, and no read takes more than was sent.
THEOREM ServersTyped == Spec => []TypeOK
  BY ServersInvariant, ServersType, PTL

\* What each server keeps of its connections, client[], allset, epoll's interest
\* list, addr_fd or the one descriptor of a parent process, agrees with the
\* connections it has, whatever was closed and reused before.
THEOREM ServersTables == Spec => []TablesAgree
  BY ServersInvariant, ServersMean, PTL

\* A server ends only for one of the reasons of ExitExplained; none of them is a
\* descriptor or a table entry it leaked.
THEOREM ServersExit == Spec => []ExitExplained
  BY ServersInvariant, ServersMean, PTL

\* A multiplexing server never waits in read or accept for a client while others
\* could be served, but epoll on an event from the third of a batch on, which its
\* shared loop variable may make it handle again.
THEOREM ServersStall == Spec => []StallExplained
  BY ServersInvariant, ServersMean, PTL

\* catch_child leaves no zombie without a signal under way, but the first child.
THEOREM ServersReap == Spec => []ZombiesNoticed
  BY ServersInvariant, ServersNotice, PTL

\* server-epollET-nonblock waits for the next edge only when it has read all.
THEOREM ReaderDrains == Spec => []DrainedWhenQuiet
  BY ServersInvariant, ServersDrain, PTL

\* At first nobody has sent anything.
LEMMA ServiceBegins == ASSUME Init PROVE Service!Init
<1>1. Shown = [c \in Conns |-> <<>>]
  BY Beginning DEF Shown, Init, KernelInit
<1>2. Seen = [c \in Conns |-> "open"]
  BY Beginning, SeenIs DEF Seen
<1>3. sent = [c \in Conns |-> 0] /\ closed = {}
  BY DEF Init, KernelInit
<1>. QED  BY <1>1, <1>2, <1>3 DEF Service!Init, Shown, Seen

\* Every server implements EchoService: each byte comes back in order and once, and
\* only what is answered or broken off is closed.  For server-multithread this is so
\* when no client gets a ring entry in use, for UDP when nothing is duplicated.
THEOREM ServersEcho ==
  ASSUME Patient, ~MayDuplicate
  PROVE  Spec => ImplementsEchoService
<1>1. Init => Service!Init
  BY ServiceBegins
<1>2. ServersInv /\ [Next]_vars => [Service!Next]_(Service!vars)
  BY ServersStep DEF ServiceStep
<1>. QED  BY <1>1, <1>2, ServersInvariant, PTL DEF Spec, ImplementsEchoService, Service!Spec

\* What follows for the clients is what the service's own proofs say.
ServiceFacts == INSTANCE EchoServiceProofs WITH got <- Shown, client <- Seen, over <- closed

\* A client that reads gets a beginning of what it sent, its own bytes in their
\* order, and all of it before its connection is closed.  (The nonblocking
\* reader shows one byte of each read, and echoes nothing.)
EachGetsItsOwn ==
  program # "epollET-nonblock" =>
    /\ \A c \in Conns :
         Len(got[c]) <= sent[c] /\ \A k \in 1 .. Len(got[c]) : got[c][k] = <<c, k>>
    /\ \A c \in closed : peer[c] = "finished" => Len(got[c]) = sent[c]

\* No server mixes up, repeats or drops bytes of its clients, nor closes a
\* connection before all were answered, if ring entries are not reused too early
\* and datagrams are not doubled.
THEOREM ClientsGetTheirOwn ==
  ASSUME Patient, ~MayDuplicate
  PROVE  Spec => []EachGetsItsOwn
<1>1. ServiceFacts!Spec => [](ServiceFacts!InOrder /\ ServiceFacts!Complete)
  BY ServiceFacts!ServiceKeepsOrder
<1>2. ServiceFacts!InOrder /\ ServiceFacts!Complete /\ ServersInv => EachGetsItsOwn
  BY SeenIs DEF ServiceFacts!InOrder, ServiceFacts!Complete, Shown, EachGetsItsOwn, ServersInv, KernelInv, FilesInv
<1>3. Init => ServiceFacts!Init
  BY ServiceBegins DEF ServiceFacts!Init, Service!Init, Shown, Seen
<1>4. ServersInv /\ [Next]_vars => [ServiceFacts!Next]_(ServiceFacts!vars)
  <2>1. ServiceStep => [ServiceFacts!Next]_(ServiceFacts!vars)
    BY DEF ServiceStep, ServiceFacts!Next, Service!Next, ServiceFacts!vars, Service!vars, Shown, Seen,
           ServiceFacts!Send, Service!Send, ServiceFacts!Leave, Service!Leave,
           ServiceFacts!Answer, Service!Answer, ServiceFacts!Hangup, Service!Hangup
  <2>. QED  BY <2>1, ServersStep
<1>. QED  BY <1>1, <1>2, <1>3, <1>4, ServersInvariant, PTL DEF Spec, ServiceFacts!Spec
=============================================================================

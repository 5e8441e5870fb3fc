------------------------------ MODULE EchoKernel ------------------------------
(***************************************************************************)
(* What the example servers run on: sockets as their system calls show     *)
(* them, and clients that connect, send, finish or break off at any time.  *)
(* One of the programs runs, and keeps its own variables in the record     *)
(* mem; each has a module of its own.                                      *)
(***************************************************************************)
EXTENDS Integers, SequencesExt

CONSTANTS
  Conns,      \* connections that clients open
  Programs,   \* the programs that may run
  MaxFd,      \* for each program, the connections it may have open (RLIMIT_NOFILE)
  MaxClients, MaxMoves,   \* and bounds: clients that connect, and bytes they
                          \* send plus clients that break off
  MAXLINE,    \* how much one read takes
  None

LISTEN == 0   \* the descriptor of the listening socket

ASSUME KernelAssumption ==
  /\ MaxFd \in [Programs -> Nat \ {0}] /\ MAXLINE \in Nat \ {0}
  /\ MaxClients \in [Programs -> Nat] /\ MaxMoves \in [Programs -> Nat]
  /\ IsFiniteSet(Conns) /\ None \notin Conns \cup Nat

VARIABLES
  program,   \* which program runs
  pc, mem,   \* where its main thread is, and its variables
  ending,    \* "none", or why it ended
  file,      \* the connection behind each descriptor
  backlog,   \* connections that wait for accept
  closed,    \* connections the server has closed
  peer,      \* each client: "new", "open", "finished" (it sends no more),
             \* "reset" (broke off), or "gone": then a read finds the end, and
             \* a write raises SIGPIPE
  sent, taken,   \* how many bytes each client sent, how many of them were read
  got,       \* the bytes written for each client
  edge       \* connections with an arrival that edge-triggered epoll has not reported

sockets == <<program, file, backlog, closed>>
stream == <<peer, sent, taken, got, edge>>
\* The descriptors of connections; accept returns the least free one.
Fds == 1 .. MaxFd[program]

vars == <<pc, mem, ending, sockets, stream>>

KernelInit ==
  /\ ending = "none" /\ file = [f \in Fds |-> None] /\ closed = {}
  /\ backlog = {} /\ peer = [c \in Conns |-> "new"]
  /\ sent = [c \in Conns |-> 0] /\ taken = [c \in Conns |-> 0]
  /\ got = [c \in Conns |-> <<>>] /\ edge = {}

-----------------------------------------------------------------------------
(* System calls *)

\* The main thread of one of these programs is there.
At(programs, where) == program \in programs /\ pc = where

FreeFds == {f \in Fds : file[f] = None}
NewFd == Min(FreeFds)

Unread(c) == sent[c] - taken[c]
AtEnd(c) == Unread(c) = 0 /\ peer[c] \in {"finished", "gone"}
Failing(c) == Unread(c) = 0 /\ peer[c] = "reset"
Readable(c) == Unread(c) > 0 \/ AtEnd(c) \/ Failing(c)

\* What epoll, poll and select report of a descriptor.
Ready(f) == IF f = LISTEN THEN backlog # {} ELSE file[f] # None /\ Readable(file[f])

\* A write to this connection raises SIGPIPE; a local socket (AF_UNIX) knows no
\* first write that merely fails.
Dead(c) == peer[c] = "gone" \/ (program = "local" /\ peer[c] = "reset")

Arrived(c, size) == [k \in 1 .. Min({Unread(c), size}) |-> <<c, taken[c] + k>>]

\* accept returns a connection; the caller waits until there is one.
Accepts(c) ==
  /\ c \in backlog /\ FreeFds # {}
  /\ backlog' = backlog \ {c} /\ file' = [file EXCEPT ![NewFd] = c]
  /\ UNCHANGED program

\* read with data, and with an error, which it reports once.
Takes(c, bytes) ==
  /\ bytes # <<>> /\ taken' = [taken EXCEPT ![c] = @ + Len(bytes)]
  /\ UNCHANGED <<peer, sent, got, edge>>
TakesError(c) ==
  /\ Failing(c) /\ peer' = [peer EXCEPT ![c] = "gone"]
  /\ UNCHANGED <<sent, taken, got, edge>>

\* write; after a reset the first one fails.
Writes(c, bytes) ==
  /\ \/ /\ peer[c] \in {"open", "finished"} /\ got' = [got EXCEPT ![c] = @ \o bytes]
        /\ UNCHANGED peer
     \/ /\ peer[c] = "reset" /\ ~Dead(c) /\ peer' = [peer EXCEPT ![c] = "gone"]
        /\ UNCHANGED got
  /\ UNCHANGED <<sent, taken, edge>>

Closes(f) ==
  /\ file' = [file EXCEPT ![f] = None] /\ closed' = closed \cup {file[f]}
  /\ UNCHANGED <<program, backlog>>

\* The process ends, by exit or by SIGPIPE.
Ends(why) == ending' = why /\ pc' = "ended" /\ UNCHANGED <<mem, sockets, stream>>

-----------------------------------------------------------------------------
(* The steps all single-threaded servers share: mem.fd is the connection    *)
(* served, mem.buf what was read from it.                                   *)

Serves(f) ==
  /\ file[f] # None /\ Takes(file[f], Arrived(file[f], MAXLINE))
  /\ pc' = "reply" /\ UNCHANGED <<ending, sockets>>

Replies(programs) ==
  At(programs, "reply") /\ Writes(file[mem.fd], mem.buf) /\ UNCHANGED <<ending, sockets>>

\* A write to a connection that is gone: none of the programs handles SIGPIPE.
WriteKills == pc = "reply" /\ Dead(file[mem.fd]) /\ Ends("SIGPIPE")

-----------------------------------------------------------------------------
(* The clients, which stop when the program ends *)

\* What counts towards MaxMoves: the bytes sent and the clients that broke off.
BytesSent == UNION {{c} \X (1 .. sent[c]) : c \in Conns}
BrokenOff == {c \in Conns : peer[c] \in {"reset", "gone"}}
Moves == Cardinality(BytesSent) + Cardinality(BrokenOff)

Acts(c) ==
  /\ ending = "none" /\ program # "UDP" /\ c \notin closed
  /\ UNCHANGED <<pc, mem, ending, taken, got>>

Arrives(c) == edge' = IF program \in {"epollET", "epollET-nonblock"} THEN edge \cup {c} ELSE edge

Connect(c) ==
  /\ Acts(c) /\ peer[c] = "new"
  /\ Cardinality({d \in Conns : peer[d] # "new"}) < MaxClients[program]
  /\ peer' = [peer EXCEPT ![c] = "open"]
  /\ backlog' = backlog \cup {c}
  /\ UNCHANGED <<program, file, closed, sent, edge>>

Send(c) ==
  /\ Acts(c) /\ peer[c] = "open"
  /\ Moves < MaxMoves[program]
  /\ sent' = [sent EXCEPT ![c] = @ + 1]
  /\ Arrives(c) /\ UNCHANGED <<sockets, peer>>

Finish(c) ==
  /\ Acts(c) /\ peer[c] = "open"
  /\ peer' = [peer EXCEPT ![c] = "finished"]
  /\ Arrives(c) /\ UNCHANGED <<sockets, sent>>

Reset(c) ==
  /\ Acts(c) /\ program # "epoll-ETLT"
  /\ Moves < MaxMoves[program]
  /\ \/ peer[c] = "open" /\ peer' = [peer EXCEPT ![c] = "reset"]
     \/ peer[c] = "finished" /\ peer' = [peer EXCEPT ![c] = "gone"]
  /\ Arrives(c) /\ UNCHANGED <<sockets, sent>>
=============================================================================

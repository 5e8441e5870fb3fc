----------------------------- MODULE EdgeServers -----------------------------
(***************************************************************************)
(* Readers of one connection, which show on the standard output what they  *)
(* read: "epollET", server-epollET.c; "epollET-nonblock",                  *)
(* server-epollET-nonblock.c; and "epoll-ETLT", epoll-ETLT-demo.c, where   *)
(* the connection is a pipe and the client the child that fills it.  They  *)
(* read half of what one message holds, and never close.                   *)
(***************************************************************************)
EXTENDS EchoKernel

Half == MAXLINE \div 2

Edges == {"epollET", "epollET-nonblock", "epoll-ETLT"}

EdgeInit == pc = "accept" /\ mem = [fd |-> LISTEN]

\* accept, or pipe and fork, and the registration with epoll.
EdgeStart ==
  /\ At(Edges, "accept") /\ \E c \in Conns : Accepts(c)
  /\ mem' = [mem EXCEPT !.fd = NewFd] /\ pc' = "wait"
  /\ UNCHANGED <<ending, closed, stream>>

\* Edge-triggered: an arrival is reported once, if there still is something to read.
EdgeWait ==
  /\ At(Edges, "wait") /\ Ready(mem.fd) /\ (program = "epoll-ETLT" \/ file[mem.fd] \in edge)
  /\ pc' = "read" /\ edge' = edge \ {file[mem.fd]}
  /\ UNCHANGED <<mem, ending, sockets, peer, sent, taken, got>>

\* read, then write to the standard output.
Shows(c, bytes, shown) ==
  /\ bytes # <<>> /\ taken' = [taken EXCEPT ![c] = @ + Len(bytes)]
  /\ got' = [got EXCEPT ![c] = @ \o shown]
  /\ UNCHANGED <<mem, ending, sockets, peer, sent, edge>>

Edge(c, programs) == At(programs, "read") /\ c = file[mem.fd]

EdgeReadOnce(c) ==
  /\ Edge(c, {"epollET", "epoll-ETLT"}) /\ pc' = "wait"
  /\ Shows(c, Arrived(c, Half), Arrived(c, Half))

\* Mutant: read once for each event.
EdgeReadAgainOnce(c) ==
  /\ Edge(c, {"epollET-nonblock"}) /\ pc' = "wait"
  /\ Shows(c, Arrived(c, Half), Arrived(c, 1))

\* The nonblocking one reads until nothing is left; len is the truth value of
\* read(...) > 0, so it shows one byte of each read.
EdgeReadAgain(c) ==
  /\ Edge(c, {"epollET-nonblock"}) /\ pc' = pc
  /\ Shows(c, Arrived(c, Half), Arrived(c, 1))

\* The end, an error, or (nonblocking) nothing now: on to the next event.
EdgeReadEnds(c) ==
  /\ Edge(c, Edges) /\ pc' = "wait" /\ Unread(c) = 0
  /\ \/ peer[c] = "reset" /\ TakesError(c)
     \/ /\ AtEnd(c) \/ (program = "epollET-nonblock" /\ peer[c] # "reset")
        /\ UNCHANGED stream
  /\ UNCHANGED <<mem, ending, sockets>>

EdgeServer ==
  \/ EdgeStart \/ EdgeWait
  \/ \E c \in Conns : EdgeReadOnce(c) \/ EdgeReadAgain(c) \/ EdgeReadEnds(c)
=============================================================================

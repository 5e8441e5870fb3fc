---------------------------- MODULE MCEchoServers ----------------------------
(* Instances of the example servers: which programs, and how much each gets. *)
EXTENDS EchoServersProperties, TLC

\* Clients are interchangeable; descriptors and table entries are ordered.
Symmetry == Permutations(Conns)

\* One connection is all that the readers of one connection ever have.
MCMaxClients ==
  [p \in Programs |->
     IF p \in {"simple", "epollET", "epollET-nonblock", "epoll-ETLT"} THEN 1
     ELSE IF p = "epoll" THEN 4 ELSE 3]
MCMaxMoves ==
  [p \in Programs |-> CASE MCMaxClients[p] = 1 -> 6 [] MCMaxClients[p] = 3 -> 3 [] OTHER -> 2]
\* One descriptor more than clients leaves the main thread's accept waiting.
MCLiveMaxFd == [p \in Programs |-> Cardinality(Conns) + 1]
MCMaxFd == [p \in Programs |-> IF p \in {"epoll", "poll", "select"} THEN 3 ELSE 2]
=============================================================================

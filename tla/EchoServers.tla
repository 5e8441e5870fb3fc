----------------------------- MODULE EchoServers -----------------------------
(***************************************************************************)
(* The example servers, one of which runs, with their clients.             *)
(***************************************************************************)
EXTENDS EpollServer, PollServer, SelectServers, SequentialServers, EdgeServers,
        ThreadServer, ProcessServer, UdpEcho

ASSUME ProgramsAssumption ==
  Programs \subseteq {"epoll", "poll", "select", "select-primary", "local", "simple",
                      "epollET", "epollET-nonblock", "epoll-ETLT",
                      "multithread", "multiprocess", "UDP"}

Init ==
  /\ program \in Programs /\ KernelInit
  /\ CASE program = "epoll" -> EpollInit
       [] program = "poll" -> PollInit
       [] program \in {"select", "select-primary"} -> SelectInit
       [] program \in {"local", "simple"} -> SequentialInit
       [] program \in {"epollET", "epollET-nonblock", "epoll-ETLT"} -> EdgeInit
       [] program = "multithread" -> ThreadInit
       [] program = "multiprocess" -> ProcessInit
       [] program = "UDP" -> UdpInit

\* What all programs with one main thread share.  accept fails at once when no
\* descriptor is left.
Accepting == pc = "accept" \/ (Handling /\ Handled = LISTEN)
AcceptFails == Accepting /\ FreeFds = {} /\ Ends("no descriptor")

\* The main thread; the UDP clients and network come with it.
Main ==
  \/ Epoll \/ Poll \/ Select \/ Sequential \/ EdgeServer \/ Acceptor \/ Parent \/ Udp
  \/ AcceptFails \/ WriteKills

\* The thread or process that serves connection c.
Server(c) == Worker(c) \/ Child(c)

Client(c) ==
  \/ (program = "multithread" /\ Patient => RingHasRoom) /\ Connect(c)
  \/ Send(c) \/ Finish(c) \/ Reset(c)

Next == Main \/ catch_child \/ \E c \in Conns : Server(c) \/ Client(c)

Spec == Init /\ [][Next]_vars

\* The system schedules every thread and process, and delivers signals; nobody
\* makes a client do anything.
FairSpec ==
  /\ Spec /\ WF_vars(Main) /\ WF_vars(catch_child)
  /\ \A c \in Conns : WF_vars(Server(c))
=============================================================================

----------------------- MODULE EpollReactorProperties -----------------------
(* What epoll-reactor.c must keep true of its table, of epoll and of clients. *)
EXTENDS EpollReactor

Entries ==
  [fd : 0 .. MaxFd, events : {"none", "EPOLLIN", "EPOLLOUT"},
   call_back : {"none", "recv_data", "send_data"}, status : {0, 1}, buf : SUBSET Conns]

\* Every variable keeps its type, and chekpos stays on or just behind the table.
TypeOK ==
  /\ g_events \in [Slots -> Entries]
  /\ age \in [Slots -> 0 .. MaxAge]
  /\ pc \in {"test", "wait", "dispatch", "exited"}
  /\ chekpos \in 0 .. MAX_EVENTS /\ i \in 0 .. CHECKS
  /\ batch \subseteq [slot : Slots \cup {Listen}, events : {"EPOLLIN", "EPOLLOUT"},
                      conn : Conns \cup {None}]
  /\ file \in [Fds -> Conns \cup {None}]
  /\ interest \in [Fds -> [slot : Slots, events : {"EPOLLIN", "EPOLLOUT"}] \cup {None}]
  /\ backlog \subseteq Conns
  /\ peer \in [Conns -> {"new", "open", "finished", "reset", "gone"}]
  /\ inbox \in [Conns -> Nat] /\ unread \in [Conns -> 0 .. Room]
  /\ got \in [Conns -> Nat] /\ replied \in [Conns -> Nat]
  /\ sent \in [Conns -> SUBSET Conns]

-----------------------------------------------------------------------------
\* The table and epoll agree: the entries with status 1 are exactly what the
\* kernel watches, each with its own open descriptor and the event it is set
\* for, whatever timeouts, errors and reuse of descriptors came before; and no
\* open connection is forgotten, where no timeout would ever close it.
TableMatchesEpoll ==
  /\ \A k \in Slots : g_events[k].status = 1 =>
       LET f == g_events[k].fd IN
       /\ f \in Fds /\ file[f] # None
       /\ interest[f] = [slot |-> k, events |-> g_events[k].events]
  /\ \A f \in Fds : interest[f] # None =>
       g_events[interest[f].slot].status = 1 /\ g_events[interest[f].slot].fd = f
  /\ \A f \in Fds : file[f] # None => interest[f] # None

\* An event is handled on the connection it was reported for: no call_back of
\* the same batch closes or replaces the connection of another's entry.
HandledWhereReported ==
  pc = "dispatch" =>
    \A e \in batch : e.slot # Listen =>
      /\ g_events[e.slot].status = 1
      /\ file[g_events[e.slot].fd] = e.conn

\* Each request that is received gets one reply before the next is received.
RepliesFollowRequests ==
  \A c \in Conns :
    /\ replied[c] <= got[c] /\ got[c] <= replied[c] + 1
    /\ \A k \in Slots :
         (g_events[k].status = 1 /\ file[g_events[k].fd] = c) =>
           (g_events[k].call_back = "send_data" <=> got[c] = replied[c] + 1)

\* The rotating test of CHECKS entries a round reaches every entry in time: no
\* connection is silent for TIMEOUT seconds plus the rounds of one rotation.
IdleBounded == \A k \in Slots : g_events[k].status = 1 => age[k] < TIMEOUT + Rounds

\* The server ends only when a client broke off or its descriptors ran out.
ExitExplained ==
  pc = "exited" => FreeFds = {} \/ \E c \in Conns : peer[c] \in {"reset", "gone"}

\* No client is sent what another client wrote, although send_data sends the
\* whole array and entries pass from one connection to the next.
NoForeignData == \A c \in Conns : sent[c] \subseteq {c}

Watched(c) == \E k \in Slots : g_events[k].status = 1 /\ file[g_events[k].fd] = c

\* Every client that connects gets an entry, which a timeout can close, unless
\* the server ends; only with the table full is a connection accepted and left
\* in no entry and not in epoll.
EveryClientAccepted ==
  \A c \in Conns : (c \in backlog) ~>
    \/ Watched(c) \/ pc = "exited"
    \/ FreeSlots = {} /\ \E f \in Fds : file[f] = c

\* A client that says nothing more, or does not read its replies, is closed
\* in the end: the timeouts go on while the server waits for others.
SilentClientsClosed ==
  \A c \in Conns : Watched(c) ~> (~Watched(c) \/ pc = "exited")
=============================================================================

------------------------- MODULE EpollReactorProofs -------------------------
(***************************************************************************)
(* Proofs about EpollReactor for tables, descriptor limits, timeouts and   *)
(* sets of clients of every size.                                          *)
(***************************************************************************)
EXTENDS EpollReactorProperties, NaturalFacts

\* accept_connection and the kernel take the least that is free.
LEMMA LeastIsIn ==
  ASSUME NEW S \in SUBSET Nat, S # {}
  PROVE  Least(S) \in S
BY LeastExists DEF Least

-----------------------------------------------------------------------------
LEMMA TypeInit == Init => TypeOK
<1> SUFFICES ASSUME Init PROVE TypeOK
  OBVIOUS
<1>1. MaxAge \in Nat /\ CHECKS \in Nat /\ MAX_EVENTS \in Nat /\ Room \in Nat /\ MaxFd \in Nat
  BY ReactorAssumption DEF MaxAge, Rounds
<1>2. g_events \in [Slots -> Entries] /\ age \in [Slots -> 0 .. MaxAge]
  BY <1>1 DEF Init, Entries, Unused
<1>3. /\ file \in [Fds -> Conns \cup {None}]
      /\ interest \in [Fds -> [slot : Slots, events : {"EPOLLIN", "EPOLLOUT"}] \cup {None}]
  BY DEF Init
<1>4. /\ inbox \in [Conns -> Nat] /\ unread \in [Conns -> 0 .. Room]
      /\ got \in [Conns -> Nat] /\ replied \in [Conns -> Nat]
      /\ sent \in [Conns -> SUBSET Conns]
      /\ peer \in [Conns -> {"new", "open", "finished", "reset", "gone"}]
  BY <1>1 DEF Init
<1>. QED  BY <1>1, <1>2, <1>3, <1>4 DEF Init, TypeOK

\* Entering a connection in the table, and taking it out, keep the types.
LEMMA TypeWatch ==
  ASSUME TypeOK, NEW k \in Slots, NEW f \in 0 .. MaxFd, NEW buf,
         NEW call_back \in {"recv_data", "send_data"},
         NEW event \in {"EPOLLIN", "EPOLLOUT"}, Watch(k, f, call_back, event, buf)
  PROVE  /\ g_events' \in [Slots -> Entries] /\ age' \in [Slots -> 0 .. MaxAge]
         /\ interest' \in [Fds -> [slot : Slots, events : {"EPOLLIN", "EPOLLOUT"}] \cup {None}]
<1>1. MaxAge \in Nat
  BY ReactorAssumption DEF MaxAge, Rounds
<1>2. [fd |-> f, events |-> event, call_back |-> call_back, status |-> 1, buf |-> {}] \in Entries
  BY DEF Entries
<1>3. g_events' \in [Slots -> Entries]
  BY <1>2 DEF TypeOK, Watch
<1>4. age' \in [Slots -> 0 .. MaxAge]
  BY <1>1 DEF TypeOK, Watch
<1>5. interest' \in [Fds -> [slot : Slots, events : {"EPOLLIN", "EPOLLOUT"}] \cup {None}]
  BY DEF TypeOK, Watch
<1>. QED  BY <1>3, <1>4, <1>5

LEMMA TypeUnwatch ==
  ASSUME TypeOK, NEW k \in Slots, Unwatch(k)
  PROVE  /\ g_events' \in [Slots -> Entries] /\ age' \in [Slots -> 0 .. MaxAge]
         /\ file' \in [Fds -> Conns \cup {None}]
         /\ interest' \in [Fds -> [slot : Slots, events : {"EPOLLIN", "EPOLLOUT"}] \cup {None}]
         /\ inbox' \in [Conns -> Nat] /\ unread' \in [Conns -> 0 .. Room]
<1>1. MaxAge \in Nat /\ Room \in Nat
  BY ReactorAssumption DEF MaxAge, Rounds
<1>2. g_events' \in [Slots -> Entries]
  <2>1. [g_events[k] EXCEPT !.status = 0] \in Entries
    BY SMTT(30) DEF TypeOK, Entries
  <2>2. g_events' = [g_events EXCEPT ![k] = [g_events[k] EXCEPT !.status = 0]]
    BY DEF Unwatch
  <2>. QED  BY <2>1, <2>2 DEF TypeOK
<1>3. age' \in [Slots -> 0 .. MaxAge]
  BY <1>1 DEF TypeOK, Unwatch
<1>4. /\ file' \in [Fds -> Conns \cup {None}]
      /\ interest' \in [Fds -> [slot : Slots, events : {"EPOLLIN", "EPOLLOUT"}] \cup {None}]
  BY DEF TypeOK, Unwatch
<1>5. inbox' \in [Conns -> Nat] /\ unread' \in [Conns -> 0 .. Room]
  BY <1>1 DEF TypeOK, Unwatch
<1>. QED  BY <1>2, <1>3, <1>4, <1>5

-----------------------------------------------------------------------------
LEMMA TypeMain == TypeOK /\ pc # "exited" /\ Main => TypeOK'
<1> SUFFICES ASSUME TypeOK, Main PROVE TypeOK'
  OBVIOUS
<1>0. /\ MAX_EVENTS \in Nat \ {0} /\ CHECKS \in Nat \ {0} /\ MaxFd \in Nat \ {0}
      /\ Room \in Nat \ {0} /\ MaxAge \in Nat /\ Listen \notin Slots
  BY ReactorAssumption DEF MaxAge, Rounds
<1>1. CASE TestSlot
  <2> DEFINE k == IF chekpos = MAX_EVENTS THEN 0 ELSE chekpos
  <2>1. k \in Slots /\ i' \in 0 .. CHECKS /\ chekpos' \in 0 .. MAX_EVENTS
    BY <1>0, <1>1 DEF TestSlot, TypeOK, Slots
  <2>2. CASE Unwatch(k) /\ UNCHANGED <<pc, batch, backlog, peer, histVars>>
    <3>1. Unwatch(k)
      BY <2>2
    <3> HIDE DEF k
    <3>. QED  BY <2>1, <2>2, <3>1, TypeUnwatch DEF TypeOK, histVars
  <2>3. CASE UNCHANGED <<tableVars, file, interest, inbox, unread, pc, batch, backlog, peer, histVars>>
    BY <2>1, <2>3 DEF TypeOK, tableVars, histVars
  <2>. QED  BY <1>1, <2>2, <2>3 DEF TestSlot
<1>2. CASE TestDone
  BY <1>0, <1>2 DEF TestDone, TypeOK, tableVars, kernelVars, peerVars, histVars
<1>3. CASE EpollWait
  <2>1. Reported \subseteq [slot : Slots \cup {Listen}, events : {"EPOLLIN", "EPOLLOUT"},
                            conn : Conns \cup {None}]
    BY DEF Reported, Ready, TypeOK
  <2>2. age' \in [Slots -> 0 .. MaxAge]
    <3>1. PICK seconds \in {0, 1} : age' = [k \in Slots |->
            IF g_events[k].status = 1 /\ age[k] < MaxAge THEN age[k] + seconds ELSE age[k]]
      BY <1>3 DEF EpollWait
    <3>2. seconds \in 0 .. 1
      OBVIOUS
    <3>3. ASSUME NEW n \in 0 .. MaxAge, n < MaxAge PROVE n + seconds \in 0 .. MaxAge
      BY <1>0, <3>2, <3>3
    <3>4. \A k \in Slots : age[k] \in 0 .. MaxAge
      BY DEF TypeOK
    <3>. QED  BY <3>1, <3>3, <3>4
  <2>. QED  BY <1>3, <2>1, <2>2 DEF EpollWait, TypeOK, kernelVars, peerVars, histVars
<1>4. CASE DispatchDone
  BY <1>4 DEF DispatchDone, TypeOK, tableVars, kernelVars, peerVars, histVars
<1>5. CASE AcceptConnection
  <2>1. /\ Least(FreeFds) \in Fds
        /\ FreeSlots # {} => Least(FreeSlots) \in Slots
    <3>1. FreeFds \in SUBSET Nat /\ FreeSlots \in SUBSET Nat
      BY <1>0 DEF FreeFds, FreeSlots, Fds, Slots
    <3>. QED  BY <1>5, <3>1, LeastIsIn DEF AcceptConnection, FreeFds, FreeSlots
  <2>2. file' \in [Fds -> Conns \cup {None}]
    BY <1>5, <2>1 DEF AcceptConnection, TypeOK
  <2>3. /\ g_events' \in [Slots -> Entries] /\ age' \in [Slots -> 0 .. MaxAge]
        /\ interest' \in [Fds -> [slot : Slots, events : {"EPOLLIN", "EPOLLOUT"}] \cup {None}]
    <3>1. CASE FreeSlots # {}
      <4>1. Watch(Least(FreeSlots), Least(FreeFds), "recv_data", "EPOLLIN", g_events[Least(FreeSlots)].buf)
        BY <1>5, <3>1 DEF AcceptConnection
      <4>2. Least(FreeFds) \in 0 .. MaxFd
        BY <1>0, <2>1 DEF Fds
      <4>. QED  BY <2>1, <3>1, <4>1, <4>2, TypeWatch
    <3>2. CASE FreeSlots = {}
      BY <1>5, <3>2 DEF AcceptConnection, TypeOK, tableVars
    <3>. QED  BY <3>1, <3>2
  <2>. QED  BY <1>5, <2>2, <2>3 DEF AcceptConnection, CallsAccept, TypeOK, peerVars, histVars
<1>6. CASE AcceptError
  BY <1>6 DEF AcceptError, CallsAccept, Exit, TypeOK, tableVars, kernelVars, peerVars, histVars
<1>7. ASSUME NEW k \in Slots, RecvData(k) PROVE TypeOK'
  <2> DEFINE f == g_events[k].fd
             c == file[f]
  <2>1. f \in 0 .. MaxFd
    BY DEF TypeOK, Entries
  <2>2. Watch(k, f, "send_data", "EPOLLOUT", g_events[k].buf \cup {c})
    BY <1>7 DEF RecvData
  <2>3. /\ g_events' \in [Slots -> Entries] /\ age' \in [Slots -> 0 .. MaxAge]
        /\ interest' \in [Fds -> [slot : Slots, events : {"EPOLLIN", "EPOLLOUT"}] \cup {None}]
    <3> HIDE DEF f, c
    <3>. QED  BY <2>1, <2>2, TypeWatch
  <2>4. inbox' \in [Conns -> Nat] /\ got' \in [Conns -> Nat]
    <3>1. PICK n \in 1 .. inbox[c] : inbox' = [inbox EXCEPT ![c] = @ - n]
      BY <1>7 DEF RecvData
    <3>2. got' = [got EXCEPT ![c] = @ + 1]
      BY <1>7 DEF RecvData
    <3>3. \A d \in Conns : inbox[d] \in Nat /\ got[d] \in Nat
      BY DEF TypeOK
    <3>4. c \in Conns => inbox[c] - n \in Nat
      BY <3>1, <3>3
    <3>5. c \in Conns => got[c] + 1 \in Nat
      BY <3>3
    <3>6. inbox \in [Conns -> Nat] /\ got \in [Conns -> Nat]
      BY DEF TypeOK
    <3> HIDE DEF c
    <3>. QED  BY <3>1, <3>2, <3>3, <3>4, <3>5, <3>6
  <2>. QED  BY <1>7, <2>3, <2>4 DEF RecvData, Calls, TypeOK
<1>8. ASSUME NEW k \in Slots, RecvEnd(k) \/ SendError(k) PROVE TypeOK'
  BY <1>8, TypeUnwatch DEF RecvEnd, SendError, Calls, TypeOK, histVars
<1>9. ASSUME NEW k \in Slots, RecvError(k) \/ SendKilled(k) PROVE TypeOK'
  BY <1>9 DEF RecvError, SendKilled, Calls, Exit, TypeOK, tableVars, kernelVars, peerVars, histVars
<1>10. ASSUME NEW k \in Slots, SendData(k) PROVE TypeOK'
  <2> DEFINE f == g_events[k].fd
             c == file[f]
  <2>1. f \in 0 .. MaxFd
    BY DEF TypeOK, Entries
  <2>2. Watch(k, f, "recv_data", "EPOLLIN", g_events[k].buf)
    BY <1>10 DEF SendData
  <2>3. /\ g_events' \in [Slots -> Entries] /\ age' \in [Slots -> 0 .. MaxAge]
        /\ interest' \in [Fds -> [slot : Slots, events : {"EPOLLIN", "EPOLLOUT"}] \cup {None}]
    <3> HIDE DEF f, c
    <3>. QED  BY <2>1, <2>2, TypeWatch
  <2>4. unread' \in [Conns -> 0 .. Room] /\ replied' \in [Conns -> Nat]
    <3>1. unread' = [unread EXCEPT ![c] = @ + 1] /\ replied' = [replied EXCEPT ![c] = @ + 1]
      BY <1>10 DEF SendData
    <3>2. unread[c] < Room
      BY <1>10 DEF SendData
    <3>3. \A d \in Conns : unread[d] \in 0 .. Room /\ replied[d] \in Nat
      BY DEF TypeOK
    <3>4. c \in Conns => unread[c] + 1 \in 0 .. Room
      BY <1>0, <3>2, <3>3
    <3>5. c \in Conns => replied[c] + 1 \in Nat
      BY <3>3
    <3>6. unread \in [Conns -> 0 .. Room] /\ replied \in [Conns -> Nat]
      BY DEF TypeOK
    <3> HIDE DEF c
    <3>. QED  BY <3>1, <3>3, <3>4, <3>5, <3>6
  <2>5. sent' \in [Conns -> SUBSET Conns]
    BY <1>10 DEF SendData, TypeOK, Entries
  <2>. QED  BY <1>10, <2>3, <2>4, <2>5 DEF SendData, Calls, TypeOK
<1>. QED
  BY <1>1, <1>2, <1>3, <1>4, <1>5, <1>6, <1>7, <1>8, <1>9, <1>10 DEF Main

LEMMA TypeClients == TypeOK /\ Clients => TypeOK'
<1> SUFFICES ASSUME TypeOK, Clients PROVE TypeOK'
  OBVIOUS
<1>0. Room \in Nat
  BY ReactorAssumption
<1>1. PICK c \in Conns : Connect(c) \/ Request(c) \/ ReadReply(c) \/ Finish(c) \/ Reset(c)
  BY DEF Clients
<1>2. UNCHANGED <<g_events, age, pc, chekpos, i, batch, file, interest, got, replied, sent>>
  BY DEF Clients, tableVars, loopVars, histVars
<1>3. peer' \in [Conns -> {"new", "open", "finished", "reset", "gone"}] /\ backlog' \subseteq Conns
  BY <1>1 DEF TypeOK, Connect, Request, ReadReply, Finish, Reset
<1>4. inbox' \in [Conns -> Nat] /\ unread' \in [Conns -> 0 .. Room]
  BY <1>0, <1>1 DEF TypeOK, Connect, Request, ReadReply, Finish, Reset
<1>. QED  BY <1>2, <1>3, <1>4 DEF TypeOK

LEMMA TypeNext == TypeOK /\ [Next]_vars => TypeOK'
<1>1. TypeOK /\ UNCHANGED vars => TypeOK'
  BY DEF TypeOK, vars, tableVars, loopVars, kernelVars, peerVars, histVars
<1>. QED  BY <1>1, TypeMain, TypeClients DEF Next

\* Every variable of the reactor keeps its type, and chekpos never leaves the
\* table by more than one, whatever the sizes of the table and of a round.
THEOREM ReactorTypes == Spec => []TypeOK
BY TypeInit, TypeNext, PTL DEF Spec

-----------------------------------------------------------------------------
(* The table, epoll and the batch of events *)

\* The first conjuncts of TableMatchesEpoll, which hold for every table.
WatchedOpen ==
  \A k \in Slots : g_events[k].status = 1 =>
    LET f == g_events[k].fd IN
    /\ f \in Fds /\ file[f] # None
    /\ interest[f] = [slot |-> k, events |-> g_events[k].events]
RegisteredWatched ==
  \A f \in Fds : interest[f] # None =>
    g_events[interest[f].slot].status = 1 /\ g_events[interest[f].slot].fd = f

\* A batch holds one event of an entry.
OnePerEntry ==
  pc = "dispatch" => \A d, e \in batch : d.slot \in Slots /\ d.slot = e.slot => d = e

Core == TypeOK /\ WatchedOpen /\ RegisteredWatched /\ OnePerEntry /\ HandledWhereReported

\* The entry whose call_back runs is watched, its connection is the one the
\* event came from, and no other event of the batch is of that entry.
LEMMA CalledEntry ==
  ASSUME Core, NEW k \in Slots, NEW call_back, Calls(k, call_back)
  PROVE  /\ pc = "dispatch" /\ g_events[k].status = 1 /\ g_events[k].call_back = call_back
         /\ g_events[k].fd \in Fds /\ file[g_events[k].fd] \in Conns
         /\ \E e \in batch : /\ e.slot = k /\ e.events = g_events[k].events
                            /\ e.conn = file[g_events[k].fd]
         /\ batch' \subseteq batch /\ \A d \in batch' : d.slot # k
<1>0. k # Listen
  BY ReactorAssumption
<1>1. PICK e \in batch : e.slot = k /\ g_events[k].events = e.events /\ batch' = batch \ {e}
  BY DEF Calls
<1>2. pc = "dispatch" /\ g_events[k].call_back = call_back
  BY DEF Calls
<1>3. g_events[k].status = 1 /\ file[g_events[k].fd] = e.conn
  BY <1>0, <1>1, <1>2 DEF Core, HandledWhereReported
<1>4. g_events[k].fd \in Fds /\ file[g_events[k].fd] \in Conns
  BY <1>3 DEF Core, WatchedOpen, TypeOK
<1>5. \A d \in batch' : d.slot # k
  BY <1>1, <1>2 DEF Core, OnePerEntry
<1>. QED  BY <1>1, <1>2, <1>3, <1>4, <1>5

\* Entries do not share a descriptor: epoll names one entry for each.
LEMMA OwnDescriptor ==
  ASSUME WatchedOpen, NEW j \in Slots, NEW k \in Slots,
         g_events[j].status = 1, g_events[k].status = 1, g_events[j].fd = g_events[k].fd
  PROVE  j = k
<1>1. /\ interest[g_events[k].fd] = [slot |-> k, events |-> g_events[k].events]
      /\ interest[g_events[j].fd] = [slot |-> j, events |-> g_events[j].events]
  BY Zenon DEF WatchedOpen
<1>2. [slot |-> k, events |-> g_events[k].events].slot = [slot |-> j, events |-> g_events[j].events].slot
  BY <1>1, Zenon
<1>. QED  BY <1>2

\* A call_back that watches its entry again disturbs no other entry or event.
LEMMA CoreRewatch ==
  ASSUME Core, NEW k \in Slots, NEW call_back, Calls(k, call_back),
         NEW next, NEW event, NEW buf, Watch(k, g_events[k].fd, next, event, buf),
         UNCHANGED <<pc, file>>
  PROVE  WatchedOpen' /\ RegisteredWatched' /\ OnePerEntry' /\ HandledWhereReported'
<1> DEFINE f == g_events[k].fd
<1>1. /\ g_events[k].status = 1 /\ f \in Fds /\ file[f] # None
      /\ batch' \subseteq batch /\ \A d \in batch' : d.slot # k
  BY CalledEntry, ReactorAssumption
<1>2. \A j \in Slots : j # k /\ g_events[j].status = 1 => g_events[j].fd # f
  BY <1>1, OwnDescriptor DEF Core
<1>3. /\ \A j \in Slots : j # k => g_events'[j] = g_events[j]
      /\ g_events'[k].fd = f /\ g_events'[k].status = 1 /\ g_events'[k].events = event
      /\ \A g \in Fds : g # f => interest'[g] = interest[g]
      /\ interest'[f] = [slot |-> k, events |-> event]
  BY <1>1 DEF Watch, Core, TypeOK
<1>4. WatchedOpen'
  BY <1>1, <1>2, <1>3 DEF Core, WatchedOpen
<1>5. RegisteredWatched'
  <2> SUFFICES ASSUME NEW g \in Fds, interest'[g] # None
               PROVE  /\ g_events'[interest'[g].slot].status = 1
                      /\ g_events'[interest'[g].slot].fd = g
    BY DEF RegisteredWatched
  <2>1. CASE g = f
    BY <1>3, <2>1
  <2>2. CASE g # f
    BY <1>1, <1>3, <2>2 DEF Core, RegisteredWatched, TypeOK
  <2>. QED  BY <2>1, <2>2
<1>6. OnePerEntry' /\ HandledWhereReported'
  BY <1>1, <1>3 DEF Core, OnePerEntry, HandledWhereReported, TypeOK
<1>. QED  BY <1>4, <1>5, <1>6

\* Taking an entry out leaves the other entries with their descriptors.
LEMMA CoreUnwatch ==
  ASSUME Core, NEW k \in Slots, g_events[k].status = 1, Unwatch(k)
  PROVE  /\ WatchedOpen' /\ RegisteredWatched'
         /\ \A j \in Slots : j # k /\ g_events[j].status = 1 =>
              /\ g_events'[j] = g_events[j]
              /\ file'[g_events'[j].fd] = file[g_events[j].fd]
<1> DEFINE f == g_events[k].fd
<1>1. f \in Fds /\ \A j \in Slots : j # k /\ g_events[j].status = 1 => g_events[j].fd # f
  <2>1. f \in Fds
    BY DEF Core, WatchedOpen
  <2>. QED  BY <2>1, OwnDescriptor DEF Core
<1>2. /\ \A j \in Slots : j # k => g_events'[j] = g_events[j]
      /\ g_events'[k].status = 0
      /\ \A g \in Fds : g # f => interest'[g] = interest[g] /\ file'[g] = file[g]
      /\ interest'[f] = None
  BY <1>1 DEF Unwatch, Core, TypeOK, Entries
<1>3. WatchedOpen'
  BY <1>1, <1>2 DEF Core, WatchedOpen
<1>4. RegisteredWatched'
  BY <1>1, <1>2 DEF Core, RegisteredWatched, TypeOK
<1>5. ASSUME NEW j \in Slots, j # k, g_events[j].status = 1
      PROVE  g_events'[j] = g_events[j] /\ file'[g_events'[j].fd] = file[g_events[j].fd]
  <2>1. g_events[j].fd \in Fds /\ g_events[j].fd # f
    BY <1>1, <1>5 DEF Core, WatchedOpen
  <2>. QED  BY <1>2, <1>5, <2>1
<1>. QED  BY <1>3, <1>4, <1>5

\* A new connection gets a descriptor and an entry nothing else uses.
LEMMA CoreAccept ==
  ASSUME Core, AcceptConnection
  PROVE  WatchedOpen' /\ RegisteredWatched' /\ OnePerEntry' /\ HandledWhereReported'
<1> DEFINE f == Least(FreeFds)
           k == Least(FreeSlots)
<1>1. f \in Fds /\ file[f] = None
  <2>1. FreeFds \in SUBSET Nat /\ FreeFds # {}
    BY ReactorAssumption DEF AcceptConnection, FreeFds, Fds
  <2>2. f \in FreeFds
    BY <2>1, LeastIsIn
  <2>. QED  BY <2>2 DEF FreeFds
<1>2. \A j \in Slots : g_events[j].status = 1 => g_events[j].fd # f
  BY <1>1 DEF Core, WatchedOpen
<1>3. interest[f] = None
  BY <1>1, <1>2 DEF Core, RegisteredWatched, TypeOK
<1>4. PICK c \in backlog : file' = [file EXCEPT ![f] = c]
  BY DEF AcceptConnection
<1>5. /\ c # None /\ file' = [file EXCEPT ![f] = c]
      /\ pc' = "dispatch" /\ pc = "dispatch" /\ batch' \subseteq batch
  BY <1>4, ReactorAssumption DEF AcceptConnection, CallsAccept, Core, TypeOK
<1>6. \A g \in Fds : file'[g] = (IF g = f THEN c ELSE file[g])
  BY <1>5 DEF Core, TypeOK
<1>7. CASE FreeSlots # {}
  <2>1. k \in Slots /\ g_events[k].status = 0
    <3>1. FreeSlots \in SUBSET Nat
      BY ReactorAssumption DEF FreeSlots, Slots
    <3>2. k \in FreeSlots
      BY <1>7, <3>1, LeastIsIn
    <3>. QED  BY <3>2 DEF FreeSlots
  <2>2. Watch(k, f, "recv_data", "EPOLLIN", g_events[k].buf)
    BY <1>7 DEF AcceptConnection
  <2> HIDE DEF f, k
  <2>3. /\ \A j \in Slots : j # k => g_events'[j] = g_events[j]
        /\ g_events'[k].fd = f /\ g_events'[k].status = 1 /\ g_events'[k].events = "EPOLLIN"
        /\ \A g \in Fds : g # f => interest'[g] = interest[g]
        /\ interest'[f] = [slot |-> k, events |-> "EPOLLIN"]
    BY <1>1, <2>1, <2>2 DEF Watch, Core, TypeOK
  <2>4. WatchedOpen'
    <3> SUFFICES ASSUME NEW j \in Slots, g_events'[j].status = 1
                 PROVE  /\ g_events'[j].fd \in Fds /\ file'[g_events'[j].fd] # None
                        /\ interest'[g_events'[j].fd] = [slot |-> j, events |-> g_events'[j].events]
      BY Zenon DEF WatchedOpen
    <3>1. CASE j = k
      BY <1>1, <1>5, <1>6, <2>3, <3>1
    <3>2. CASE j # k
      BY <1>2, <1>6, <2>3, <3>2 DEF Core, WatchedOpen
    <3>. QED  BY <3>1, <3>2
  <2>5. RegisteredWatched'
    <3> SUFFICES ASSUME NEW g \in Fds, interest'[g] # None
                 PROVE  /\ g_events'[interest'[g].slot].status = 1
                        /\ g_events'[interest'[g].slot].fd = g
      BY DEF RegisteredWatched
    <3>1. CASE g = f
      BY <2>3, <3>1
    <3>2. CASE g # f
      BY <2>1, <2>3, <3>2 DEF Core, RegisteredWatched, TypeOK
    <3>. QED  BY <3>1, <3>2
  <2>6. HandledWhereReported'
    <3> SUFFICES ASSUME NEW e \in batch', e.slot # Listen
                 PROVE  g_events'[e.slot].status = 1 /\ file'[g_events'[e.slot].fd] = e.conn
      BY DEF HandledWhereReported
    <3>1. e \in batch /\ e.slot \in Slots
      BY <1>5 DEF Core, TypeOK
    <3>2. g_events[e.slot].status = 1 /\ file[g_events[e.slot].fd] = e.conn
      BY <1>5, <3>1 DEF Core, HandledWhereReported
    <3>3. g_events[e.slot].fd \in Fds /\ g_events[e.slot].fd # f
      BY <1>2, <3>1, <3>2 DEF Core, WatchedOpen
    <3>. QED  BY <1>6, <2>1, <2>3, <3>1, <3>2, <3>3
  <2>. QED  BY <1>5, <2>4, <2>5, <2>6 DEF Core, OnePerEntry
<1>8. CASE FreeSlots = {}
  <2>1. UNCHANGED <<g_events, interest>>
    BY <1>8 DEF AcceptConnection, tableVars
  <2> HIDE DEF f
  <2>2. WatchedOpen'
    BY <1>2, <1>6, <2>1 DEF Core, WatchedOpen
  <2>3. RegisteredWatched' /\ OnePerEntry'
    BY <1>5, <2>1 DEF Core, RegisteredWatched, OnePerEntry
  <2>4. HandledWhereReported'
    BY <1>2, <1>5, <1>6, <2>1 DEF Core, HandledWhereReported, WatchedOpen, TypeOK
  <2>. QED  BY <2>2, <2>3, <2>4
<1>. QED  BY <1>7, <1>8

LEMMA CoreNext == Core /\ [Next]_vars => Core'
<1> SUFFICES ASSUME Core, [Next]_vars PROVE WatchedOpen' /\ RegisteredWatched' /\ OnePerEntry' /\ HandledWhereReported'
  BY TypeNext DEF Core
<1> USE DEF Core
<1>1. CASE TestSlot
  <2> DEFINE k == IF chekpos = MAX_EVENTS THEN 0 ELSE chekpos
  <2>1. k \in Slots /\ pc' # "dispatch"
    BY <1>1, ReactorAssumption DEF TestSlot, TypeOK, Slots
  <2>2. CASE Unwatch(k) /\ g_events[k].status = 1
    <3>1. Unwatch(k) /\ g_events[k].status = 1
      BY <2>2
    <3> HIDE DEF k
    <3>. QED  BY <2>1, <3>1, CoreUnwatch DEF OnePerEntry, HandledWhereReported
  <2>3. CASE UNCHANGED <<g_events, file, interest>>
    BY <2>1, <2>3 DEF WatchedOpen, RegisteredWatched, OnePerEntry, HandledWhereReported
  <2>. QED  BY <1>1, <2>2, <2>3 DEF TestSlot, tableVars
<1>2. CASE TestDone \/ DispatchDone
  BY <1>2 DEF TestDone, DispatchDone, tableVars, kernelVars,
              WatchedOpen, RegisteredWatched, OnePerEntry, HandledWhereReported
<1>3. CASE EpollWait
  <2>1. UNCHANGED <<g_events, file, interest>> /\ batch' = Reported
    BY <1>3 DEF EpollWait, kernelVars
  <2>2. WatchedOpen' /\ RegisteredWatched'
    BY <2>1 DEF WatchedOpen, RegisteredWatched
  <2>3. \A e \in Reported : e.slot \in Slots =>
          \E f \in Fds : /\ interest[f] # None
                         /\ e = [slot |-> interest[f].slot, events |-> interest[f].events, conn |-> file[f]]
    BY ReactorAssumption DEF Reported, Ready
  <2>4. OnePerEntry'
    <3> SUFFICES ASSUME NEW d \in Reported, NEW e \in Reported, d.slot \in Slots, d.slot = e.slot
                 PROVE  d = e
      BY <2>1 DEF OnePerEntry
    <3>1. PICK f \in Fds : /\ interest[f] # None
            /\ d = [slot |-> interest[f].slot, events |-> interest[f].events, conn |-> file[f]]
      BY <2>3
    <3>2. PICK g \in Fds : /\ interest[g] # None
            /\ e = [slot |-> interest[g].slot, events |-> interest[g].events, conn |-> file[g]]
      BY <2>3
    <3>3. interest[f].slot = interest[g].slot
      BY <3>1, <3>2
    <3>4. f = g
      BY <3>1, <3>2, <3>3 DEF RegisteredWatched
    <3>. QED  BY <3>1, <3>2, <3>4
  <2>5. HandledWhereReported'
    <3> SUFFICES ASSUME NEW e \in Reported, e.slot # Listen
                 PROVE  g_events[e.slot].status = 1 /\ file[g_events[e.slot].fd] = e.conn
      BY <2>1 DEF HandledWhereReported
    <3>1. PICK f \in Fds : /\ interest[f] # None
            /\ e = [slot |-> interest[f].slot, events |-> interest[f].events, conn |-> file[f]]
      BY DEF Reported, Ready
    <3>. QED  BY <3>1 DEF RegisteredWatched
  <2>. QED  BY <2>2, <2>4, <2>5
<1>4. CASE AcceptConnection
  BY <1>4, CoreAccept
<1>5. CASE AcceptError
  BY <1>5 DEF AcceptError, Exit, tableVars, kernelVars,
              WatchedOpen, RegisteredWatched, OnePerEntry, HandledWhereReported
<1>6. ASSUME NEW k \in Slots, RecvData(k) PROVE WatchedOpen' /\ RegisteredWatched' /\ OnePerEntry' /\ HandledWhereReported'
  BY <1>6, CoreRewatch DEF RecvData
<1>7. ASSUME NEW k \in Slots, SendData(k) PROVE WatchedOpen' /\ RegisteredWatched' /\ OnePerEntry' /\ HandledWhereReported'
  BY <1>7, CoreRewatch DEF SendData
<1>8. ASSUME NEW k \in Slots, RecvEnd(k) \/ SendError(k) PROVE WatchedOpen' /\ RegisteredWatched' /\ OnePerEntry' /\ HandledWhereReported'
  <2>1. PICK call_back : Calls(k, call_back)
    BY <1>8 DEF RecvEnd, SendError
  <2>2. Unwatch(k) /\ pc' = pc
    BY <1>8 DEF RecvEnd, SendError
  <2>3. /\ pc = "dispatch" /\ g_events[k].status = 1
        /\ batch' \subseteq batch /\ \A d \in batch' : d.slot # k
    BY <2>1, CalledEntry
  <2>4. /\ WatchedOpen' /\ RegisteredWatched'
        /\ \A j \in Slots : j # k /\ g_events[j].status = 1 =>
             g_events'[j] = g_events[j] /\ file'[g_events'[j].fd] = file[g_events[j].fd]
    BY <2>2, <2>3, CoreUnwatch
  <2>. QED  BY <2>2, <2>3, <2>4 DEF OnePerEntry, HandledWhereReported, TypeOK
<1>9. ASSUME NEW k \in Slots, RecvError(k) \/ SendKilled(k) PROVE WatchedOpen' /\ RegisteredWatched' /\ OnePerEntry' /\ HandledWhereReported'
  BY <1>9 DEF RecvError, SendKilled, Exit, tableVars, kernelVars,
              WatchedOpen, RegisteredWatched, OnePerEntry, HandledWhereReported
<1>10. CASE Clients \/ UNCHANGED vars
  BY <1>10 DEF Clients, vars, tableVars, loopVars, kernelVars,
               WatchedOpen, RegisteredWatched, OnePerEntry, HandledWhereReported
<1>. QED
  BY <1>1, <1>2, <1>3, <1>4, <1>5, <1>6, <1>7, <1>8, <1>9, <1>10 DEF Next, Main

LEMMA CoreInit == Init => Core
<1> SUFFICES ASSUME Init PROVE WatchedOpen /\ RegisteredWatched /\ OnePerEntry /\ HandledWhereReported
  BY TypeInit DEF Core
<1>. QED  BY DEF Init, Unused, WatchedOpen, RegisteredWatched, OnePerEntry, HandledWhereReported

\* Every event of a batch is handled on the connection it was reported for,
\* whatever the call_backs before it in the batch did to the table.
THEOREM ReactorHandles == Spec => []HandledWhereReported
<1>1. Core => HandledWhereReported
  BY DEF Core
<1>. QED  BY <1>1, CoreInit, CoreNext, PTL DEF Spec

-----------------------------------------------------------------------------
(* No open connection is forgotten *)

NoneForgotten == \A f \in Fds : file[f] # None => interest[f] # None

\* With a descriptor left over, an entry is: the watched entries have distinct
\* descriptors, none of them the free one.
LEMMA EntryLeft ==
  ASSUME MaxFd <= MAX_EVENTS, Core, NEW free \in Fds, file[free] = None
  PROVE  FreeSlots # {}
<1> SUFFICES ASSUME FreeSlots = {} PROVE FALSE
  OBVIOUS
<1>0. MaxFd \in Nat \ {0} /\ MAX_EVENTS \in Nat \ {0}
  BY ReactorAssumption
<1> DEFINE fdOf == [k \in Slots |-> g_events[k].fd]
<1>1. \A k \in Slots : g_events[k].status = 1
  BY DEF FreeSlots, Core, TypeOK, Entries
<1>2. fdOf \in [Slots -> Fds \ {free}]
  BY <1>1 DEF Core, WatchedOpen
<1>3. IsFiniteSet(Slots) /\ Cardinality(Slots) = MAX_EVENTS
  BY <1>0, FS_Interval DEF Slots
<1>4. IsFiniteSet(Fds) /\ Cardinality(Fds) = MaxFd
  BY <1>0, FS_Interval DEF Fds
<1>5. IsFiniteSet(Fds \ {free}) /\ Cardinality(Fds \ {free}) = MaxFd - 1
  BY <1>4, FS_RemoveElement
<1>6. PICK j, k \in Slots : j # k /\ fdOf[j] = fdOf[k]
  <2>1. Cardinality(Fds \ {free}) < Cardinality(Slots)
    BY <1>0, <1>3, <1>5
  <2> HIDE DEF fdOf
  <2>. QED  BY <1>2, <1>3, <1>5, <2>1, FS_PigeonHole
<1>. QED  BY <1>1, <1>6, OwnDescriptor DEF Core

LEMMA NoneForgottenNext ==
  ASSUME MaxFd <= MAX_EVENTS, Core, NoneForgotten, [Next]_vars
  PROVE  NoneForgotten'
<1> USE DEF NoneForgotten
<1>1. ASSUME NEW k \in Slots, g_events[k].status = 1, Unwatch(k) PROVE NoneForgotten'
  BY <1>1 DEF Unwatch, Core, TypeOK, WatchedOpen
<1>2. CASE TestSlot
  <2> DEFINE k == IF chekpos = MAX_EVENTS THEN 0 ELSE chekpos
  <2>1. k \in Slots
    BY ReactorAssumption DEF Core, TypeOK, Slots
  <2>2. \/ g_events[k].status = 1 /\ Unwatch(k)
        \/ UNCHANGED <<file, interest>>
    BY <1>2 DEF TestSlot
  <2> HIDE DEF k
  <2>. QED  BY <1>1, <2>1, <2>2
<1>3. CASE AcceptConnection
  <2> DEFINE f == Least(FreeFds)
  <2>1. FreeFds \in SUBSET Nat /\ FreeFds # {}
    BY <1>3, ReactorAssumption DEF AcceptConnection, FreeFds, Fds
  <2>2. f \in Fds /\ file[f] = None
    <3>1. f \in FreeFds
      BY <2>1, LeastIsIn
    <3>. QED  BY <3>1 DEF FreeFds
  <2> DEFINE k == Least(FreeSlots)
  <2>3. FreeSlots # {} /\ FreeSlots \in SUBSET Nat
    BY <2>2, EntryLeft, ReactorAssumption DEF FreeSlots, Slots
  <2>4. k \in Slots
    <3>1. k \in FreeSlots
      BY <2>3, LeastIsIn
    <3>. QED  BY <3>1 DEF FreeSlots
  <2>5. /\ interest' = [interest EXCEPT ![f] = [slot |-> k, events |-> "EPOLLIN"]]
        /\ \E c \in backlog : file' = [file EXCEPT ![f] = c]
    BY <1>3, <2>3 DEF AcceptConnection, Watch
  <2>6. [slot |-> k, events |-> "EPOLLIN"] # None
    BY <2>4, ReactorAssumption
  <2> HIDE DEF f, k
  <2>. QED  BY <2>2, <2>5, <2>6 DEF Core, TypeOK
<1>4. ASSUME NEW k \in Slots, RecvData(k) \/ SendData(k) PROVE NoneForgotten'
  <2>1. PICK event \in {"EPOLLIN", "EPOLLOUT"} :
          interest' = [interest EXCEPT ![g_events[k].fd] = [slot |-> k, events |-> event]]
    BY <1>4 DEF RecvData, SendData, Watch
  <2>2. file' = file
    BY <1>4 DEF RecvData, SendData
  <2>3. [slot |-> k, events |-> event] # None
    BY ReactorAssumption
  <2>. QED  BY <2>1, <2>2, <2>3 DEF Core, TypeOK
<1>5. ASSUME NEW k \in Slots, RecvEnd(k) \/ SendError(k) PROVE NoneForgotten'
  <2>1. Unwatch(k) /\ \E call_back : Calls(k, call_back)
    BY <1>5 DEF RecvEnd, SendError
  <2>. QED  BY <1>1, <2>1, CalledEntry
<1>6. CASE \/ TestDone \/ EpollWait \/ DispatchDone \/ AcceptError \/ Clients \/ UNCHANGED vars
           \/ \E k \in Slots : RecvError(k) \/ SendKilled(k)
  BY <1>6 DEF TestDone, EpollWait, DispatchDone, AcceptError, Clients, RecvError, SendKilled,
              vars, kernelVars
<1>. QED
  BY <1>2, <1>3, <1>4, <1>5, <1>6 DEF Next, Main

\* As long as the process may not have more connections open than the table
\* has entries, the table, the open descriptors and epoll agree.
THEOREM ReactorTableMatches ==
  ASSUME MaxFd <= MAX_EVENTS
  PROVE  Spec => []TableMatchesEpoll
<1>1. Init => NoneForgotten
  BY DEF Init, NoneForgotten
<1>2. Core /\ NoneForgotten => TableMatchesEpoll
  BY DEF Core, WatchedOpen, RegisteredWatched, NoneForgotten, TableMatchesEpoll
<1>3. Core /\ NoneForgotten /\ [Next]_vars => NoneForgotten'
  BY NoneForgottenNext
<1>. QED  BY <1>1, <1>2, <1>3, CoreInit, CoreNext, PTL DEF Spec

-----------------------------------------------------------------------------
(* Requests and replies *)

\* A connection has at most one descriptor.
OneEach == \A f, g \in Fds : file[f] # None /\ file[f] = file[g] => f = g

\* A client that was not accepted yet has no descriptor and was not served.
Waiting ==
  \A c \in Conns :
    /\ peer[c] = "new" => c \notin backlog
    /\ peer[c] = "new" \/ c \in backlog =>
         got[c] = 0 /\ replied[c] = 0 /\ \A f \in Fds : file[f] # c

Served == Core /\ OneEach /\ Waiting

\* No two watched entries are of one connection.
LEMMA OwnConnection ==
  ASSUME Served, NEW j \in Slots, NEW k \in Slots, g_events[j].status = 1, g_events[k].status = 1,
         file[g_events[j].fd] = file[g_events[k].fd]
  PROVE  j = k
<1>1. g_events[j].fd = g_events[k].fd
  BY DEF Served, OneEach, Core, WatchedOpen
<1>. QED  BY <1>1, OwnDescriptor DEF Served, Core

\* Each kind of step, as far as it touches what the invariants speak of.
LEMMA UnwatchStep ==
  ASSUME Core, [Next]_vars,
         TestSlot \/ \E k \in Slots : RecvEnd(k) \/ SendError(k)
  PROVE  /\ UNCHANGED <<backlog, peer, got, replied, sent>>
         /\ \/ UNCHANGED <<g_events, file, inbox>>
            \/ \E k \in Slots :
                 /\ g_events[k].status = 1
                 /\ g_events' = [g_events EXCEPT ![k].status = 0]
                 /\ file' = [file EXCEPT ![g_events[k].fd] = None]
                 /\ inbox' = [c \in Conns |-> IF c = file[g_events[k].fd] THEN 0 ELSE inbox[c]]
                 /\ \A d \in batch' : pc' = "dispatch" => d \in batch /\ d.slot # k
<1>1. CASE TestSlot
  <2> DEFINE k == IF chekpos = MAX_EVENTS THEN 0 ELSE chekpos
  <2>1. k \in Slots /\ pc' # "dispatch"
    BY <1>1, ReactorAssumption DEF TestSlot, Core, TypeOK, Slots
  <2>2. \/ g_events[k].status = 1 /\ Unwatch(k)
        \/ UNCHANGED <<g_events, file, inbox>>
    BY <1>1 DEF TestSlot, tableVars
  <2> HIDE DEF k
  <2>. QED  BY <1>1, <2>1, <2>2 DEF TestSlot, Unwatch, histVars
<1>2. ASSUME NEW k \in Slots, RecvEnd(k) \/ SendError(k)
      PROVE  /\ UNCHANGED <<backlog, peer, got, replied, sent>>
             /\ g_events[k].status = 1
             /\ g_events' = [g_events EXCEPT ![k].status = 0]
             /\ file' = [file EXCEPT ![g_events[k].fd] = None]
             /\ inbox' = [c \in Conns |-> IF c = file[g_events[k].fd] THEN 0 ELSE inbox[c]]
             /\ \A d \in batch' : d \in batch /\ d.slot # k
  <2>1. Unwatch(k) /\ UNCHANGED <<backlog, peer, got, replied, sent>>
    BY <1>2 DEF RecvEnd, SendError, histVars
  <2>2. \E call_back : Calls(k, call_back)
    BY <1>2 DEF RecvEnd, SendError
  <2>3. g_events[k].status = 1 /\ \A d \in batch' : d \in batch /\ d.slot # k
    BY <2>2, CalledEntry
  <2>. QED  BY <2>1, <2>3 DEF Unwatch
<1>. QED  BY <1>1, <1>2

LEMMA AcceptStep ==
  ASSUME Core, AcceptConnection
  PROVE  /\ UNCHANGED <<peer, got, replied, sent, inbox>>
         /\ pc' = "dispatch" /\ pc = "dispatch" /\ batch' \subseteq batch
         /\ \E f \in Fds, c \in backlog :
              /\ file[f] = None /\ file' = [file EXCEPT ![f] = c] /\ backlog' = backlog \ {c}
              /\ \/ UNCHANGED g_events
                 \/ \E k \in Slots :
                      /\ g_events[k].status = 0
                      /\ g_events' = [g_events EXCEPT ![k] =
                           [fd |-> f, events |-> "EPOLLIN", call_back |-> "recv_data",
                            status |-> 1, buf |-> {}]]
<1> DEFINE f == Least(FreeFds)
           k == Least(FreeSlots)
<1>1. FreeFds \in SUBSET Nat /\ FreeFds # {} /\ FreeSlots \in SUBSET Nat
  BY ReactorAssumption DEF AcceptConnection, FreeFds, FreeSlots, Fds, Slots
<1>2. f \in Fds /\ file[f] = None
  <2>1. f \in FreeFds
    BY <1>1, LeastIsIn
  <2>. QED  BY <2>1 DEF FreeFds
<1>3. \/ UNCHANGED g_events
      \/ /\ k \in Slots /\ g_events[k].status = 0
         /\ g_events' = [g_events EXCEPT ![k] =
              [fd |-> f, events |-> "EPOLLIN", call_back |-> "recv_data",
               status |-> 1, buf |-> {}]]
  <2>1. FreeSlots # {} => k \in FreeSlots
    BY <1>1, LeastIsIn
  <2>2. FreeSlots = {} => UNCHANGED g_events
    BY DEF AcceptConnection, tableVars
  <2>3. FreeSlots # {} => g_events' = [g_events EXCEPT ![k] =
          [fd |-> f, events |-> "EPOLLIN", call_back |-> "recv_data", status |-> 1, buf |-> {}]]
    BY DEF AcceptConnection, Watch
  <2> HIDE DEF f, k
  <2>. QED  BY <2>1, <2>2, <2>3 DEF FreeSlots
<1>4. \E c \in backlog : backlog' = backlog \ {c} /\ file' = [file EXCEPT ![f] = c]
  BY DEF AcceptConnection
<1>5. /\ UNCHANGED <<peer, got, replied, sent, inbox>>
      /\ pc' = "dispatch" /\ pc = "dispatch" /\ batch' \subseteq batch
  BY DEF AcceptConnection, CallsAccept, peerVars, histVars
<1> HIDE DEF f, k
<1>. QED  BY <1>2, <1>3, <1>4, <1>5

\* Reverses an entry: what it was set for is done, the other comes next.
Turned(k, call_back, event) ==
  g_events' = [g_events EXCEPT ![k] =
    [fd |-> g_events[k].fd, events |-> event, call_back |-> call_back, status |-> 1, buf |-> {}]]

LEMMA DataStep ==
  ASSUME Core, NEW k \in Slots, RecvData(k) \/ SendData(k)
  PROVE  LET c == file[g_events[k].fd] IN
         /\ c \in Conns /\ g_events[k].status = 1
         /\ UNCHANGED <<file, backlog, peer>>
         /\ pc' = "dispatch" /\ pc = "dispatch" /\ batch' \subseteq batch /\ \A d \in batch' : d.slot # k
         /\ \/ /\ g_events[k].call_back = "recv_data" /\ Turned(k, "send_data", "EPOLLOUT")
               /\ got' = [got EXCEPT ![c] = @ + 1] /\ UNCHANGED <<replied, sent>>
               /\ \E n \in 1 .. inbox[c] : inbox' = [inbox EXCEPT ![c] = @ - n]
            \/ /\ g_events[k].call_back = "send_data" /\ Turned(k, "recv_data", "EPOLLIN")
               /\ replied' = [replied EXCEPT ![c] = @ + 1] /\ UNCHANGED <<got, inbox>>
               /\ sent' = [sent EXCEPT ![c] = @ \cup g_events[k].buf]
<1>1. CASE RecvData(k)
  <2>1. Calls(k, "recv_data")
    BY <1>1 DEF RecvData
  <2>2. /\ pc = "dispatch" /\ g_events[k].status = 1 /\ g_events[k].call_back = "recv_data"
        /\ file[g_events[k].fd] \in Conns
        /\ batch' \subseteq batch /\ \A d \in batch' : d.slot # k
    BY <2>1, CalledEntry
  <2>. QED  BY <1>1, <2>2 DEF RecvData, Watch, Turned
<1>2. CASE SendData(k)
  <2>1. Calls(k, "send_data")
    BY <1>2 DEF SendData
  <2>2. /\ pc = "dispatch" /\ g_events[k].status = 1 /\ g_events[k].call_back = "send_data"
        /\ file[g_events[k].fd] \in Conns
        /\ batch' \subseteq batch /\ \A d \in batch' : d.slot # k
    BY <2>1, CalledEntry
  <2>. QED  BY <1>2, <2>2 DEF SendData, Watch, Turned
<1>. QED  BY <1>1, <1>2

LEMMA QuietStep ==
  ASSUME \/ TestDone \/ EpollWait \/ DispatchDone \/ AcceptError \/ UNCHANGED vars
         \/ \E k \in Slots : RecvError(k) \/ SendKilled(k)
  PROVE  UNCHANGED <<g_events, file, backlog, peer, inbox, got, replied, sent>>
BY DEF TestDone, EpollWait, DispatchDone, AcceptError, RecvError, SendKilled,
       vars, tableVars, kernelVars, peerVars, histVars

LEMMA ServedNext == Served /\ [Next]_vars => Served'
<1> SUFFICES ASSUME Served, [Next]_vars PROVE OneEach' /\ Waiting'
  BY CoreNext DEF Served
<1> USE DEF Served
<1>0. TypeOK
  BY DEF Core
<1>1. CASE TestSlot \/ \E k \in Slots : RecvEnd(k) \/ SendError(k)
  <2>1. /\ UNCHANGED <<backlog, peer, got, replied>>
        /\ \/ UNCHANGED file
           \/ \E f : file' = [file EXCEPT ![f] = None]
    BY <1>1, UnwatchStep
  <2>2. \A g \in Fds : file'[g] = file[g] \/ file'[g] = None
    BY <1>0, <2>1 DEF TypeOK
  <2>3. None \notin Conns
    BY ReactorAssumption
  <2>. QED  BY <2>1, <2>2, <2>3 DEF OneEach, Waiting
<1>2. CASE AcceptConnection
  <2>1. PICK f \in Fds, c \in backlog :
          file[f] = None /\ file' = [file EXCEPT ![f] = c] /\ backlog' = backlog \ {c}
    BY <1>2, AcceptStep
  <2>2. UNCHANGED <<peer, got, replied>>
    BY <1>2, AcceptStep
  <2>3. c \in Conns /\ None \notin Conns /\ \A g \in Fds : file[g] # c
    BY <1>0, ReactorAssumption DEF TypeOK, Waiting
  <2>4. \A g \in Fds : file'[g] = IF g = f THEN c ELSE file[g]
    BY <1>0, <2>1 DEF TypeOK
  <2>. QED  BY <2>1, <2>2, <2>3, <2>4 DEF OneEach, Waiting
<1>3. ASSUME NEW k \in Slots, RecvData(k) \/ SendData(k) PROVE OneEach' /\ Waiting'
  <2> DEFINE c == file[g_events[k].fd]
  <2>1. /\ c \in Conns /\ UNCHANGED <<file, backlog, peer>>
        /\ \A d \in Conns : d # c => got'[d] = got[d] /\ replied'[d] = replied[d]
    BY <1>0, <1>3, DataStep DEF TypeOK
  <2>2. peer[c] # "new" /\ c \notin backlog
    <3>1. g_events[k].fd \in Fds
      BY <1>3, DataStep DEF Core, WatchedOpen
    <3>. QED  BY <2>1, <3>1 DEF Waiting
  <2> HIDE DEF c
  <2>. QED  BY <2>1, <2>2 DEF OneEach, Waiting
<1>4. CASE Clients
  <2>1. UNCHANGED <<file, got, replied>>
    BY <1>4 DEF Clients, histVars
  <2>2. PICK c \in Conns :
          \/ Connect(c)
          \/ /\ c \in backlog \cup {file[f] : f \in Fds}
             /\ Request(c) \/ ReadReply(c) \/ Finish(c) \/ Reset(c)
    BY <1>4 DEF Clients
  <2>3. CASE Connect(c)
    <3>1. /\ peer[c] = "new" /\ peer'[c] = "open" /\ backlog' = backlog \cup {c}
          /\ \A d \in Conns : d # c => peer'[d] = peer[d]
      BY <1>0, <2>3 DEF Connect, TypeOK
    <3>. QED  BY <2>1, <3>1 DEF OneEach, Waiting
  <2>4. CASE Request(c) \/ ReadReply(c) \/ Finish(c) \/ Reset(c)
    <3>1. backlog' = backlog /\ \A d \in Conns : peer'[d] = peer[d] \/ (d = c /\ peer[c] # "new" /\ peer'[d] # "new")
      BY <1>0, <2>4 DEF Request, ReadReply, Finish, Reset, TypeOK
    <3>. QED  BY <2>1, <3>1 DEF OneEach, Waiting
  <2>. QED  BY <2>2, <2>3, <2>4
<1>5. CASE \/ TestDone \/ EpollWait \/ DispatchDone \/ AcceptError \/ UNCHANGED vars
           \/ \E k \in Slots : RecvError(k) \/ SendKilled(k)
  BY <1>5, QuietStep DEF OneEach, Waiting
<1>. QED  BY <1>1, <1>2, <1>3, <1>4, <1>5 DEF Next, Main

LEMMA ServedInit == Init => Served
<1> SUFFICES ASSUME Init PROVE OneEach /\ Waiting
  BY CoreInit DEF Served
<1>. QED  BY ReactorAssumption DEF Init, OneEach, Waiting

LEMMA RepliesNext == Served /\ RepliesFollowRequests /\ [Next]_vars => RepliesFollowRequests'
<1> SUFFICES ASSUME Served, RepliesFollowRequests, [Next]_vars PROVE RepliesFollowRequests'
  OBVIOUS
<1> USE DEF Served, RepliesFollowRequests
<1>0. TypeOK
  BY DEF Core
<1>1. CASE TestSlot \/ \E k \in Slots : RecvEnd(k) \/ SendError(k)
  <2>1. UNCHANGED <<got, replied>>
    BY <1>1, UnwatchStep
  <2>2. CASE UNCHANGED <<g_events, file>>
    BY <2>1, <2>2
  <2>3. ASSUME NEW k \in Slots, g_events[k].status = 1,
               g_events' = [g_events EXCEPT ![k].status = 0],
               file' = [file EXCEPT ![g_events[k].fd] = None]
        PROVE  RepliesFollowRequests'
    <3>1. \A j \in Slots : g_events'[j].status = 1 => j # k /\ g_events'[j] = g_events[j]
      BY <1>0, <2>3 DEF TypeOK, Entries
    <3>2. \A f \in Fds : file'[f] = file[f] \/ file'[f] = None
      BY <1>0, <2>3 DEF TypeOK
    <3>3. \A j \in Slots : g_events[j].status = 1 => g_events[j].fd \in Fds
      BY DEF Core, WatchedOpen
    <3>. QED  BY <2>1, <3>1, <3>2, <3>3, ReactorAssumption
  <2>. QED  BY <1>1, <2>2, <2>3, UnwatchStep
<1>2. CASE AcceptConnection
  <2>1. UNCHANGED <<got, replied>>
    BY <1>2, AcceptStep
  <2>2. PICK f \in Fds, c \in backlog :
          /\ file[f] = None /\ file' = [file EXCEPT ![f] = c]
          /\ \/ UNCHANGED g_events
             \/ \E k \in Slots :
                  /\ g_events[k].status = 0
                  /\ g_events' = [g_events EXCEPT ![k] =
                       [fd |-> f, events |-> "EPOLLIN", call_back |-> "recv_data",
                        status |-> 1, buf |-> {}]]
    BY <1>2, AcceptStep
  <2>3. c \in Conns /\ got[c] = 0 /\ replied[c] = 0
    BY <1>0 DEF TypeOK, Waiting
  <2>4. \A g \in Fds : file'[g] = IF g = f THEN c ELSE file[g]
    BY <1>0, <2>2 DEF TypeOK
  <2>5. \A j \in Slots : g_events[j].status = 1 => g_events[j].fd \in Fds /\ g_events[j].fd # f
    BY <2>2 DEF Core, WatchedOpen
  <2>6. CASE UNCHANGED g_events
    BY <2>1, <2>4, <2>5, <2>6
  <2>7. ASSUME NEW k \in Slots, g_events' = [g_events EXCEPT ![k] =
                 [fd |-> f, events |-> "EPOLLIN", call_back |-> "recv_data", status |-> 1, buf |-> {}]]
        PROVE  RepliesFollowRequests'
    <3>1. /\ g_events'[k].fd = f /\ g_events'[k].call_back = "recv_data"
          /\ \A j \in Slots : j # k => g_events'[j] = g_events[j]
      BY <1>0, <2>7 DEF TypeOK
    <3>2. ASSUME NEW d \in Conns, NEW j \in Slots, g_events'[j].status = 1, file'[g_events'[j].fd] = d
          PROVE  g_events'[j].call_back = "send_data" <=> got[d] = replied[d] + 1
      <4>1. CASE j = k
        BY <2>3, <2>4, <3>1, <3>2, <4>1
      <4>2. CASE j # k
        BY <2>4, <2>5, <3>1, <3>2, <4>2
      <4>. QED  BY <4>1, <4>2
    <3>. QED  BY <2>1, <3>2
  <2>. QED  BY <2>2, <2>6, <2>7
<1>3. ASSUME NEW k \in Slots, RecvData(k) \/ SendData(k) PROVE RepliesFollowRequests'
  <2> DEFINE c == file[g_events[k].fd]
  <2>1. /\ c \in Conns /\ g_events[k].status = 1 /\ file' = file
        /\ \/ /\ g_events[k].call_back = "recv_data" /\ Turned(k, "send_data", "EPOLLOUT")
              /\ got' = [got EXCEPT ![c] = @ + 1] /\ replied' = replied
           \/ /\ g_events[k].call_back = "send_data" /\ Turned(k, "recv_data", "EPOLLIN")
              /\ replied' = [replied EXCEPT ![c] = @ + 1] /\ got' = got
    BY <1>3, DataStep
  <2>2. /\ \A j \in Slots : j # k => g_events'[j] = g_events[j]
        /\ g_events'[k].fd = g_events[k].fd
        /\ \A d \in Conns : d # c => got'[d] = got[d] /\ replied'[d] = replied[d]
    BY <1>0, <2>1 DEF Turned, TypeOK
  <2>3. \A j \in Slots : j # k /\ g_events[j].status = 1 => file[g_events[j].fd] # c
    BY <2>1, OwnConnection
  <2>4. /\ replied[c] \in Nat /\ got[c] \in Nat
        /\ replied[c] <= got[c] /\ got[c] <= replied[c] + 1
        /\ g_events[k].call_back = "send_data" <=> got[c] = replied[c] + 1
    BY <1>0, <2>1 DEF TypeOK
  <2>5. /\ replied'[c] <= got'[c] /\ got'[c] <= replied'[c] + 1
        /\ g_events'[k].call_back = "send_data" <=> got'[c] = replied'[c] + 1
    <3>1. CASE /\ g_events[k].call_back = "recv_data" /\ Turned(k, "send_data", "EPOLLOUT")
               /\ got' = [got EXCEPT ![c] = @ + 1] /\ replied' = replied
      <4>1. got'[c] = got[c] + 1 /\ replied'[c] = replied[c] /\ g_events'[k].call_back = "send_data"
        BY <1>0, <2>1, <3>1 DEF Turned, TypeOK
      <4>. QED  BY <2>4, <3>1, <4>1
    <3>2. CASE /\ g_events[k].call_back = "send_data" /\ Turned(k, "recv_data", "EPOLLIN")
               /\ replied' = [replied EXCEPT ![c] = @ + 1] /\ got' = got
      <4>1. replied'[c] = replied[c] + 1 /\ got'[c] = got[c] /\ g_events'[k].call_back = "recv_data"
        BY <1>0, <2>1, <3>2 DEF Turned, TypeOK
      <4>. QED  BY <2>4, <3>2, <4>1
    <3>. QED  BY <2>1, <3>1, <3>2
  <2> HIDE DEF c
  <2>6. ASSUME NEW d \in Conns PROVE replied'[d] <= got'[d] /\ got'[d] <= replied'[d] + 1
    BY <2>2, <2>5
  <2>7. ASSUME NEW d \in Conns, NEW j \in Slots, g_events'[j].status = 1, file'[g_events'[j].fd] = d
        PROVE  g_events'[j].call_back = "send_data" <=> got'[d] = replied'[d] + 1
    <3>0. c = file[g_events[k].fd]
      BY DEF c
    <3>1. CASE j = k
      BY <2>1, <2>2, <2>5, <2>7, <3>0, <3>1
    <3>2. CASE j # k
      BY <2>1, <2>2, <2>3, <2>7, <3>2
    <3>. QED  BY <3>1, <3>2
  <2>. QED  BY <2>6, <2>7
<1>4. CASE Clients
  BY <1>4 DEF Clients, tableVars, histVars
<1>5. CASE \/ TestDone \/ EpollWait \/ DispatchDone \/ AcceptError \/ UNCHANGED vars
           \/ \E k \in Slots : RecvError(k) \/ SendKilled(k)
  BY <1>5, QuietStep
<1>. QED  BY <1>1, <1>2, <1>3, <1>4, <1>5 DEF Next, Main

\* Each request that is received gets exactly one reply before the next is
\* received, over every sequence of accepts, timeouts and broken connections.
THEOREM ReactorReplies == Spec => []RepliesFollowRequests
<1>1. Init => RepliesFollowRequests
  BY DEF Init, Unused, RepliesFollowRequests
<1>. QED  BY <1>1, ServedInit, ServedNext, RepliesNext, PTL DEF Spec

-----------------------------------------------------------------------------
(* What ends the server *)

CallBacks ==
  \A k \in Slots : g_events[k].status = 1 =>
    (g_events[k].call_back = "recv_data" <=> g_events[k].events = "EPOLLIN")

\* What was reported for receiving can be received until it is.
Pending ==
  pc = "dispatch" =>
    \A e \in batch : e.slot # Listen /\ e.events = "EPOLLIN" => CanRead(e.conn)

Explained == Served /\ CallBacks /\ Pending /\ ExitExplained

LEMMA CallBacksNext == Served /\ CallBacks /\ [Next]_vars => CallBacks'
<1> SUFFICES ASSUME Served, CallBacks, [Next]_vars PROVE CallBacks'
  OBVIOUS
<1> USE DEF Served, CallBacks
<1>0. TypeOK
  BY DEF Core
<1>1. CASE TestSlot \/ \E k \in Slots : RecvEnd(k) \/ SendError(k)
  <2>1. \/ UNCHANGED g_events
        \/ \E k \in Slots : g_events' = [g_events EXCEPT ![k].status = 0]
    BY <1>1, UnwatchStep
  <2>2. \A j \in Slots : g_events'[j].status = 1 => g_events'[j] = g_events[j]
    BY <1>0, <2>1 DEF TypeOK, Entries
  <2>. QED  BY <2>2
<1>2. CASE AcceptConnection
  <2>1. \/ UNCHANGED g_events
        \/ \E k \in Slots, f \in Fds : g_events' = [g_events EXCEPT ![k] =
             [fd |-> f, events |-> "EPOLLIN", call_back |-> "recv_data", status |-> 1, buf |-> {}]]
    BY <1>2, AcceptStep
  <2>. QED  BY <1>0, <2>1 DEF TypeOK
<1>3. ASSUME NEW k \in Slots, RecvData(k) \/ SendData(k) PROVE CallBacks'
  <2>1. Turned(k, "send_data", "EPOLLOUT") \/ Turned(k, "recv_data", "EPOLLIN")
    BY <1>3, DataStep
  <2>. QED  BY <1>0, <2>1 DEF Turned, TypeOK
<1>4. CASE Clients
  BY <1>4 DEF Clients, tableVars
<1>5. CASE \/ TestDone \/ EpollWait \/ DispatchDone \/ AcceptError \/ UNCHANGED vars
           \/ \E k \in Slots : RecvError(k) \/ SendKilled(k)
  BY <1>5, QuietStep
<1>. QED  BY <1>1, <1>2, <1>3, <1>4, <1>5 DEF Next, Main

LEMMA PendingNext == Served /\ Pending /\ [Next]_vars => Pending'
<1> SUFFICES ASSUME Served, Pending, [Next]_vars, pc' = "dispatch",
                    NEW e \in batch', e.slot # Listen, e.events = "EPOLLIN"
             PROVE  CanRead(e.conn)'
  BY DEF Pending
<1> USE DEF Served
<1>0. TypeOK
  BY DEF Core
\* An event left over from before stays good if its connection's inbox and
\* client do.
<1>1. ASSUME pc = "dispatch", e \in batch
      PROVE  /\ CanRead(e.conn) /\ e.slot \in Slots /\ g_events[e.slot].status = 1
             /\ e.conn = file[g_events[e.slot].fd] /\ e.conn \in Conns
             /\ g_events[e.slot].fd \in Fds
  <2>1. e.slot \in Slots
    BY <1>0, <1>1 DEF TypeOK
  <2>2. g_events[e.slot].status = 1 /\ file[g_events[e.slot].fd] = e.conn
    BY <1>1 DEF Core, HandledWhereReported
  <2>3. e.conn \in Conns /\ g_events[e.slot].fd \in Fds
    BY <1>0, <2>1, <2>2 DEF Core, WatchedOpen, TypeOK
  <2>. QED  BY <1>1, <2>1, <2>2, <2>3 DEF Pending
<1>2. CASE TestSlot \/ \E k \in Slots : RecvEnd(k) \/ SendError(k)
  <2>1. pc = "dispatch" /\ e \in batch
    BY <1>2 DEF TestSlot, RecvEnd, SendError, Calls
  <2>2. /\ peer' = peer
        /\ \/ UNCHANGED inbox
           \/ \E k \in Slots :
                /\ g_events[k].status = 1 /\ e.slot # k
                /\ inbox' = [c \in Conns |-> IF c = file[g_events[k].fd] THEN 0 ELSE inbox[c]]
    BY <1>2, UnwatchStep
  <2>3. \A k \in Slots : g_events[k].status = 1 /\ e.slot # k => e.conn # file[g_events[k].fd]
    BY <1>1, <2>1, OwnConnection
  <2>. QED  BY <1>1, <2>1, <2>2, <2>3 DEF CanRead
<1>3. CASE AcceptConnection
  <2>1. pc = "dispatch" /\ e \in batch /\ UNCHANGED <<peer, inbox>>
    BY <1>3, AcceptStep
  <2>. QED  BY <1>1, <2>1 DEF CanRead
<1>4. ASSUME NEW k \in Slots, RecvData(k) \/ SendData(k) PROVE CanRead(e.conn)'
  <2> DEFINE c == file[g_events[k].fd]
  <2>1. /\ pc = "dispatch" /\ e \in batch /\ e.slot # k /\ peer' = peer
        /\ g_events[k].status = 1
        /\ \A d \in Conns : d # c => inbox'[d] = inbox[d]
    BY <1>0, <1>4, DataStep DEF TypeOK
  <2>2. e.conn # c
    BY <1>1, <2>1, OwnConnection
  <2>. QED  BY <1>1, <2>1, <2>2 DEF CanRead
<1>5. CASE EpollWait
  <2>1. batch' = Reported /\ UNCHANGED <<peer, inbox>>
    BY <1>5 DEF EpollWait, peerVars
  <2>2. PICK f \in Fds : /\ Ready(f)
          /\ e = [slot |-> interest[f].slot, events |-> interest[f].events, conn |-> file[f]]
    BY <2>1 DEF Reported
  <2>3. CanRead(file[f])
    BY <2>2 DEF Ready
  <2>. QED  BY <2>1, <2>2, <2>3 DEF CanRead
<1>6. CASE Clients
  <2>1. pc = "dispatch" /\ e \in batch
    BY <1>6 DEF Clients, loopVars
  <2>2. PICK c \in Conns : Connect(c) \/ Request(c) \/ ReadReply(c) \/ Finish(c) \/ Reset(c)
    BY <1>6 DEF Clients
  <2>3. \A d \in Conns : inbox[d] > 0 => inbox'[d] > 0
    BY <1>0, <2>2 DEF TypeOK, Connect, Request, ReadReply, Finish, Reset
  <2>4. \A d \in Conns : peer[d] \in {"finished", "reset", "gone"} =>
                         peer'[d] \in {"finished", "reset", "gone"}
    BY <1>0, <2>2 DEF TypeOK, Connect, Request, ReadReply, Finish, Reset
  <2>. QED  BY <1>1, <2>1, <2>3, <2>4 DEF CanRead
<1>7. CASE \/ TestDone \/ DispatchDone \/ AcceptError \/ UNCHANGED vars
           \/ \E k \in Slots : RecvError(k) \/ SendKilled(k)
  <2>1. pc = "dispatch" /\ e \in batch /\ UNCHANGED <<peer, inbox>>
    BY <1>7 DEF TestDone, DispatchDone, AcceptError, RecvError, SendKilled, Exit,
                vars, loopVars, peerVars
  <2>. QED  BY <1>1, <2>1 DEF CanRead
<1>. QED  BY <1>2, <1>3, <1>4, <1>5, <1>6, <1>7 DEF Next, Main

LEMMA ExitNext == Explained /\ [Next]_vars => ExitExplained'
<1> SUFFICES ASSUME Explained, [Next]_vars, pc' = "exited"
             PROVE  FreeFds' = {} \/ \E c \in Conns : peer'[c] \in {"reset", "gone"}
  BY DEF ExitExplained
<1>0. TypeOK
  BY DEF Explained, Served, Core
<1>1. CASE AcceptError
  BY <1>1 DEF AcceptError, FreeFds, kernelVars
<1>2. ASSUME NEW k \in Slots, RecvError(k)
      PROVE  \E c \in Conns : peer'[c] \in {"reset", "gone"}
  <2> DEFINE c == file[g_events[k].fd]
  <2>1. Calls(k, "recv_data") /\ peer' = peer
    BY <1>2 DEF RecvError, peerVars
  <2>2. /\ pc = "dispatch" /\ g_events[k].status = 1 /\ g_events[k].call_back = "recv_data"
        /\ c \in Conns
        /\ \E e \in batch : e.slot = k /\ e.events = g_events[k].events /\ e.conn = c
    BY <2>1, CalledEntry DEF Explained, Served
  <2>3. CanRead(c)
    BY <2>2, ReactorAssumption DEF Explained, Pending, CallBacks
  <2>4. c # None => inbox[c] = 0 /\ peer[c] \notin {"finished", "gone"}
    BY <1>2 DEF RecvError
  <2>5. c # None
    BY <2>2, ReactorAssumption
  <2>. QED  BY <2>1, <2>2, <2>3, <2>4, <2>5 DEF CanRead
<1>3. ASSUME NEW k \in Slots, SendKilled(k)
      PROVE  \E c \in Conns : peer'[c] \in {"reset", "gone"}
  <2>1. Calls(k, "send_data") /\ peer' = peer /\ peer[file[g_events[k].fd]] = "gone"
    BY <1>3 DEF SendKilled, peerVars
  <2>2. file[g_events[k].fd] \in Conns
    BY <2>1, CalledEntry DEF Explained, Served
  <2>. QED  BY <2>1, <2>2
<1>4. CASE UNCHANGED vars
  <2>1. pc = "exited" /\ peer' = peer
    BY <1>4 DEF vars, loopVars, peerVars
  <2>2. FreeFds' = FreeFds
    BY <1>4 DEF vars, kernelVars, FreeFds
  <2>. QED  BY <2>1, <2>2 DEF Explained, ExitExplained
<1>5. ASSUME pc # "exited",
             TestSlot \/ TestDone \/ EpollWait \/ DispatchDone \/ AcceptConnection \/ Clients
      PROVE  FALSE
  BY <1>5 DEF TestSlot, TestDone, EpollWait, DispatchDone, AcceptConnection, CallsAccept,
              Clients, loopVars
<1>6. ASSUME NEW k \in Slots, RecvData(k) \/ RecvEnd(k) \/ SendData(k) \/ SendError(k) PROVE FALSE
  BY <1>6 DEF RecvData, RecvEnd, SendData, SendError, Calls
<1>. QED  BY <1>1, <1>2, <1>3, <1>4, <1>5, <1>6 DEF Next, Main

\* The server ends only when a client broke its connection off or the process
\* has no descriptor left: no call_back meets anything else it cannot handle.
THEOREM ReactorExits == Spec => []ExitExplained
<1>1. Init => CallBacks /\ Pending /\ ExitExplained
  BY DEF Init, Unused, CallBacks, Pending, ExitExplained
<1>2. Explained /\ [Next]_vars => Explained'
  BY ServedNext, CallBacksNext, PendingNext, ExitNext DEF Explained
<1>3. Explained => ExitExplained
  BY DEF Explained
<1>. QED  BY <1>1, <1>2, <1>3, ServedInit, PTL DEF Spec, Explained

-----------------------------------------------------------------------------
\* The array is cleared whenever an entry is set, and nothing is left in it.
Clean == /\ \A k \in Slots : g_events[k].buf = {}
         /\ \A c \in Conns : sent[c] = {}

\* No client is ever sent what another wrote.
THEOREM ReactorKeepsDataApart == Spec => []NoForeignData
<1>1. Init => Clean
  BY DEF Init, Unused, Clean
<1>2. Served /\ Clean /\ [Next]_vars => Clean'
  <2> SUFFICES ASSUME Served, Clean, [Next]_vars PROVE Clean'
    OBVIOUS
  <2> USE DEF Served, Clean
  <2>0. TypeOK
    BY DEF Core
  <2>1. CASE TestSlot \/ \E k \in Slots : RecvEnd(k) \/ SendError(k)
    <3>1. /\ UNCHANGED sent
          /\ \/ UNCHANGED g_events
             \/ \E k \in Slots : g_events' = [g_events EXCEPT ![k].status = 0]
      BY <2>1, UnwatchStep
    <3>2. ASSUME NEW k \in Slots, g_events' = [g_events EXCEPT ![k].status = 0]
          PROVE  \A j \in Slots : g_events'[j].buf = g_events[j].buf
      BY <2>0, <3>2 DEF TypeOK, Entries
    <3>3. \A j \in Slots : g_events'[j].buf = g_events[j].buf
      BY <3>1, <3>2
    <3>. QED  BY <3>1, <3>3
  <2>2. CASE AcceptConnection
    <3>1. /\ UNCHANGED sent
          /\ \/ UNCHANGED g_events
             \/ \E k \in Slots, f \in Fds : g_events' = [g_events EXCEPT ![k] =
                  [fd |-> f, events |-> "EPOLLIN", call_back |-> "recv_data", status |-> 1, buf |-> {}]]
      BY <2>2, AcceptStep
    <3>. QED  BY <2>0, <3>1 DEF TypeOK
  <2>3. ASSUME NEW k \in Slots, RecvData(k) \/ SendData(k) PROVE Clean'
    <3>1. /\ Turned(k, "send_data", "EPOLLOUT") \/ Turned(k, "recv_data", "EPOLLIN")
          /\ \A d \in Conns : sent'[d] = sent[d] \/ sent'[d] = sent[d] \cup g_events[k].buf
      BY <2>0, <2>3, DataStep DEF TypeOK
    <3>. QED  BY <2>0, <3>1 DEF Turned, TypeOK
  <2>4. CASE Clients
    BY <2>4 DEF Clients, tableVars, histVars
  <2>5. CASE \/ TestDone \/ EpollWait \/ DispatchDone \/ AcceptError \/ UNCHANGED vars
             \/ \E k \in Slots : RecvError(k) \/ SendKilled(k)
    BY <2>5, QuietStep
  <2>. QED  BY <2>1, <2>2, <2>3, <2>4, <2>5 DEF Next, Main
<1>3. Clean => NoForeignData
  BY DEF Clean, NoForeignData
<1>. QED  BY <1>1, <1>2, <1>3, ServedInit, ServedNext, PTL DEF Spec

-----------------------------------------------------------------------------
(* The rotating test for timeouts *)

\* The entry tested next, and how many are tested before entry k is.
Position == IF chekpos = MAX_EVENTS THEN 0 ELSE chekpos
Before(k) == IF k >= Position THEN k - Position ELSE k - Position + MAX_EVENTS

\* The tests before the next epoll_wait, and those of the rounds that a
\* connection of age a has left.
TestsLeft == IF pc = "wait" THEN 0 ELSE IF pc = "test" THEN CHECKS - i ELSE CHECKS
Budget(a) == (TIMEOUT + Rounds - 1 - a) * CHECKS

\* The rotation reaches an entry before its age does the bound.
InTime(k) == age[k] < TIMEOUT + Rounds /\ Before(k) < Budget(age[k]) + TestsLeft
Rotation ==
  /\ pc \in {"wait", "dispatch"} => i = 0
  /\ \A k \in Slots : g_events[k].status = 1 => InTime(k)

LEMMA RoundsReach == Rounds \in Nat \ {0} /\ MAX_EVENTS <= Rounds * CHECKS
<1>0. MAX_EVENTS \in Nat \ {0} /\ CHECKS \in Nat \ {0}
  BY ReactorAssumption
<1> DEFINE n == MAX_EVENTS + CHECKS - 1
           r == n % CHECKS
<1>1. n \in Nat /\ Rounds = n \div CHECKS
  BY <1>0 DEF Rounds
<1>2. n = CHECKS * (n \div CHECKS) + r /\ r \in 0 .. CHECKS - 1 /\ n \div CHECKS \in Int
  <2> HIDE DEF n
  <2>. QED  BY <1>0, <1>1
<1>3. n = CHECKS * Rounds + r /\ Rounds \in Int
  BY <1>1, <1>2
<1> HIDE DEF r
<1>4. MAX_EVENTS <= CHECKS * Rounds
  <2> DEFINE z == CHECKS * Rounds
  <2>1. z \in Int /\ MAX_EVENTS + CHECKS - 1 = z + r
    BY <1>0, <1>3
  <2> HIDE DEF z
  <2>2. MAX_EVENTS <= z
    BY <1>0, <1>2, <2>1
  <2>. QED  BY <2>2 DEF z
<1>5. Rounds > 0
  BY <1>0, <1>3, <1>4
<1>6. CHECKS * Rounds = Rounds * CHECKS
  BY <1>0, <1>3
<1>. QED  BY <1>3, <1>4, <1>5, <1>6

LEMMA BudgetSteps ==
  ASSUME NEW a \in Nat
  PROVE  /\ Budget(a) \in Int /\ Budget(a + 1) = Budget(a) - CHECKS
         /\ a < TIMEOUT => MAX_EVENTS <= Budget(a)
         /\ Budget(a) > 0 => a < TIMEOUT + Rounds - 1
<1>0. CHECKS \in Nat \ {0} /\ TIMEOUT \in Nat \ {0} /\ MAX_EVENTS \in Nat /\ Rounds \in Nat \ {0}
  BY ReactorAssumption, RoundsReach
<1> DEFINE w == TIMEOUT + Rounds - 1 - a
<1>1. w \in Int /\ Budget(a) = w * CHECKS /\ Budget(a + 1) = (w - 1) * CHECKS
  BY <1>0 DEF Budget
<1>2. ASSUME NEW v \in Int
      PROVE  v * CHECKS \in Int /\ (v - 1) * CHECKS = v * CHECKS - CHECKS /\ (v * CHECKS > 0 => v > 0)
  BY <1>0
<1>3. ASSUME NEW v \in Int, v >= Rounds PROVE v * CHECKS >= Rounds * CHECKS
  BY <1>0, <1>3
<1>4. a < TIMEOUT => w >= Rounds
  BY <1>0
<1> HIDE DEF w
<1>5. a < TIMEOUT => w * CHECKS >= Rounds * CHECKS
  BY <1>1, <1>3, <1>4
<1>6. w * CHECKS \in Int /\ Rounds * CHECKS \in Int
  BY <1>0, <1>1
<1>7. a < TIMEOUT => MAX_EVENTS <= w * CHECKS
  BY <1>0, <1>5, <1>6, RoundsReach
<1>8. w * CHECKS > 0 => w > 0
  BY <1>1, <1>2
<1>9. w > 0 => a < TIMEOUT + Rounds - 1
  BY <1>0 DEF w
<1>. QED  BY <1>1, <1>2, <1>7, <1>8, <1>9

LEMMA BeforeRange ==
  ASSUME TypeOK, NEW k \in Slots
  PROVE  /\ Position \in Slots /\ Before(k) \in 0 .. MAX_EVENTS - 1 /\ (Before(k) = 0 => k = Position)
         /\ age[k] \in Nat /\ i \in 0 .. CHECKS
BY ReactorAssumption DEF TypeOK, Position, Before, Slots, MaxAge, Rounds

LEMMA RotationNext == TypeOK /\ Rotation /\ [Next]_vars => Rotation'
<1> SUFFICES ASSUME TypeOK, Rotation, [Next]_vars PROVE Rotation'
  OBVIOUS
<1>0. CHECKS \in Nat \ {0} /\ MAX_EVENTS \in Nat \ {0} /\ TIMEOUT \in Nat \ {0} /\ Rounds \in Nat \ {0}
  BY ReactorAssumption, RoundsReach
\* A step of the dispatch keeps the rotation where it is: an entry is left
\* alone, or it is watched from now on.
<1>1. ASSUME pc = "dispatch", pc' \in {"dispatch", "exited"}, UNCHANGED <<chekpos, i>>,
             \A k \in Slots : g_events'[k].status = 1 =>
               (g_events[k].status = 1 /\ age'[k] = age[k]) \/ age'[k] = 0
      PROVE  Rotation'
  <2>1. i' = 0 /\ TestsLeft' = CHECKS /\ TestsLeft = CHECKS /\ \A k \in Slots : Before(k)' = Before(k)
    BY <1>1 DEF Rotation, TestsLeft, Before, Position
  <2>2. ASSUME NEW k \in Slots, g_events'[k].status = 1 PROVE InTime(k)'
    <3>1. CASE g_events[k].status = 1 /\ age'[k] = age[k]
      <4>1. InTime(k) /\ Budget(age[k])' = Budget(age[k])
        BY <3>1 DEF Rotation, Budget
      <4>. QED  BY <2>1, <3>1, <4>1 DEF InTime
    <3>2. CASE age'[k] = 0
      <4>1. Budget(age[k])' = Budget(0) /\ Budget(0) \in Int /\ MAX_EVENTS <= Budget(0)
        BY <1>0, <3>2, BudgetSteps DEF Budget
      <4>2. Before(k) \in 0 .. MAX_EVENTS - 1
        BY BeforeRange
      <4>. QED  BY <1>0, <2>1, <3>2, <4>1, <4>2 DEF InTime
    <3>. QED  BY <1>1, <2>2, <3>1, <3>2
  <2>. QED  BY <2>1, <2>2 DEF Rotation
<1>2. CASE TestSlot
  <2>0. PICK k \in Slots : k = Position
    BY <1>0 DEF Position, Slots, TypeOK
  <2>1. /\ pc = "test" /\ pc' = "test" /\ i' = i + 1 /\ i < CHECKS /\ chekpos' = k + 1
        /\ \/ Unwatch(k)
           \/ UNCHANGED <<g_events, age>> /\ ~ (g_events[k].status = 1 /\ age[k] >= TIMEOUT)
    BY <1>2, <2>0 DEF TestSlot, Position, tableVars
  <2>2. TestsLeft' = TestsLeft - 1 /\ TestsLeft \in Nat /\ TestsLeft' \in Nat
    BY <1>0, <2>1, BeforeRange DEF TestsLeft, TypeOK
  <2>3. ASSUME NEW j \in Slots, j # k, g_events'[j].status = 1 PROVE InTime(j)'
    <3>1. g_events'[j] = g_events[j] /\ age'[j] = age[j]
      BY <2>1, <2>3 DEF Unwatch, TypeOK
    <3>2. Before(j)' = Before(j) - 1
      BY <1>0, <2>0, <2>1, <2>3 DEF Before, Position, Slots, TypeOK
    <3>3. InTime(j) /\ Budget(age[j])' = Budget(age[j])
      BY <2>3, <3>1 DEF Rotation, Budget
    <3>4. Before(j) \in Int /\ Budget(age[j]) \in Int
      BY BeforeRange, BudgetSteps
    <3>. QED  BY <2>2, <3>1, <3>2, <3>3, <3>4 DEF InTime
  <2>4. ASSUME g_events'[k].status = 1 PROVE InTime(k)'
    <3>2. /\ g_events[k].status = 1 /\ age'[k] = age[k] /\ age[k] \in Nat /\ age[k] < TIMEOUT
      <4>1. ~ Unwatch(k)
        BY <2>4 DEF Unwatch, TypeOK, Entries
      <4>2. age[k] \in Nat
        BY BeforeRange
      <4>. QED  BY <1>0, <2>1, <2>4, <4>1, <4>2
    <3>3. Budget(age[k])' = Budget(age[k]) /\ Budget(age[k]) \in Int /\ MAX_EVENTS <= Budget(age[k])
      BY <3>2, BudgetSteps DEF Budget
    <3>4. Before(k)' = MAX_EVENTS - 1
      <4>1. Position' = IF k + 1 = MAX_EVENTS THEN 0 ELSE k + 1
        BY <2>1 DEF Position
      <4>2. Before(k)' = IF k >= Position' THEN k - Position' ELSE k - Position' + MAX_EVENTS
        BY DEF Before
      <4>. QED  BY <1>0, <4>1, <4>2 DEF Slots
    <3>. QED  BY <1>0, <2>2, <3>2, <3>3, <3>4 DEF InTime
  <2>. QED  BY <2>1, <2>3, <2>4 DEF Rotation
<1>3. CASE TestDone \/ DispatchDone
  <2>1. /\ i' = 0 /\ TestsLeft' = TestsLeft /\ pc' \in {"wait", "test"}
        /\ UNCHANGED <<g_events, age, chekpos>>
    BY <1>0, <1>3 DEF TestDone, DispatchDone, TestsLeft, Rotation, tableVars
  <2>. QED  BY <2>1 DEF Rotation, InTime, Before, Position, Budget
<1>4. CASE EpollWait
  <2>1. /\ pc = "wait" /\ pc' = "dispatch" /\ i' = i /\ chekpos' = chekpos /\ g_events' = g_events
        /\ \A k \in Slots : age'[k] = age[k] \/ age'[k] = age[k] + 1
    <3>1. PICK seconds \in {0, 1} : age' = [k \in Slots |->
            IF g_events[k].status = 1 /\ age[k] < MaxAge THEN age[k] + seconds ELSE age[k]]
      BY <1>4 DEF EpollWait
    <3>2. \A k \in Slots : age[k] \in Nat
      BY BeforeRange
    <3>3. \A k \in Slots : age'[k] = age[k] \/ age'[k] = age[k] + 1
      BY <3>1, <3>2
    <3>. QED  BY <1>4, <3>3 DEF EpollWait
  <2>2. TestsLeft = 0 /\ TestsLeft' = CHECKS /\ i' = 0
    BY <2>1 DEF TestsLeft, Rotation
  <2>3. ASSUME NEW k \in Slots, g_events[k].status = 1 PROVE InTime(k)'
    <3>1. InTime(k) /\ Before(k)' = Before(k) /\ Before(k) \in Nat /\ age[k] \in Nat
      BY <2>1, <2>3, BeforeRange DEF Rotation, Before, Position
    <3>2. /\ Budget(age[k]) \in Int /\ Budget(age[k] + 1) = Budget(age[k]) - CHECKS
          /\ Budget(age[k]) > 0 => age[k] < TIMEOUT + Rounds - 1
      BY <3>1, BudgetSteps
    <3>3. Before(k) < Budget(age[k]) /\ age[k] < TIMEOUT + Rounds - 1
      BY <2>2, <3>1, <3>2 DEF InTime
    <3>4. Budget(age[k])' = Budget(age'[k])
      BY DEF Budget
    <3>5. CASE age'[k] = age[k]
      BY <1>0, <2>2, <3>1, <3>2, <3>3, <3>4, <3>5 DEF InTime
    <3>6. CASE age'[k] = age[k] + 1
      <4>1. age'[k] < TIMEOUT + Rounds
        BY <1>0, <3>1, <3>3, <3>6
      <4>2. Before(k) < Budget(age'[k]) + CHECKS
        BY <1>0, <3>1, <3>2, <3>3, <3>6
      <4>. QED  BY <2>2, <3>1, <3>4, <4>1, <4>2 DEF InTime
    <3>. QED  BY <2>1, <3>5, <3>6
  <2>. QED  BY <2>1, <2>2, <2>3 DEF Rotation
<1>5. CASE AcceptConnection
  <2>1. /\ pc = "dispatch" /\ pc' = pc /\ UNCHANGED <<chekpos, i>>
        /\ \/ UNCHANGED <<g_events, age>>
           \/ \E k, f, buf : Watch(k, f, "recv_data", "EPOLLIN", buf)
    BY <1>5 DEF AcceptConnection, CallsAccept, tableVars
  <2>. QED  BY <1>1, <2>1 DEF Watch, TypeOK
<1>6. ASSUME NEW k \in Slots, RecvData(k) \/ SendData(k) PROVE Rotation'
  <2>1. /\ pc = "dispatch" /\ pc' = pc /\ UNCHANGED <<chekpos, i>>
        /\ \E f, call_back, event, buf : Watch(k, f, call_back, event, buf)
    BY <1>6 DEF RecvData, SendData, Calls
  <2>. QED  BY <1>1, <2>1 DEF Watch, TypeOK
<1>7. ASSUME NEW k \in Slots, RecvEnd(k) \/ SendError(k) PROVE Rotation'
  <2>1. pc = "dispatch" /\ pc' = pc /\ UNCHANGED <<chekpos, i>> /\ Unwatch(k)
    BY <1>7 DEF RecvEnd, SendError, Calls
  <2>2. \A j \in Slots : g_events'[j].status = 1 => g_events[j].status = 1 /\ age'[j] = age[j]
    BY <2>1 DEF Unwatch, TypeOK, Entries
  <2>. QED  BY <1>1, <2>1, <2>2
<1>8. CASE AcceptError \/ \E k \in Slots : RecvError(k) \/ SendKilled(k)
  <2>1. pc = "dispatch" /\ pc' = "exited" /\ UNCHANGED <<chekpos, i, g_events, age>>
    BY <1>8 DEF AcceptError, CallsAccept, RecvError, SendKilled, Calls, Exit, tableVars
  <2>. QED  BY <1>1, <2>1
<1>9. CASE Clients \/ UNCHANGED vars
  <2>1. UNCHANGED <<g_events, age, pc, chekpos, i>>
    BY <1>9 DEF Clients, vars, tableVars, loopVars
  <2>. QED  BY <2>1 DEF Rotation, InTime, Before, Position, Budget, TestsLeft
<1>. QED
  BY <1>2, <1>3, <1>4, <1>5, <1>6, <1>7, <1>8, <1>9 DEF Next, Main

\* No connection is silent for TIMEOUT seconds and the rounds of one rotation,
\* whatever the size of the table and however few of its entries a round tests.
THEOREM ReactorIdleBounded == Spec => []IdleBounded
<1>1. Init => Rotation
  BY DEF Init, Unused, Rotation
<1>2. Rotation => IdleBounded
  BY DEF Rotation, InTime, IdleBounded
<1>. QED  BY <1>1, <1>2, TypeInit, TypeNext, RotationNext, PTL DEF Spec
=============================================================================

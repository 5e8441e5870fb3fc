---------------------------- MODULE EpollReactor ----------------------------
(***************************************************************************)
(* epoll-reactor.c: one thread that serves non-blocking connections from   *)
(* a table g_events, closes those that were silent for too long, and       *)
(* answers each request with one reply.                                    *)
(*                                                                         *)
(* The loop is single-threaded: a call_back is one step, one iteration of  *)
(* the timeout loop another, and clients act between them.  What the       *)
(* kernel keeps (open files, epoll's interest list, socket buffers) is     *)
(* modelled as far as the program's system calls show it.  The last entry  *)
(* of g_events, the listening socket, never changes: Listen stands for it. *)
(***************************************************************************)
EXTENDS Integers, FiniteSetsExt

CONSTANTS
  MAX_EVENTS,   \* connections the table can hold
  CHECKS,       \* table entries tested for timeout in one round (100)
  TIMEOUT,      \* seconds of silence after which a connection is closed (60)
  Conns,        \* connections that clients open
  MaxFd,        \* how many connections the process may have open (RLIMIT_NOFILE)
  MaxRequests,  \* bound on the requests received and to be received, of all clients
  Room,         \* replies that fit in a socket's send buffer
  MayReset,     \* TRUE: clients may also break a connection off
  None, Listen

Slots == 0 .. MAX_EVENTS - 1
Fds == 1 .. MaxFd
Rounds == (MAX_EVENTS + CHECKS - 1) \div CHECKS   \* rounds to test all entries
MaxAge == TIMEOUT + Rounds                        \* ages are counted up to here

ASSUME ReactorAssumption ==
  /\ MAX_EVENTS \in Nat \ {0} /\ CHECKS \in Nat \ {0} /\ TIMEOUT \in Nat \ {0}
  /\ MaxFd \in Nat \ {0} /\ MaxRequests \in Nat /\ Room \in Nat \ {0}
  /\ MayReset \in BOOLEAN
  /\ None \notin Conns \cup [slot : Slots, events : {"EPOLLIN", "EPOLLOUT"}]
  /\ Listen \notin Slots

VARIABLES
  g_events,   \* per entry: fd, events, call_back, status, and in buf the
              \* connections of which it may hold data
  age,        \* per entry: time(NULL) - last_active
  pc,         \* main: "test", "wait", "dispatch", or "exited"
  chekpos, i, \* position and iteration of the timeout loop
  batch,      \* events of epoll_wait not handled yet, with their connection
  file,       \* kernel: the connection behind each descriptor
  interest,   \* kernel: epoll's entry for each descriptor
  backlog,    \* kernel: connections that wait for accept
  peer,       \* each client: "new", "open", "finished" (sent its last data),
              \* "reset" (broke off), "gone" (broke off after its last data)
  inbox,      \* requests that arrived and were not received
  unread,     \* replies that were sent and the client has not read
  got, replied, sent   \* history: recv and send calls, and whose data was sent

tableVars == <<g_events, age>>
loopVars == <<pc, chekpos, i, batch>>
kernelVars == <<file, interest, backlog>>
peerVars == <<peer, inbox, unread>>
histVars == <<got, replied, sent>>
vars == <<tableVars, loopVars, kernelVars, peerVars, histVars>>

Unused == [fd |-> 0, events |-> "none", call_back |-> "none", status |-> 0, buf |-> {}]

Init ==
  /\ g_events = [k \in Slots |-> Unused] /\ age = [k \in Slots |-> 0]
  /\ pc = "test" /\ chekpos = 0 /\ i = 0 /\ batch = {}
  /\ file = [f \in Fds |-> None] /\ interest = [f \in Fds |-> None]
  /\ backlog = {} /\ peer = [c \in Conns |-> "new"]
  /\ inbox = [c \in Conns |-> 0] /\ unread = [c \in Conns |-> 0]
  /\ got = [c \in Conns |-> 0] /\ replied = [c \in Conns |-> 0]
  /\ sent = [c \in Conns |-> {}]

-----------------------------------------------------------------------------
(* The table and epoll *)

\* Mutant: the array, which holds buf, is not cleared.
WatchKeepsData(k, f, call_back, event, buf) ==
  /\ g_events' = [g_events EXCEPT ![k] =
       [fd |-> f, events |-> event, call_back |-> call_back, status |-> 1, buf |-> buf]]
  /\ age' = [age EXCEPT ![k] = 0]
  /\ interest' = [interest EXCEPT ![f] = [slot |-> k, events |-> event]]

\* event_set, then event_add: the array, which holds buf, is cleared.
Watch(k, f, call_back, event, buf) ==
  /\ g_events' = [g_events EXCEPT ![k] =
       [fd |-> f, events |-> event, call_back |-> call_back, status |-> 1, buf |-> {}]]
  /\ age' = [age EXCEPT ![k] = 0]
  /\ interest' = [interest EXCEPT ![f] = [slot |-> k, events |-> event]]

\* Mutant: the entry stays marked as watched.
UnwatchKeepsStatus(k) ==
  LET f == g_events[k].fd IN
  /\ age' = [age EXCEPT ![k] = 0]
  /\ file' = [file EXCEPT ![f] = None]
  /\ interest' = [interest EXCEPT ![f] = None]
  /\ UNCHANGED <<g_events, inbox, unread>>

\* event_del around a close: the kernel forgets a closed descriptor by itself,
\* and what its buffers held.
Unwatch(k) ==
  LET f == g_events[k].fd IN
  /\ g_events' = [g_events EXCEPT ![k].status = 0]
  /\ age' = [age EXCEPT ![k] = 0]
  /\ file' = [file EXCEPT ![f] = None]
  /\ interest' = [interest EXCEPT ![f] = None]
  /\ inbox' = [c \in Conns |-> IF c = file[f] THEN 0 ELSE inbox[c]]
  /\ unread' = [c \in Conns |-> IF c = file[f] THEN 0 ELSE unread[c]]

Exit == pc' = "exited"

-----------------------------------------------------------------------------
(* main: the timeout loop *)

\* Mutants: every round starts with the first entry; i is not set to 0.
TestDoneRestarts ==
  /\ pc = "test" /\ i = CHECKS
  /\ pc' = "wait" /\ i' = 0 /\ chekpos' = 0
  /\ UNCHANGED <<tableVars, batch, kernelVars, peerVars, histVars>>

TestDoneKeepsI ==
  /\ pc = "test" /\ i = CHECKS
  /\ pc' = "wait"
  /\ UNCHANGED <<tableVars, chekpos, i, batch, kernelVars, peerVars, histVars>>

TestDone ==
  /\ pc = "test" /\ i = CHECKS
  /\ pc' = "wait" /\ i' = 0
  /\ UNCHANGED <<tableVars, chekpos, batch, kernelVars, peerVars, histVars>>

\* Mutants: <= for <; timeouts are also tested between epoll_wait and dispatch.
TestSlotOnceMore ==
  LET k == IF chekpos = MAX_EVENTS THEN 0 ELSE chekpos IN
  /\ pc = "test" /\ i <= CHECKS
  /\ i' = i + 1 /\ chekpos' = k + 1
  /\ IF g_events[k].status = 1 /\ age[k] >= TIMEOUT
     THEN Unwatch(k)
     ELSE UNCHANGED <<tableVars, file, interest, inbox, unread>>
  /\ UNCHANGED <<pc, batch, backlog, peer, histVars>>

TestSlotLate ==
  LET k == IF chekpos = MAX_EVENTS THEN 0 ELSE chekpos IN
  /\ pc \in {"test", "dispatch"} /\ i < CHECKS
  /\ i' = i + 1 /\ chekpos' = k + 1
  /\ IF g_events[k].status = 1 /\ age[k] >= TIMEOUT
     THEN Unwatch(k)
     ELSE UNCHANGED <<tableVars, file, interest, inbox, unread>>
  /\ UNCHANGED <<pc, batch, backlog, peer, histVars>>

\* One iteration; the entry tested is always one of a connection.
TestSlot ==
  LET k == IF chekpos = MAX_EVENTS THEN 0 ELSE chekpos IN
  /\ pc = "test" /\ i < CHECKS
  /\ i' = i + 1 /\ chekpos' = k + 1
  /\ IF g_events[k].status = 1 /\ age[k] >= TIMEOUT
     THEN Unwatch(k)
     ELSE UNCHANGED <<tableVars, file, interest, inbox, unread>>
  /\ UNCHANGED <<pc, batch, backlog, peer, histVars>>

-----------------------------------------------------------------------------
(* main: epoll_wait and the dispatch of what it reports *)

CanRead(c)  == inbox[c] > 0 \/ peer[c] \in {"finished", "reset", "gone"}
CanWrite(c) == unread[c] < Room \/ peer[c] \in {"reset", "gone"}

\* What epoll reports of a descriptor: the event it is registered for.
Ready(f) ==
  /\ interest[f] # None
  /\ \/ interest[f].events = "EPOLLIN" /\ CanRead(file[f])
     \/ interest[f].events = "EPOLLOUT" /\ CanWrite(file[f])

Reported ==
  {[slot |-> interest[f].slot, events |-> interest[f].events, conn |-> file[f]] :
     f \in {g \in Fds : Ready(g)}}
  \cup (IF backlog # {} THEN {[slot |-> Listen, events |-> "EPOLLIN", conn |-> None]} ELSE {})

\* epoll_wait waits a second when it has nothing to report; a second may also
\* pass when it has, but no more than one in a round.
EpollWait ==
  /\ pc = "wait" /\ pc' = "dispatch"
  /\ batch' = Reported
  /\ \E seconds \in IF Reported = {} THEN {1} ELSE {0, 1} :
       age' = [k \in Slots |->
         IF g_events[k].status = 1 /\ age[k] < MaxAge THEN age[k] + seconds ELSE age[k]]
  /\ UNCHANGED <<g_events, chekpos, i, kernelVars, peerVars, histVars>>

\* The batch is handled; an event its entry is not set for is skipped.
DispatchDone ==
  /\ pc = "dispatch" /\ pc' = "test" /\ batch' = {}
  /\ \A e \in batch : e.slot # Listen /\ g_events[e.slot].events # e.events
  /\ UNCHANGED <<tableVars, chekpos, i, kernelVars, peerVars, histVars>>

\* The main loop is about to run the call_back of entry k.
Calls(k, call_back) ==
  /\ pc = "dispatch"
  /\ \E e \in batch :
       /\ e.slot = k /\ g_events[k].events = e.events /\ batch' = batch \ {e}
  /\ g_events[k].call_back = call_back

-----------------------------------------------------------------------------
(* accept_connection *)

FreeSlots == {k \in Slots : g_events[k].status = 0}
FreeFds == {f \in Fds : file[f] = None}
Least(S) == CHOOSE x \in S : \A y \in S : x <= y

CallsAccept ==
  /\ pc = "dispatch"
  /\ \E e \in batch : e.slot = Listen /\ batch' = batch \ {e}

\* Mutant: accept_connection waits for a free entry, which only this thread frees.
AcceptConnectionWaits ==
  /\ CallsAccept /\ FreeFds # {} /\ FreeSlots # {}
  /\ \E c \in backlog :
       /\ backlog' = backlog \ {c}
       /\ file' = [file EXCEPT ![Least(FreeFds)] = c]
  /\ Watch(Least(FreeSlots), Least(FreeFds), "recv_data", "EPOLLIN", g_events[Least(FreeSlots)].buf)
  /\ UNCHANGED <<pc, chekpos, i, peerVars, histVars>>

\* With the table full the new connection is left as accept returned it.
AcceptConnection ==
  /\ CallsAccept /\ FreeFds # {}
  /\ \E c \in backlog :
       /\ backlog' = backlog \ {c}
       /\ file' = [file EXCEPT ![Least(FreeFds)] = c]
  /\ IF FreeSlots # {}
     THEN Watch(Least(FreeSlots), Least(FreeFds), "recv_data", "EPOLLIN", g_events[Least(FreeSlots)].buf)
     ELSE UNCHANGED <<tableVars, interest>>
  /\ UNCHANGED <<pc, chekpos, i, peerVars, histVars>>

\* accept fails when the process has no descriptor left.
AcceptError ==
  /\ CallsAccept /\ FreeFds = {} /\ Exit
  /\ UNCHANGED <<tableVars, chekpos, i, kernelVars, peerVars, histVars>>

-----------------------------------------------------------------------------
(* recv_data *)

RecvData(k) ==
  LET c == file[g_events[k].fd] IN
  /\ Calls(k, "recv_data")
  /\ c # None /\ inbox[c] > 0
  /\ \E n \in 1 .. inbox[c] : inbox' = [inbox EXCEPT ![c] = @ - n]
  /\ got' = [got EXCEPT ![c] = @ + 1]
  /\ Watch(k, g_events[k].fd, "send_data", "EPOLLOUT", g_events[k].buf \cup {c})
  /\ UNCHANGED <<pc, chekpos, i, file, backlog, peer, unread, replied, sent>>

RecvEnd(k) ==
  LET c == file[g_events[k].fd] IN
  /\ Calls(k, "recv_data")
  /\ c # None /\ inbox[c] = 0 /\ peer[c] \in {"finished", "gone"}
  /\ Unwatch(k)
  /\ UNCHANGED <<pc, chekpos, i, backlog, peer, histVars>>

\* Mutant: the end of the connection is taken for an error.
RecvErrorAtEnd(k) ==
  LET c == file[g_events[k].fd] IN
  /\ Calls(k, "recv_data")
  /\ c # None => inbox[c] = 0
  /\ Exit
  /\ UNCHANGED <<tableVars, chekpos, i, kernelVars, peerVars, histVars>>

\* Any error, and nothing to receive is one, ends the program.
RecvError(k) ==
  LET c == file[g_events[k].fd] IN
  /\ Calls(k, "recv_data")
  /\ c # None => inbox[c] = 0 /\ peer[c] \notin {"finished", "gone"}
  /\ Exit
  /\ UNCHANGED <<tableVars, chekpos, i, kernelVars, peerVars, histVars>>

-----------------------------------------------------------------------------
(* send_data: the whole array goes out, however much of it was received *)

\* Mutant: the entry is not set back to receiving.
SendDataAgain(k) ==
  LET c == file[g_events[k].fd] IN
  /\ Calls(k, "send_data")
  /\ c # None /\ unread[c] < Room /\ peer[c] \notin {"reset", "gone"}
  /\ unread' = [unread EXCEPT ![c] = @ + 1]
  /\ replied' = [replied EXCEPT ![c] = @ + 1]
  /\ sent' = [sent EXCEPT ![c] = @ \cup g_events[k].buf]
  /\ Watch(k, g_events[k].fd, "send_data", "EPOLLOUT", g_events[k].buf)
  /\ UNCHANGED <<pc, chekpos, i, file, backlog, peer, inbox, got>>

SendData(k) ==
  LET c == file[g_events[k].fd] IN
  /\ Calls(k, "send_data")
  /\ c # None /\ unread[c] < Room /\ peer[c] \notin {"reset", "gone"}
  /\ unread' = [unread EXCEPT ![c] = @ + 1]
  /\ replied' = [replied EXCEPT ![c] = @ + 1]
  /\ sent' = [sent EXCEPT ![c] = @ \cup g_events[k].buf]
  /\ Watch(k, g_events[k].fd, "recv_data", "EPOLLIN", g_events[k].buf)
  /\ UNCHANGED <<pc, chekpos, i, file, backlog, peer, inbox, got>>

SendError(k) ==
  LET c == file[g_events[k].fd] IN
  /\ Calls(k, "send_data")
  /\ c # None => peer[c] = "reset" \/ (unread[c] >= Room /\ peer[c] # "gone")
  /\ Unwatch(k)
  /\ UNCHANGED <<pc, chekpos, i, backlog, peer, histVars>>

\* SIGPIPE: the client closed its side, then broke the connection off.
SendKilled(k) ==
  LET c == file[g_events[k].fd] IN
  /\ Calls(k, "send_data")
  /\ c # None /\ peer[c] = "gone"
  /\ Exit
  /\ UNCHANGED <<tableVars, chekpos, i, kernelVars, peerVars, histVars>>

Main ==
  \/ TestSlot \/ TestDone \/ EpollWait \/ DispatchDone
  \/ AcceptConnection \/ AcceptError
  \/ \E k \in Slots : \/ RecvData(k) \/ RecvEnd(k) \/ RecvError(k)
                      \/ SendData(k) \/ SendError(k) \/ SendKilled(k)

-----------------------------------------------------------------------------
(* The clients *)

Connect(c) ==
  /\ peer[c] = "new" /\ peer' = [peer EXCEPT ![c] = "open"]
  /\ backlog' = backlog \cup {c}
  /\ UNCHANGED <<inbox, unread>>

Total(count) == MapThenSumSet(LAMBDA c : count[c], Conns)

Request(c) ==
  /\ peer[c] = "open" /\ Total(got) + Total(inbox) < MaxRequests
  /\ inbox' = [inbox EXCEPT ![c] = @ + 1]
  /\ UNCHANGED <<backlog, peer, unread>>

ReadReply(c) ==
  /\ peer[c] \in {"open", "finished"} /\ unread[c] > 0
  /\ unread' = [unread EXCEPT ![c] = @ - 1]
  /\ UNCHANGED <<backlog, peer, inbox>>

Finish(c) ==
  /\ peer[c] = "open" /\ peer' = [peer EXCEPT ![c] = "finished"]
  /\ UNCHANGED <<backlog, inbox, unread>>

Reset(c) ==
  /\ MayReset
  /\ \/ peer[c] = "open" /\ peer' = [peer EXCEPT ![c] = "reset"]
     \/ peer[c] = "finished" /\ peer' = [peer EXCEPT ![c] = "gone"]
  /\ UNCHANGED <<backlog, inbox, unread>>

\* Once the server has closed a connection its client no longer matters.
Clients ==
  /\ UNCHANGED <<tableVars, loopVars, file, interest, histVars>>
  /\ \E c \in Conns :
       \/ Connect(c)
       \/ /\ c \in backlog \cup {file[f] : f \in Fds}
          /\ Request(c) \/ ReadReply(c) \/ Finish(c) \/ Reset(c)

\* Nothing is modelled after the program has ended.
Next == pc # "exited" /\ (Main \/ Clients)

Spec == Init /\ [][Next]_vars

\* The process runs; what clients do is up to them.
FairSpec == Spec /\ WF_vars(Main)
=============================================================================

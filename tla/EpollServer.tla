----------------------------- MODULE EpollServer -----------------------------
(***************************************************************************)
(* server-epoll.c: one thread, level-triggered epoll, blocking sockets.    *)
(* The loop over the bytes read uses the variable i of the loop over the   *)
(* events, so what is handled next depends on how much was read.           *)
(***************************************************************************)
EXTENDS EchoKernel

\* ep holds the events of the last epoll_wait, watched is epoll's interest list.
EpollInit ==
  pc = "wait" /\ mem = [ep |-> <<>>, i |-> 0, watched |-> {LISTEN}, fd |-> LISTEN, buf |-> <<>>]

\* Events come in any order.
EpollWait ==
  /\ At({"epoll"}, "wait") /\ pc' = "dispatch"
  /\ LET due == {f \in mem.watched : Ready(f)} IN
     due # {} /\ \E ep \in SetToSeqs(due) : mem' = [mem EXCEPT !.ep = ep, !.i = 0]
  /\ UNCHANGED <<ending, sockets, stream>>

EpollBatchDone ==
  /\ At({"epoll"}, "dispatch") /\ mem.i >= Len(mem.ep)
  /\ pc' = "wait" /\ mem' = [mem EXCEPT !.ep = <<>>, !.i = 0]
  /\ UNCHANGED <<ending, sockets, stream>>

Handling == At({"epoll"}, "dispatch") /\ mem.i < Len(mem.ep)
Handled == mem.ep[mem.i + 1]

EpollAccept ==
  /\ Handling /\ Handled = LISTEN /\ \E c \in Conns : Accepts(c)
  /\ mem' = [mem EXCEPT !.watched = @ \cup {NewFd}, !.i = @ + 1]
  /\ UNCHANGED <<pc, ending, closed, stream>>

EpollRead ==
  /\ Handling /\ Handled # LISTEN /\ Serves(Handled)
  /\ mem' = [mem EXCEPT !.fd = Handled, !.buf = Arrived(file[Handled], MAXLINE)]

\* i ends the inner loop as the number of bytes and is then increased.
EpollReply ==
  /\ Replies({"epoll"}) /\ pc' = "dispatch"
  /\ mem' = [mem EXCEPT !.i = Len(mem.buf) + 1, !.fd = LISTEN, !.buf = <<>>]

EpollClose ==
  /\ Handling /\ Handled # LISTEN /\ file[Handled] # None /\ AtEnd(file[Handled])
  /\ Closes(Handled) /\ mem' = [mem EXCEPT !.watched = @ \ {Handled}, !.i = @ + 1]
  /\ UNCHANGED <<pc, ending, stream>>

\* Any error of read ends the program; so does an event that is handled again
\* after its descriptor was closed.
EpollReadFails ==
  /\ Handling /\ Handled # LISTEN /\ file[Handled] # None /\ Failing(file[Handled])
  /\ Ends("read error")
EpollBadDescriptor ==
  /\ Handling /\ Handled # LISTEN /\ file[Handled] = None
  /\ Ends("bad descriptor")

Epoll ==
  \/ EpollWait \/ EpollBatchDone \/ EpollAccept \/ EpollRead \/ EpollReply
  \/ EpollClose \/ EpollReadFails \/ EpollBadDescriptor
=============================================================================

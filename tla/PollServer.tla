------------------------------ MODULE PollServer ------------------------------
(***************************************************************************)
(* server-poll.c: one thread, poll over a table of clients.  The table is  *)
(* on the stack: the revents of an entry are what the stack held before,   *)
(* until poll is called with the entry in its range.                       *)
(***************************************************************************)
EXTENDS EchoKernel

CONSTANT OPEN_MAX   \* entries of the table; entry 0 is the listening socket

ASSUME PollAssumption == OPEN_MAX \in Nat \ {0}

Entries == 1 .. OPEN_MAX - 1

\* revents is the set of entries with POLLIN.
PollInit ==
  /\ pc = "wait"
  /\ \E stack \in SUBSET Entries :
       mem = [client |-> [k \in Entries |-> None], revents |-> stack,
              maxi |-> 0, N |-> 0, i |-> 1, fd |-> LISTEN, buf |-> <<>>]

Due(k) == IF k = 0 THEN Ready(LISTEN) ELSE mem.client[k] # None /\ Ready(mem.client[k])

PollWait ==
  LET due == {k \in 0 .. mem.maxi : Due(k)} IN
  /\ At({"poll"}, "wait") /\ due # {}
  /\ mem' = [mem EXCEPT !.N = Cardinality(due), !.i = 1,
               !.revents = (@ \ (0 .. mem.maxi)) \cup due]
  /\ pc' = IF 0 \in due THEN "accept" ELSE "scan"
  /\ UNCHANGED <<ending, sockets, stream>>

Unused == {k \in Entries : mem.client[k] = None}

\* Mutant: N still counts the listening socket.
PollAcceptKeepsCount ==
  /\ At({"poll"}, "accept") /\ Unused # {} /\ \E c \in Conns : Accepts(c)
  /\ mem' = [mem EXCEPT !.client[Min(Unused)] = NewFd, !.maxi = Max({@, Min(Unused)})]
  /\ pc' = IF mem.N <= 1 THEN "wait" ELSE "scan"
  /\ UNCHANGED <<ending, closed, stream>>

\* Mutant: maxi is not raised.
PollAcceptKeepsMaxi ==
  /\ At({"poll"}, "accept") /\ Unused # {} /\ \E c \in Conns : Accepts(c)
  /\ mem' = [mem EXCEPT !.client[Min(Unused)] = NewFd, !.N = @ - 1]
  /\ pc' = IF mem.N <= 1 THEN "wait" ELSE "scan"
  /\ UNCHANGED <<ending, closed, stream>>

PollAccept ==
  /\ At({"poll"}, "accept") /\ Unused # {} /\ \E c \in Conns : Accepts(c)
  /\ mem' = [mem EXCEPT !.client[Min(Unused)] = NewFd, !.N = @ - 1,
                        !.maxi = Max({@, Min(Unused)})]
  /\ pc' = IF mem.N <= 1 THEN "wait" ELSE "scan"
  /\ UNCHANGED <<ending, closed, stream>>

PollTableFull ==
  /\ At({"poll"}, "accept") /\ Unused = {} /\ backlog # {} /\ FreeFds # {}
  /\ Ends("too many clients")

\* The entries the scan has yet to handle, and the one it comes to.
PollHits == {k \in mem.i .. mem.maxi : mem.client[k] # None /\ k \in mem.revents}
PollHit == mem.client[Min(PollHits)]

\* Mutant: a closed entry stays in use.
PollHandledKeepsEntry(k) ==
  /\ mem' = [mem EXCEPT !.N = @ - 1, !.i = k + 1, !.fd = LISTEN, !.buf = <<>>]
  /\ pc' = IF mem.N = 1 \/ PollHits = {k} THEN "wait" ELSE "scan"
  /\ UNCHANGED ending

\* An entry is handled; after as many as poll counted, or the last, the scan ends.
PollHandled(k) ==
  /\ mem' = [mem EXCEPT !.N = @ - 1, !.i = k + 1, !.fd = LISTEN, !.buf = <<>>,
               !.client[k] = IF PollHit \in FreeFds' THEN None ELSE @]
  /\ pc' = IF mem.N = 1 \/ PollHits = {k} THEN "wait" ELSE "scan"
  /\ UNCHANGED ending

PollRead ==
  /\ At({"poll"}, "scan") /\ Serves(PollHit)
  /\ mem' = [mem EXCEPT !.fd = PollHit, !.buf = Arrived(file[PollHit], MAXLINE)]

PollReply == Replies({"poll"}) /\ PollHandled(Min(PollHits))

\* Every error is taken for ECONNRESET: errno is assigned, not compared.
PollClose ==
  /\ At({"poll"}, "scan") /\ Closes(PollHit)
  /\ \/ AtEnd(file[PollHit]) /\ UNCHANGED stream
     \/ TakesError(file[PollHit])
  /\ PollHandled(Min(PollHits))

Poll ==
  \/ PollWait \/ PollAccept \/ PollTableFull \/ PollRead \/ PollReply
  \/ PollClose
=============================================================================

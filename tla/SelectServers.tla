---------------------------- MODULE SelectServers ----------------------------
(***************************************************************************)
(* server-select.c, which keeps a table of its clients, and                *)
(* server-select-primary.c, which goes through the descriptors.            *)
(***************************************************************************)
EXTENDS EchoKernel

CONSTANT FD_SETSIZE   \* entries of the table

ASSUME SelectAssumption == FD_SETSIZE \in Nat \ {0}

Selects == {"select", "select-primary"}
Tabled == program = "select"

SelectInit ==
  /\ pc = "wait"
  /\ mem = [allset |-> {LISTEN}, rset |-> {}, maxfd |-> LISTEN, N |-> 0, i |-> 0,
            client |-> [k \in 0 .. FD_SETSIZE - 1 |-> None], maxi |-> -1,
            fd |-> LISTEN, buf |-> <<>>]

SelectWait ==
  LET due == {f \in mem.allset : f <= mem.maxfd /\ Ready(f)} IN
  /\ At(Selects, "wait") /\ due # {}
  /\ mem' = [mem EXCEPT !.rset = due, !.N = Cardinality(due), !.i = IF Tabled THEN 0 ELSE 1]
  /\ pc' = IF LISTEN \in due THEN "accept" ELSE "scan"
  /\ UNCHANGED <<ending, sockets, stream>>

UnusedSlots == {k \in DOMAIN mem.client : mem.client[k] = None}

SelectAccept ==
  /\ At(Selects, "accept") /\ UnusedSlots # {} /\ \E c \in Conns : Accepts(c)
  /\ LET watching == [mem EXCEPT !.allset = @ \cup {NewFd}, !.maxfd = Max({@, NewFd})]
         slot == Min(UnusedSlots)
     IN mem' = IF Tabled THEN [watching EXCEPT !.client[slot] = NewFd, !.N = @ - 1,
                                               !.maxi = Max({@, slot})]
               ELSE watching
  /\ pc' = IF mem.N = 1 THEN "wait" ELSE "scan"
  /\ UNCHANGED <<ending, closed, stream>>

SelectTableFull ==
  /\ At(Selects, "accept") /\ UnusedSlots = {} /\ backlog # {} /\ FreeFds # {}
  /\ Ends("too many clients")

\* What is left of the scan: positions in the table, or descriptors.
SelectAt(k) == IF Tabled THEN mem.client[k] ELSE k
SelectHits ==
  {k \in mem.i .. (IF Tabled THEN mem.maxi ELSE mem.maxfd) : SelectAt(k) \in mem.rset \ {LISTEN}}
SelectHit == SelectAt(Min(SelectHits))

\* Mutant: a closed descriptor stays in allset.
SelectHandledKeepsSet(k) ==
  /\ mem' = [mem EXCEPT
       !.i = k + 1, !.N = IF Tabled THEN @ - 1 ELSE @, !.fd = LISTEN, !.buf = <<>>,
       !.client = IF Tabled /\ SelectHit \in FreeFds' THEN [@ EXCEPT ![k] = None] ELSE @]
  /\ pc' = IF (Tabled /\ mem.N = 1) \/ SelectHits = {k} THEN "wait" ELSE "scan"
  /\ UNCHANGED ending

SelectHandled(k) ==
  /\ mem' = [mem EXCEPT
       !.i = k + 1, !.N = IF Tabled THEN @ - 1 ELSE @, !.fd = LISTEN, !.buf = <<>>,
       !.allset = @ \ ({SelectHit} \cap FreeFds'),
       !.client = IF Tabled /\ SelectHit \in FreeFds' THEN [@ EXCEPT ![k] = None] ELSE @]
  /\ pc' = IF (Tabled /\ mem.N = 1) \/ SelectHits = {k} THEN "wait" ELSE "scan"
  /\ UNCHANGED ending

SelectRead ==
  /\ At(Selects, "scan") /\ Serves(SelectHit)
  /\ mem' = [mem EXCEPT !.fd = SelectHit, !.buf = Arrived(file[SelectHit], MAXLINE)]

SelectReply == Replies(Selects) /\ SelectHandled(Min(SelectHits))

SelectClose ==
  /\ At(Selects, "scan") /\ AtEnd(file[SelectHit]) /\ Closes(SelectHit)
  /\ SelectHandled(Min(SelectHits)) /\ UNCHANGED stream

\* A read error is passed over: the connection stays until a read finds its end.
SelectReadFails ==
  /\ At(Selects, "scan") /\ TakesError(file[SelectHit])
  /\ UNCHANGED sockets /\ SelectHandled(Min(SelectHits))

Select ==
  \/ SelectWait \/ SelectAccept \/ SelectTableFull \/ SelectRead
  \/ SelectReply \/ SelectClose \/ SelectReadFails
=============================================================================

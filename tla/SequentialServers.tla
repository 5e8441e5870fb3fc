-------------------------- MODULE SequentialServers --------------------------
(***************************************************************************)
(* Servers that serve one connection at a time: "local",                   *)
(* local-socket-IPC-server.c, accepts the next one when it ends; "simple", *)
(* server-simple.c and server-simple-wrap.c, never leaves the first.       *)
(***************************************************************************)
EXTENDS EchoKernel

Sequentials == {"local", "simple"}

\* server-simple-wrap.c calls accept with an address length it never set.
SequentialInit ==
  /\ pc = "accept"
  /\ \E length \in IF program = "simple" THEN {"usable", "negative"} ELSE {"usable"} :
       mem = [fd |-> LISTEN, buf |-> <<>>, clientaddr_len |-> length]

SequentialAccept ==
  /\ At(Sequentials, "accept") /\ mem.clientaddr_len = "usable" /\ \E c \in Conns : Accepts(c)
  /\ mem' = [mem EXCEPT !.fd = NewFd] /\ pc' = "read"
  /\ UNCHANGED <<ending, closed, stream>>

\* accept finds the length negative when it is to return a connection.
SequentialAcceptFails ==
  /\ At(Sequentials, "accept") /\ mem.clientaddr_len = "negative" /\ backlog # {}
  /\ Ends("accept error")

SequentialRead ==
  /\ At(Sequentials, "read") /\ Serves(mem.fd)
  /\ mem' = [mem EXCEPT !.buf = Arrived(file[mem.fd], MAXLINE)]

SequentialReply == Replies(Sequentials) /\ pc' = "read" /\ mem' = [mem EXCEPT !.buf = <<>>]

LocalClose ==
  /\ At({"local"}, "read") /\ Closes(mem.fd)
  /\ \/ AtEnd(file[mem.fd]) /\ UNCHANGED stream
     \/ TakesError(file[mem.fd])
  /\ pc' = "accept" /\ mem' = [mem EXCEPT !.fd = LISTEN] /\ UNCHANGED ending

\* The simple servers write what read returned, whatever it is: -1 is too long
\* to write, 0 writes nothing, but not to a connection that is gone.
SimpleReadFails ==
  /\ At({"simple"}, "read") /\ TakesError(file[mem.fd])
  /\ UNCHANGED <<pc, mem, ending, sockets>>
SimpleKilled ==
  /\ At({"simple"}, "read") /\ AtEnd(file[mem.fd])
  /\ Dead(file[mem.fd]) /\ Ends("SIGPIPE")

Sequential ==
  \/ SequentialAccept \/ SequentialAcceptFails \/ SequentialRead \/ SequentialReply
  \/ LocalClose \/ SimpleReadFails \/ SimpleKilled
=============================================================================

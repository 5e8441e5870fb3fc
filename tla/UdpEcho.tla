------------------------------- MODULE UdpEcho -------------------------------
(***************************************************************************)
(* UDPServer.c and UDPClient.c: a client sends a line and waits for the    *)
(* answer before the next.  The network reorders datagrams and loses some. *)
(***************************************************************************)
EXTENDS EchoKernel

CONSTANT MayDuplicate   \* TRUE: it also delivers some twice

ASSUME UdpAssumption == MayDuplicate \in BOOLEAN

\* The datagrams under way: [from |-> c, byte |-> k, answer |-> TRUE or FALSE].
UdpInit == pc = "recvfrom" /\ mem = [net |-> {}]

Leaves(d) == IF MayDuplicate THEN {{}, {d}} ELSE {{d}}

\* Mutant: the client does not wait for the answer.
UdpSendAhead(c) ==
  /\ program = "UDP" /\ peer[c] \in {"new", "open"}
  /\ Moves < MaxMoves[program]
  /\ peer' = [peer EXCEPT ![c] = "open"] /\ sent' = [sent EXCEPT ![c] = @ + 1]
  /\ mem' = [mem EXCEPT !.net = @ \cup {[from |-> c, byte |-> sent[c] + 1, answer |-> FALSE]}]
  /\ UNCHANGED <<pc, ending, sockets, taken, got, edge>>

\* fgets found a line; fgets found the end of the input.
UdpSend(c) ==
  /\ program = "UDP" /\ peer[c] \in {"new", "open"} /\ Len(got[c]) = sent[c]
  /\ Moves < MaxMoves[program]
  /\ peer' = [peer EXCEPT ![c] = "open"] /\ sent' = [sent EXCEPT ![c] = @ + 1]
  /\ mem' = [mem EXCEPT !.net = @ \cup {[from |-> c, byte |-> sent[c] + 1, answer |-> FALSE]}]
  /\ UNCHANGED <<pc, ending, sockets, taken, got, edge>>

UdpFinish(c) ==
  /\ program = "UDP" /\ peer[c] \in {"new", "open"} /\ Len(got[c]) = sent[c]
  /\ peer' = [peer EXCEPT ![c] = "finished"]
  /\ UNCHANGED <<pc, mem, ending, sockets, sent, taken, got, edge>>

\* recvfrom and sendto: the answer goes where the datagram came from.
UdpServe ==
  /\ program = "UDP"
  /\ \E d \in mem.net, gone \in SUBSET mem.net :
       /\ ~d.answer /\ gone \in Leaves(d)
       /\ mem' = [mem EXCEPT !.net = (@ \ gone) \cup {[d EXCEPT !.answer = TRUE]}]
       /\ UNCHANGED <<pc, ending, sockets, stream>>

UdpReceive(c) ==
  /\ program = "UDP"
  /\ \E d \in mem.net, gone \in SUBSET mem.net :
       /\ d.answer /\ d.from = c /\ gone \in Leaves(d) /\ Len(got[c]) < sent[c]
       /\ got' = [got EXCEPT ![c] = Append(@, <<d.from, d.byte>>)]
       /\ mem' = [mem EXCEPT !.net = @ \ gone]
       /\ UNCHANGED <<pc, ending, sockets, peer, sent, taken, edge>>

UdpLoses ==
  /\ program = "UDP" /\ \E d \in mem.net : mem' = [mem EXCEPT !.net = @ \ {d}]
  /\ UNCHANGED <<pc, ending, sockets, stream>>

Udp ==
  \/ UdpServe \/ UdpLoses
  \/ \E c \in Conns : UdpSend(c) \/ UdpFinish(c) \/ UdpReceive(c)
=============================================================================

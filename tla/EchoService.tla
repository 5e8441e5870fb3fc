----------------------------- MODULE EchoService -----------------------------
(***************************************************************************)
(* What the example servers promise a client: the bytes it sends come back *)
(* (upper-cased, which changes none of what follows) in their order, each  *)
(* once, and nobody else's; and its connection is not closed before all of *)
(* them came back, unless the client broke it off.                         *)
(***************************************************************************)
EXTENDS Integers, Sequences

CONSTANT Conns   \* connections, one client each

VARIABLES
  sent,     \* how many bytes each client sent; <<c, k>> is the k-th byte of c
  got,      \* the bytes each client got back
  client,   \* "open", "finished" (sends no more) or "broken"
  over      \* connections the server has closed

vars == <<sent, got, client, over>>

Init ==
  /\ sent = [c \in Conns |-> 0] /\ got = [c \in Conns |-> <<>>]
  /\ client = [c \in Conns |-> "open"] /\ over = {}

Send(c) ==
  /\ client[c] = "open" /\ sent' = [sent EXCEPT ![c] = @ + 1]
  /\ UNCHANGED <<got, client, over>>

Leave(c) ==
  /\ \E how \in {"finished", "broken"} : client' = [client EXCEPT ![c] = how]
  /\ client[c] # "broken" /\ UNCHANGED <<sent, got, over>>

Answer(c) ==
  /\ c \notin over
  /\ \E n \in 1 .. sent[c] - Len(got[c]) :
       got' = [got EXCEPT ![c] = @ \o [k \in 1 .. n |-> <<c, Len(@) + k>>]]
  /\ UNCHANGED <<sent, client, over>>

Hangup(c) ==
  /\ c \notin over /\ over' = over \cup {c}
  /\ \/ client[c] = "finished" /\ Len(got[c]) = sent[c]
     \/ client[c] = "broken"
  /\ UNCHANGED <<sent, got, client>>

Next == \E c \in Conns : Send(c) \/ Leave(c) \/ Answer(c) \/ Hangup(c)

Spec == Init /\ [][Next]_vars
=============================================================================

-------------------------- MODULE EchoServiceProofs --------------------------
(***************************************************************************)
(* What the refinement of EchoService is worth, for any number of clients  *)
(* and bytes: the service's behaviours hold these invariants.              *)
(***************************************************************************)
EXTENDS EchoService, TLAPS

TypeInv ==
  /\ sent \in [Conns -> Nat]
  /\ got \in [Conns -> Seq(Conns \X Nat)]
  /\ client \in [Conns -> {"open", "finished", "broken"}]
  /\ over \subseteq Conns

\* Each client has got a beginning of what it sent: its own bytes, in their
\* order, none missing and none twice.
InOrder ==
  \A c \in Conns :
    /\ Len(got[c]) <= sent[c]
    /\ \A k \in 1 .. Len(got[c]) : got[c][k] = <<c, k>>

\* A closed connection of a client that only finished was answered in full.
Complete == \A c \in over : client[c] = "finished" => Len(got[c]) = sent[c]

\* Over connections accept no byte, since their clients no longer send: the
\* strengthening that keeps Complete.
Quiet == \A c \in over : client[c] # "open"

Inv == TypeInv /\ InOrder /\ Complete /\ Quiet

\* Bytes appended in order stay in order.
LEMMA AppendedInOrder ==
  ASSUME NEW c \in Conns, NEW s \in Seq(Conns \X Nat), NEW n \in Nat,
         \A k \in 1 .. Len(s) : s[k] = <<c, k>>
  PROVE  LET t == s \o [k \in 1 .. n |-> <<c, Len(s) + k>>] IN
         /\ t \in Seq(Conns \X Nat) /\ Len(t) = Len(s) + n
         /\ \A k \in 1 .. Len(t) : t[k] = <<c, k>>
<1> DEFINE r == [k \in 1 .. n |-> <<c, Len(s) + k>>]
<1>1. r \in Seq(Conns \X Nat) /\ Len(r) = n
  OBVIOUS
<1>2. s \o r \in Seq(Conns \X Nat) /\ Len(s \o r) = Len(s) + n
  BY <1>1
<1>3. ASSUME NEW k \in 1 .. Len(s) + n
      PROVE  (s \o r)[k] = <<c, k>>
  <2>1. CASE k <= Len(s)
    BY <2>1, <1>1
  <2>2. CASE k > Len(s)
    <3>1. (s \o r)[k] = r[k - Len(s)]
      BY <2>2, <1>1
    <3>2. k - Len(s) \in 1 .. n
      BY <2>2
    <3>. QED  BY <3>1, <3>2
  <2>. QED  BY <2>1, <2>2
<1>. QED  BY <1>2, <1>3

LEMMA InitInv == Init => Inv
BY DEF Init, Inv, TypeInv, InOrder, Complete, Quiet

LEMMA StepInv == Inv /\ [Next]_vars => Inv'
<1> SUFFICES ASSUME Inv, [Next]_vars PROVE Inv'
  OBVIOUS
<1> USE DEF Inv, TypeInv, InOrder, Complete, Quiet
<1>1. ASSUME NEW c \in Conns, Send(c) PROVE Inv'
  <2>1. /\ sent'[c] = sent[c] + 1 /\ sent' \in [Conns -> Nat]
        /\ \A d \in Conns \ {c} : sent'[d] = sent[d]
        /\ UNCHANGED <<got, client, over>> /\ c \notin over
    BY <1>1 DEF Send
  <2>2. ASSUME NEW d \in Conns PROVE Len(got[d]) <= sent'[d]
    <3>1. got[d] \in Seq(Conns \X Nat) /\ sent[d] \in Nat /\ Len(got[d]) <= sent[d]
      OBVIOUS
    <3>2. Len(got[d]) \in Nat
      BY <3>1
    <3>3. sent'[d] = sent[d] \/ sent'[d] = sent[d] + 1
      BY <2>1
    <3>. QED  BY <3>1, <3>2, <3>3
  <2>3. TypeInv' /\ Quiet'
    BY <2>1
  <2>4. InOrder'
    BY <2>1, <2>2
  <2>5. Complete'
    BY <2>1
  <2>. QED  BY <2>3, <2>4, <2>5
<1>2. ASSUME NEW c \in Conns, Leave(c) PROVE Inv'
  BY <1>2 DEF Leave
<1>3. ASSUME NEW c \in Conns, Answer(c) PROVE Inv'
  <2>1. PICK n \in 1 .. sent[c] - Len(got[c]) :
          got' = [got EXCEPT ![c] = got[c] \o [k \in 1 .. n |-> <<c, Len(got[c]) + k>>]]
    BY <1>3 DEF Answer
  <2> DEFINE t == got[c] \o [k \in 1 .. n |-> <<c, Len(got[c]) + k>>]
  <2>2. n \in Nat /\ Len(got[c]) + n <= sent[c]
    OBVIOUS
  <2>3. /\ t \in Seq(Conns \X Nat) /\ Len(t) = Len(got[c]) + n
        /\ \A k \in 1 .. Len(t) : t[k] = <<c, k>>
    BY <2>2, AppendedInOrder
  <2>4. got'[c] = t /\ \A d \in Conns \ {c} : got'[d] = got[d]
    BY <2>1
  <2>5. UNCHANGED <<sent, client, over>> /\ c \notin over
    BY <1>3 DEF Answer
  <2> HIDE DEF t
  <2>6. TypeInv'
    BY <2>1, <2>3, <2>5 DEF t
  <2>7. InOrder'
    BY <2>2, <2>3, <2>4, <2>5
  <2>8. Complete' /\ Quiet'
    BY <2>4, <2>5
  <2>. QED  BY <2>6, <2>7, <2>8
<1>4. ASSUME NEW c \in Conns, Hangup(c) PROVE Inv'
  BY <1>4 DEF Hangup
<1>5. CASE UNCHANGED vars
  BY <1>5 DEF vars
<1>. QED  BY <1>1, <1>2, <1>3, <1>4, <1>5 DEF Next

\* The service never mixes up, repeats or drops bytes of a client, nor closes
\* before all were answered.
THEOREM ServiceKeepsOrder == Spec => [](InOrder /\ Complete)
<1>1. Inv => InOrder /\ Complete
  BY DEF Inv
<1>. QED  BY InitInv, StepInv, <1>1, PTL DEF Spec
=============================================================================

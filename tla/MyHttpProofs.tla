---------------------------- MODULE MyHttpProofs -----------------------------
(***************************************************************************)
(* Proofs about MyHttp for any clients, requests, sizes of lines and files *)
(* and limits of descriptors and buffers.                                  *)
(***************************************************************************)
EXTENDS MyHttpProperties, SequenceTheorems, FiniteSetTheorems, TLAPS

-----------------------------------------------------------------------------
(* Types *)

LEMMA TypeInit == Init => TypeOK
<1> SUFFICES ASSUME Init PROVE TypeOK
  OBVIOUS
<1>1. \A r \in Requests : r \in Seq(Words)
  BY HttpAssumption
<1>2. script \in [Conns -> Seq(Words)] /\ unsent \in [Conns -> Seq(Words)]
  BY <1>1 DEF Init
<1>3. <<>> \in Seq(Words) /\ Len(<<>>) = 0 /\ LINE \in Nat /\ CHUNKS \in Nat /\ Room \in Nat
  BY HttpAssumption
<1>4. /\ inbox \in [Conns -> Seq(Words)] /\ unread \in [Conns -> 0 .. Room]
      /\ sent \in [Conns -> Seq({"head", "404", "page", "chunk"} \X (0 .. CHUNKS))]
      /\ peer \in [Conns -> {"new", "open", "finished", "gone"}]
  BY <1>3 DEF Init
<1>. QED  BY <1>2, <1>3, <1>4 DEF Init, TypeOK, Targets

\* One call of get_line stores a word, and at most LINE of them.
LEMMA TypeRecv ==
  ASSUME TypeOK, HandledWhileOpen, RecvChar
  PROVE  TypeOK'
<1> DEFINE in == inbox[cur]
           w == Head(in)
<1>0. cur \in Conns /\ LINE \in Nat
  BY HttpAssumption DEF HandledWhileOpen, Serving, TypeOK, RecvChar, Reading
<1>1. in \in Seq(Words) /\ in # <<>>
  BY <1>0 DEF TypeOK, RecvChar
<1>2. w \in Words /\ Tail(in) \in Seq(Words)
  BY <1>1, HeadTailProperties
<1>3. buf \in Seq(Words) /\ Len(buf) < LINE
  <2>1. Len(buf) # LINE
    BY DEF RecvChar, Reading, LineDone
  <2>. QED  BY <1>0, <2>1 DEF TypeOK
<1>4. PICK x \in Words : buf' = Append(buf, x)
  <2>1. "lf" \in Words
    BY DEF Words
  <2>. QED  BY <1>2, <2>1 DEF RecvChar
<1>5. /\ buf' \in Seq(Words) /\ Len(buf') <= LINE /\ Last(buf') = x
  <2>1. buf' \in Seq(Words) /\ Len(buf') = Len(buf) + 1 /\ buf'[Len(buf')] = x
    BY <1>3, <1>4, AppendProperties
  <2>. QED  BY <1>0, <1>3, <2>1 DEF Last
<1>6. heard' \in Seq(Words)
  BY <1>4, <1>5, AppendProperties DEF RecvChar, TypeOK
<1>7. inbox' \in [Conns -> Seq(Words)]
  <2>1. PICK rest \in Seq(Words) : inbox' = [inbox EXCEPT ![cur] = rest]
    <3>1. Tail(in) # <<>> => Tail(Tail(in)) \in Seq(Words)
      BY <1>2, HeadTailProperties
    <3>. QED  BY <1>2, <3>1 DEF RecvChar
  <2>. QED  BY <1>0, <2>1 DEF TypeOK
<1>8. n' \in {"data", "end", "again"}
  BY DEF RecvChar, NoData
<1>9. UNCHANGED <<pc, cur, batch, line, target, chunk, open, ready, backlog, script, unsent, peer, unread,
               sent, refused, cut>>
  BY DEF RecvChar, respVars, kernelVars, clientVars, history
<1>. QED  BY <1>5, <1>6, <1>7, <1>8, <1>9 DEF TypeOK

\* A piece of a response is accepted or refused.
LEMMA TypePut ==
  ASSUME TypeOK, NEW piece \in {"head", "404", "page", "chunk"} \X (0 .. CHUNKS), Put(piece)
  PROVE  /\ unread' \in [Conns -> 0 .. Room]
         /\ sent' \in [Conns -> Seq({"head", "404", "page", "chunk"} \X (0 .. CHUNKS))]
         /\ refused' \subseteq refused \cup {cur}
<1>0. Room \in Nat
  BY HttpAssumption
<1>1. CASE unread[cur] < Room /\ sent' = [sent EXCEPT ![cur] = Append(@, piece)]
           /\ unread' = [unread EXCEPT ![cur] = @ + 1] /\ refused' = refused
  <2>1. cur \in Conns => unread[cur] + 1 \in 0 .. Room
    BY <1>0, <1>1 DEF TypeOK
  <2>2. cur \in Conns => Append(sent[cur], piece) \in Seq({"head", "404", "page", "chunk"} \X (0 .. CHUNKS))
    BY AppendProperties DEF TypeOK
  <2>. QED  BY <1>1, <2>1, <2>2 DEF TypeOK
<1>2. CASE UNCHANGED <<sent, unread>> /\ refused' = refused \cup {cur}
  BY <1>2 DEF TypeOK
<1>. QED  BY <1>1, <1>2 DEF Put

LEMMA TypeRespond ==
  ASSUME TypeOK, HandledWhileOpen, SendError \/ SendRespondHead \/ SendDir \/ OpenFile \/ SendChunk
  PROVE  TypeOK'
<1>0. CHUNKS \in Nat
  BY HttpAssumption
<1>1. UNCHANGED <<cur, batch, buf, n, line, heard, target, open, ready, backlog, script, unsent, peer, inbox,
               cut>>
  BY DEF SendError, SendRespondHead, SendDir, OpenFile, SendChunk, PutOrExit,
         readVars, respVars, kernelVars, clientVars, history
<1>2. chunk' \in 0 .. CHUNKS
  BY <1>0 DEF SendError, SendRespondHead, SendDir, OpenFile, SendChunk, TypeOK, respVars
<1>3. pc' \in {"page", "open", "body", "close", "exited"}
  BY DEF SendError, SendRespondHead, SendDir, OpenFile, SendChunk, PutOrExit, Goes
<1>4. \/ UNCHANGED <<sent, unread>> /\ refused' \subseteq refused \cup {cur}
      \/ \E piece \in {"head", "404", "page", "chunk"} \X (0 .. CHUNKS) : Put(piece)
  BY <1>0, <1>2 DEF SendError, SendRespondHead, SendDir, OpenFile, SendChunk, PutOrExit, Piece, Chunk, history
<1>5. /\ unread' \in [Conns -> 0 .. Room]
      /\ sent' \in [Conns -> Seq({"head", "404", "page", "chunk"} \X (0 .. CHUNKS))]
      /\ refused' \subseteq refused \cup {cur}
  BY <1>4, TypePut DEF TypeOK
<1>6. refused' \subseteq Conns
  <2>1. pc \in {"respond", "page", "open", "body"}
    BY DEF SendError, SendRespondHead, SendDir, OpenFile, SendChunk, PutOrExit, Goes
  <2>. QED  BY <1>5, <2>1 DEF HandledWhileOpen, Serving, TypeOK
<1>. QED  BY <1>1, <1>2, <1>3, <1>5, <1>6 DEF TypeOK

LEMMA TypeServer ==
  ASSUME TypeOK, HandledWhileOpen, Server
  PROVE  TypeOK'
<1>0. /\ LINE \in Nat /\ CHUNKS \in Nat /\ Room \in Nat
      /\ <<>> \in Seq(Words) /\ Len(<<>>) = 0
  BY HttpAssumption
<1>1. CASE EpollWait \/ DispatchDone \/ DoAccept \/ AcceptError
  BY <1>1 DEF EpollWait, DispatchDone, DoAccept, AcceptError, Goes, TypeOK,
              readVars, respVars, kernelVars, clientVars, history
<1>2. CASE RecvChar
  BY <1>2, TypeRecv
<1>3. CASE RecvNothing
  BY <1>3 DEF RecvNothing, NoData, TypeOK, respVars, kernelVars, clientVars, history
<1>4. CASE DoRead \/ HeadersDone \/ FileSent \/ DisconnectAgain
  BY <1>4 DEF DoRead, HeadersDone, FileSent, DisconnectAgain, Goes, TypeOK,
              readVars, respVars, kernelVars, clientVars, history
<1>5. CASE RequestLine \/ HeaderLine
  <2>1. /\ buf' = <<>> /\ n' = "data" /\ pc' = "headers" /\ line' \in {line, buf}
        /\ UNCHANGED <<cur, batch, heard, target, chunk, open, ready, backlog, script, unsent, peer,
                       inbox, unread, sent, refused>>
        /\ cut' \subseteq cut \cup {cur} /\ pc \in {"line", "headers"}
    BY <1>5 DEF RequestLine, HeaderLine, Goes, respVars, kernelVars, clientVars, history
  <2>2. buf' \in Seq(Words) /\ Len(buf') <= LINE
    BY <1>0, <2>1
  <2>3. line' \in Seq(Words) /\ Len(line') <= LINE
    BY <2>1 DEF TypeOK
  <2>4. cut' \subseteq Conns
    BY <2>1 DEF HandledWhileOpen, Serving, TypeOK
  <2>. QED  BY <2>1, <2>2, <2>3, <2>4 DEF TypeOK
<1>6. CASE ClientClosed \/ Disconnect
  <2>1. /\ inbox' \in [Conns -> Seq(Words)] /\ unread' \in [Conns -> 0 .. Room]
        /\ open' \subseteq open /\ ready' \subseteq ready
    <3>1. /\ inbox' = [inbox EXCEPT ![cur] = <<>>] /\ unread' = [unread EXCEPT ![cur] = 0]
          /\ open' \subseteq open /\ ready' \subseteq ready
      BY <1>6 DEF ClientClosed, Disconnect, Close
    <3>2. 0 \in 0 .. Room /\ <<>> \in Seq(Words)
      BY <1>0
    <3>. QED  BY <3>1, <3>2 DEF TypeOK
  <2>2. UNCHANGED <<batch, backlog, script, unsent, peer, sent, refused>>
    BY <1>6 DEF ClientClosed, Disconnect, clientVars, history
  <2>3. /\ pc' \in {"close", "dispatch"} /\ cur' \in {cur, Nobody} /\ target' \in {target, "missing"}
        /\ chunk' \in {chunk, 0} /\ n' \in {n, "data"}
        /\ heard' \in {heard, <<>>} /\ buf' \in {buf, <<>>} /\ line' \in {line, <<>>}
    BY <1>6 DEF ClientClosed, Disconnect, Goes, readVars, respVars
  <2>4. /\ chunk' \in 0 .. CHUNKS /\ heard' \in Seq(Words)
        /\ buf' \in Seq(Words) /\ Len(buf') <= LINE /\ line' \in Seq(Words) /\ Len(line') <= LINE
    <3>1. chunk' \in 0 .. CHUNKS
      BY <1>0, <2>3 DEF TypeOK
    <3>2. heard' \in Seq(Words)
      BY <1>0, <2>3 DEF TypeOK
    <3>3. buf' \in Seq(Words) /\ Len(buf') <= LINE
      <4>1. CASE buf' = buf
        BY <4>1 DEF TypeOK
      <4>2. CASE buf' = <<>>
        BY <1>0, <4>2
      <4>. QED  BY <2>3, <4>1, <4>2
    <3>4. line' \in Seq(Words) /\ Len(line') <= LINE
      <4>1. CASE line' = line
        BY <4>1 DEF TypeOK
      <4>2. CASE line' = <<>>
        BY <1>0, <4>2
      <4>. QED  BY <2>3, <4>1, <4>2
    <3>. QED  BY <3>1, <3>2, <3>3, <3>4
  <2>5. cut' \subseteq Conns
    <3>1. CASE ClientClosed
      BY <3>1 DEF ClientClosed, Goes, HandledWhileOpen, Serving, TypeOK
    <3>2. CASE Disconnect
      BY <3>2 DEF Disconnect, history, TypeOK
    <3>. QED  BY <1>6, <3>1, <3>2
  <2>. QED  BY <2>1, <2>2, <2>3, <2>4, <2>5 DEF TypeOK, Targets
<1>7. CASE HttpRequest
  BY <1>7 DEF HttpRequest, Goes, TypeOK, readVars, kernelVars, clientVars, history
<1>8. CASE SendError \/ SendRespondHead \/ SendDir \/ OpenFile \/ SendChunk
  BY <1>8, TypeRespond
<1>. QED  BY <1>1, <1>2, <1>3, <1>4, <1>5, <1>6, <1>7, <1>8 DEF Server

LEMMA TypeClients ==
  ASSUME TypeOK, Clients
  PROVE  TypeOK'
<1>0. Room \in Nat
  BY HttpAssumption
<1>1. UNCHANGED <<pc, cur, batch, buf, n, line, heard, target, chunk, open, script, sent, refused, cut>>
  BY DEF Clients, readVars, respVars, history
<1>2. PICK c \in Conns : Connect(c) \/ Send(c) \/ ReadPiece(c) \/ Finish(c) \/ Leave(c)
  BY DEF Clients
<1>3. ready' \subseteq Conns /\ backlog' \subseteq Conns
  BY <1>2 DEF Connect, Send, ReadPiece, Finish, Leave, Edge, TypeOK
<1>4. peer' \in [Conns -> {"new", "open", "finished", "gone"}] /\ unread' \in [Conns -> 0 .. Room]
  <2>1. CASE ReadPiece(c)
    <3>1. unread[c] \in 0 .. Room /\ unread[c] > 0
      BY <2>1 DEF ReadPiece, TypeOK
    <3>2. unread[c] - 1 \in 0 .. Room
      BY <1>0, <3>1
    <3>. QED  BY <2>1, <3>2 DEF ReadPiece, TypeOK
  <2>2. CASE Connect(c) \/ Send(c) \/ Finish(c) \/ Leave(c)
    BY <2>2 DEF Connect, Send, Finish, Leave, TypeOK
  <2>. QED  BY <1>2, <2>1, <2>2
<1>5. inbox' \in [Conns -> Seq(Words)] /\ unsent' \in [Conns -> Seq(Words)]
  <2>1. CASE Send(c)
    <3>1. PICK k \in 1 .. Len(unsent[c]) :
            /\ inbox' = [inbox EXCEPT ![c] = inbox[c] \o SubSeq(unsent[c], 1, k)]
            /\ unsent' = [unsent EXCEPT ![c] = SubSeq(unsent[c], k + 1, Len(unsent[c]))]
      <4>1. unsent[c] \in Seq(Words) /\ unsent[c] # <<>>
        BY <2>1 DEF Send, TypeOK
      <4>2. Len(unsent[c]) \in Nat \ {0}
        BY <4>1, EmptySeq, LenProperties
      <4>3. PICK k \in (IF Segmented THEN 1 ELSE Len(unsent[c])) .. Len(unsent[c]) :
              /\ inbox' = [inbox EXCEPT ![c] = inbox[c] \o SubSeq(unsent[c], 1, k)]
              /\ unsent' = [unsent EXCEPT ![c] = SubSeq(unsent[c], k + 1, Len(unsent[c]))]
        BY <2>1 DEF Send
      <4>4. k \in 1 .. Len(unsent[c])
        BY <4>2
      <4>. QED  BY <4>3, <4>4
    <3>2. unsent[c] \in Seq(Words) /\ inbox[c] \in Seq(Words)
      BY DEF TypeOK
    <3>3. SubSeq(unsent[c], 1, k) \in Seq(Words)
      BY <3>2, SubSeqProperties
    <3>4. SubSeq(unsent[c], k + 1, Len(unsent[c])) \in Seq(Words)
      BY <3>2, SubSeqProperties
    <3>5. inbox[c] \o SubSeq(unsent[c], 1, k) \in Seq(Words)
      BY <3>2, <3>3, ConcatProperties
    <3>. QED  BY <3>1, <3>4, <3>5 DEF TypeOK
  <2>2. CASE Connect(c) \/ ReadPiece(c) \/ Finish(c) \/ Leave(c)
    BY <2>2 DEF Connect, ReadPiece, Finish, Leave, TypeOK
  <2>. QED  BY <1>2, <2>1, <2>2
<1>. QED  BY <1>1, <1>3, <1>4, <1>5 DEF TypeOK

-----------------------------------------------------------------------------
(* Events and connections *)

\* Between events the server serves no connection; the event of the one it
\* serves is no longer in the batch.
InPlace ==
  /\ pc \in {"wait", "dispatch"} => cur = Nobody
  /\ pc = "wait" => batch = {}
  /\ Serving => cur \in Conns \ batch

\* Edges are kept for open connections only.
Watched == pc # "exited" => ready \subseteq open

\* recv reports the end of a connection only when its client ended it and all
\* that came before was received.
EndSeen ==
  n = "end" => cur \in Conns /\ peer[cur] \in {"finished", "gone"} /\ inbox[cur] = <<>>

\* What get_line has stored since do_read began.
Collected ==
  /\ pc \in {"wait", "dispatch"} => buf = <<>> /\ heard = <<>> /\ n = "data"
  /\ pc = "line" => heard = buf

Inv ==
  TypeOK /\ InPlace /\ Watched /\ HandledWhileOpen /\ NoLostEdge /\ EndSeen /\ Collected

LEMMA Names == Listen \notin Conns /\ Nobody \notin Conns
BY HttpAssumption

\* While a connection is served nothing else of the kernel's changes hands:
\* of the server's steps, get_line's receives shorten that inbox at most.
LEMMA ServeStep ==
  ASSUME Inv,
         \/ RecvChar \/ RecvNothing \/ RequestLine \/ HeaderLine \/ HeadersDone
         \/ HttpRequest \/ SendError \/ SendRespondHead \/ SendDir \/ OpenFile \/ SendChunk \/ FileSent
  PROVE  /\ Serving /\ pc # "close" /\ pc' \notin {"wait", "dispatch"}
         /\ UNCHANGED <<cur, batch, open, ready, backlog, peer>>
         /\ \A c \in Conns : c # cur => inbox'[c] = inbox[c]
<1>1. CASE RecvChar
  <2>1. /\ pc \in {"line", "headers"} /\ pc' = pc
        /\ UNCHANGED <<cur, batch, open, ready, backlog, peer>>
    BY <1>1 DEF RecvChar, Reading, kernelVars, clientVars
  <2>2. \E rest : inbox' = [inbox EXCEPT ![cur] = rest]
    BY <1>1 DEF RecvChar
  <2>3. \A c \in Conns : c # cur => inbox'[c] = inbox[c]
    BY <2>2 DEF Inv, TypeOK
  <2>. QED  BY <2>1, <2>3 DEF Serving
<1>2. CASE RecvNothing \/ RequestLine \/ HeaderLine \/ HeadersDone
  BY <1>2 DEF RecvNothing, RequestLine, HeaderLine, HeadersDone, Reading, Goes, Serving,
              kernelVars, clientVars
<1>3. CASE HttpRequest \/ FileSent
  BY <1>3 DEF HttpRequest, FileSent, Goes, Serving, kernelVars, clientVars
<1>4. CASE SendError \/ SendRespondHead \/ SendDir \/ OpenFile \/ SendChunk
  BY <1>4 DEF SendError, SendRespondHead, SendDir, OpenFile, SendChunk, PutOrExit, Goes, Serving,
              kernelVars, clientVars
<1>. QED  BY <1>1, <1>2, <1>3, <1>4

\* The client ended the connection before get_line stored anything.
LEMMA ClosedSilently ==
  ASSUME Inv, ClientClosed
  PROVE  /\ n = "end" /\ heard = <<>> /\ cur \in Conns \cap open
         /\ peer[cur] \in {"finished", "gone"} /\ inbox[cur] = <<>>
<1> USE DEF Inv
<1>1. pc = "line" /\ LineDone /\ LineLen = 0
  BY DEF ClientClosed, Goes
<1>2. n # "again" /\ Len(buf) = 0 /\ buf = <<>>
  BY <1>1, EmptySeq DEF LineLen, TypeOK
<1>3. n = "end"
  BY <1>1, <1>2, HttpAssumption DEF LineDone, TypeOK
<1>. QED  BY <1>1, <1>2, <1>3 DEF EndSeen, Collected, HandledWhileOpen, Serving

\* What get_line reports and has stored, step by step.
LEMMA CollectServer ==
  ASSUME Inv, Server
  PROVE  EndSeen' /\ Collected'
<1> USE DEF Inv
<1>1. CASE EpollWait \/ DispatchDone \/ DoAccept \/ DoRead \/ AcceptError
  <2>1. /\ pc \in {"wait", "dispatch"} /\ pc' \in {"wait", "dispatch", "line", "exited"}
        /\ UNCHANGED <<n, buf, heard>>
    BY <1>1 DEF EpollWait, DispatchDone, DoAccept, DoRead, AcceptError, Goes, readVars
  <2>. QED  BY <2>1 DEF EndSeen, Collected
<1>2. CASE RecvChar
  <2>1. pc \in {"line", "headers"} /\ UNCHANGED <<pc, cur, peer>> /\ cur \in Conns
    BY <1>2 DEF RecvChar, Reading, InPlace, Serving, clientVars
  <2>2. PICK x : buf' = Append(buf, x)
    BY <1>2 DEF RecvChar
  <2>3. Len(buf') = Len(buf) + 1 /\ buf'[Len(buf) + 1] = x
    BY <2>2 DEF TypeOK
  <2>4. heard' = Append(heard, x)
    BY <1>2, <2>3 DEF RecvChar, Last
  <2>5. n' = "end" => peer[cur] \in {"finished", "gone"} /\ inbox'[cur] = <<>>
    <3>1. ASSUME n' = "end"
          PROVE  Tail(inbox[cur]) = <<>> /\ n' \in NoData /\ inbox' = [inbox EXCEPT ![cur] = Tail(inbox[cur])]
      BY <1>2, <3>1 DEF RecvChar
    <3>. QED  BY <2>1, <3>1 DEF NoData, TypeOK
  <2>. QED  BY <2>1, <2>2, <2>4, <2>5 DEF EndSeen, Collected
<1>3. CASE RecvNothing
  <2>1. /\ pc \in {"line", "headers"} /\ UNCHANGED <<pc, cur, peer, inbox, buf, heard>> /\ cur \in Conns
        /\ inbox[cur] = <<>> /\ n' \in NoData
    BY <1>3 DEF RecvNothing, Reading, InPlace, Serving, clientVars
  <2>. QED  BY <2>1 DEF EndSeen, Collected, NoData
<1>4. CASE ClientClosed
  <2>1. n = "end" /\ cur \in Conns /\ peer[cur] \in {"finished", "gone"}
    BY <1>4, ClosedSilently
  <2>2. pc' = "close" /\ UNCHANGED <<n, cur, peer>> /\ inbox' = [inbox EXCEPT ![cur] = <<>>]
    BY <1>4 DEF ClientClosed, Goes, Close, readVars, clientVars
  <2>. QED  BY <2>1, <2>2 DEF EndSeen, Collected, TypeOK
<1>5. CASE RequestLine \/ HeaderLine \/ Disconnect
  <2>1. n' = "data" /\ pc' \in {"headers", "dispatch"} /\ buf' = <<>>
        /\ (pc' = "dispatch" => heard' = <<>>)
    BY <1>5 DEF RequestLine, HeaderLine, Disconnect, Goes
  <2>. QED  BY <2>1 DEF EndSeen, Collected
<1>6. CASE HeadersDone \/ HttpRequest \/ FileSent \/ DisconnectAgain
  <2>1. pc' \notin {"wait", "dispatch", "line"} /\ UNCHANGED <<n, cur, peer, inbox>>
    BY <1>6 DEF HeadersDone, HttpRequest, FileSent, DisconnectAgain, Goes, readVars, clientVars
  <2>. QED  BY <2>1 DEF EndSeen, Collected
<1>7. CASE SendError \/ SendRespondHead \/ SendDir \/ OpenFile \/ SendChunk
  <2>1. pc' \notin {"wait", "dispatch", "line"} /\ UNCHANGED <<n, cur, peer, inbox>>
    BY <1>7 DEF SendError, SendRespondHead, SendDir, OpenFile, SendChunk, PutOrExit, Goes,
                readVars, clientVars
  <2>. QED  BY <2>1 DEF EndSeen, Collected
<1>. QED  BY <1>1, <1>2, <1>3, <1>4, <1>5, <1>6, <1>7 DEF Server

LEMMA InvServer ==
  ASSUME Inv, Server
  PROVE  InPlace' /\ Watched' /\ HandledWhileOpen' /\ NoLostEdge'
<1> USE DEF Inv
<1>1. CASE EpollWait
  <2>1. /\ pc = "wait" /\ pc' = "dispatch" /\ ready' = {} /\ cur = Nobody /\ batch = {}
        /\ batch' \ {Listen} = ready /\ UNCHANGED <<cur, open, inbox>>
    BY <1>1, Names DEF EpollWait, Goes, InPlace, TypeOK, kernelVars
  <2>. QED  BY <2>1, Names DEF InPlace, Watched, HandledWhileOpen, NoLostEdge, Serving, TypeOK
<1>2. CASE DispatchDone
  BY <1>2 DEF DispatchDone, Goes, kernelVars, InPlace, Watched, HandledWhileOpen, NoLostEdge, Serving
<1>3. CASE DoAccept
  <2>1. PICK c \in backlog :
          /\ open' = open \cup {c}
          /\ ready' = IF inbox[c] # <<>> \/ peer[c] \in {"finished", "gone"}
                      THEN ready \cup {c} ELSE ready
    BY <1>3 DEF DoAccept
  <2>2. /\ pc = "dispatch" /\ pc' = "dispatch" /\ batch' = batch \ {Listen}
        /\ UNCHANGED <<cur, inbox>>
    BY <1>3 DEF DoAccept, Goes
  <2>3. NoLostEdge'
    BY <2>1, <2>2, Names DEF NoLostEdge, TypeOK
  <2>4. HandledWhileOpen' /\ InPlace'
    BY <2>1, <2>2 DEF HandledWhileOpen, InPlace, Serving
  <2>5. Watched'
    BY <2>1, <2>2 DEF Watched
  <2>. QED  BY <2>3, <2>4, <2>5
<1>4. CASE AcceptError \/ DisconnectAgain
  BY <1>4 DEF AcceptError, DisconnectAgain, Goes, kernelVars,
              InPlace, Watched, HandledWhileOpen, NoLostEdge, Serving
<1>5. CASE DoRead
  <2>1. PICK c \in batch \ {Listen} : cur' = c /\ batch' = batch \ {c}
    BY <1>5 DEF DoRead
  <2>2. pc = "dispatch" /\ pc' = "line" /\ UNCHANGED <<open, ready, inbox>>
    BY <1>5 DEF DoRead, Goes, kernelVars
  <2>. QED  BY <2>1, <2>2, Names DEF InPlace, Watched, HandledWhileOpen, NoLostEdge, Serving, TypeOK
<1>6. CASE ClientClosed \/ Disconnect
  <2>1. /\ open' = open \ {cur} /\ ready' = ready \ {cur} /\ batch' = batch
        /\ cur \in Conns \ batch /\ cur \in open
        /\ \A c \in Conns : c # cur => inbox'[c] = inbox[c]
    BY <1>6, ClosedSilently DEF ClientClosed, Disconnect, Close, Goes, InPlace, Serving, TypeOK
  <2>2. pc # "exited" /\ Watched'
    BY <1>6, <2>1 DEF ClientClosed, Disconnect, Goes, Watched
  <2>3. InPlace' /\ HandledWhileOpen'
    <3>1. CASE ClientClosed
      BY <2>1, <2>2, <3>1, ClosedSilently
         DEF ClientClosed, Goes, InPlace, HandledWhileOpen, Serving, readVars, clientVars
    <3>2. CASE Disconnect
      BY <2>1, <2>2, <3>2 DEF Disconnect, Goes, InPlace, HandledWhileOpen, Serving
    <3>. QED  BY <1>6, <3>1, <3>2
  <2>4. NoLostEdge'
    BY <2>1 DEF NoLostEdge, TypeOK
  <2>. QED  BY <2>2, <2>3, <2>4
<1>7. CASE \/ RecvChar \/ RecvNothing \/ RequestLine \/ HeaderLine \/ HeadersDone
           \/ HttpRequest \/ SendError \/ SendRespondHead \/ SendDir \/ OpenFile \/ SendChunk \/ FileSent
  <2>1. /\ Serving /\ pc # "close" /\ pc' \notin {"wait", "dispatch"}
        /\ UNCHANGED <<cur, batch, open, ready>>
        /\ \A c \in Conns : c # cur => inbox'[c] = inbox[c]
    BY <1>7, ServeStep
  <2>2. InPlace' /\ Watched' /\ HandledWhileOpen'
    BY <2>1 DEF InPlace, Watched, HandledWhileOpen, Serving
  <2>3. NoLostEdge'
    BY <2>1 DEF NoLostEdge, TypeOK
  <2>. QED  BY <2>2, <2>3
<1>. QED  BY <1>1, <1>2, <1>3, <1>4, <1>5, <1>6, <1>7 DEF Server

LEMMA InvClients ==
  ASSUME Inv, pc # "exited", Clients
  PROVE  InPlace' /\ Watched' /\ HandledWhileOpen' /\ NoLostEdge' /\ EndSeen' /\ Collected'
<1> USE DEF Inv
<1>1. UNCHANGED <<pc, cur, batch, open, n, buf, heard>>
  BY DEF Clients, readVars
<1>2. PICK c \in Conns : Connect(c) \/ Send(c) \/ ReadPiece(c) \/ Finish(c) \/ Leave(c)
  BY DEF Clients
<1>3. ready \subseteq ready' /\ ready' \subseteq ready \cup open
  BY <1>2 DEF Connect, Send, ReadPiece, Finish, Leave, Edge
<1>4. \A d \in Conns : inbox'[d] = inbox[d] \/ d \notin open \/ d \in ready'
  BY <1>2 DEF Connect, Send, ReadPiece, Finish, Leave, Edge, TypeOK
<1>5. \A d \in Conns : peer[d] \in {"finished", "gone"} =>
        peer'[d] \in {"finished", "gone"} /\ inbox'[d] = inbox[d]
  BY <1>2 DEF TypeOK, Connect, Send, ReadPiece, Finish, Leave
<1>6. InPlace' /\ Watched' /\ NoLostEdge' /\ Collected'
  BY <1>1, <1>3, <1>4 DEF InPlace, Watched, NoLostEdge, Serving, TypeOK, Collected
<1>7. EndSeen'
  BY <1>1, <1>5 DEF EndSeen
<1>8. HandledWhileOpen'
  BY <1>1, <1>5 DEF HandledWhileOpen, InPlace, Serving
<1>. QED  BY <1>6, <1>7, <1>8

LEMMA InvInit == Init => Inv
<1>1. Init => InPlace /\ Watched /\ HandledWhileOpen /\ NoLostEdge /\ EndSeen /\ Collected
  BY DEF Init, InPlace, Watched, HandledWhileOpen, NoLostEdge, Serving, EndSeen, Collected
<1>. QED  BY <1>1, TypeInit DEF Inv

LEMMA InvNext == Inv /\ [Next]_vars => Inv'
<1> SUFFICES ASSUME Inv, [Next]_vars PROVE Inv'
  OBVIOUS
<1>1. CASE Next
  <2>1. TypeOK'
    BY <1>1, TypeServer, TypeClients DEF Inv, Next
  <2>2. InPlace' /\ Watched' /\ HandledWhileOpen' /\ NoLostEdge'
    BY <1>1, InvServer, InvClients DEF Next
  <2>3. EndSeen' /\ Collected'
    BY <1>1, CollectServer, InvClients DEF Next
  <2>. QED  BY <2>1, <2>2, <2>3 DEF Inv
<1>2. CASE UNCHANGED vars
  BY <1>2 DEF vars, readVars, respVars, kernelVars, clientVars, history, Inv, TypeOK,
              InPlace, Watched, HandledWhileOpen, NoLostEdge, Serving, EndSeen, Collected
<1>. QED  BY <1>1, <1>2

\* Every variable of the web server keeps its type; in particular get_line
\* stores no more than its array holds, whatever clients send.  (The arrays
\* that sscanf copies the words of the request line into are not modelled.)
THEOREM HttpTypes == Spec => []TypeOK
<1>1. Inv => TypeOK
  BY DEF Inv
<1>. QED  BY <1>1, InvInit, InvNext, PTL DEF Spec

\* No event is handled on a connection that do_read closed: each connection
\* has one event in a batch, and only its own handling closes it.  And do_read
\* itself goes on with a closed descriptor in one case only: its client ended
\* the connection without sending anything, and what is left is to disconnect.
THEOREM HttpHandlesOpen == Spec => []HandledWhileOpen
<1>1. Inv => HandledWhileOpen
  BY DEF Inv
<1>. QED  BY <1>1, InvInit, InvNext, PTL DEF Spec

\* Edge-triggered epoll reports each arrival once, and no arrival is missed:
\* not one before accept, nor one during the handling of another connection.
THEOREM HttpLosesNoEdge == Spec => []NoLostEdge
<1>1. Inv => NoLostEdge
  BY DEF Inv
<1>. QED  BY <1>1, InvInit, InvNext, PTL DEF Spec

-----------------------------------------------------------------------------
(* What ends the server *)

LEMMA ExitServer ==
  ASSUME Inv, Server, pc' = "exited"
  PROVE  ExitExplained'
<1> USE DEF Inv
<1>0. Serving => cur \in Conns /\ cur # Nobody
  BY Names DEF InPlace
<1>1. CASE AcceptError
  BY <1>1 DEF AcceptError, Goes, InPlace, ExitExplained, kernelVars
<1>2. CASE DisconnectAgain
  <2>1. /\ pc = "close" /\ cur \notin open /\ UNCHANGED <<cur, heard, peer>>
    BY <1>2 DEF DisconnectAgain, Goes, readVars, clientVars
  <2>2. Serving /\ heard = <<>> /\ peer[cur] \in {"finished", "gone"}
    BY <2>1 DEF HandledWhileOpen, Serving
  <2>. QED  BY <1>0, <2>1, <2>2 DEF ExitExplained
<1>3. CASE SendError \/ SendRespondHead \/ SendDir \/ OpenFile \/ SendChunk
  <2>1. Serving /\ UNCHANGED <<cur, peer, target>>
    BY <1>3, ServeStep DEF SendError, SendRespondHead, SendDir, OpenFile, SendChunk, PutOrExit,
                           respVars
  <2>2. target = "locked" \/ peer[cur] = "gone"
    BY <1>3 DEF SendError, SendRespondHead, SendDir, OpenFile, SendChunk, PutOrExit, Goes
  <2>. QED  BY <1>0, <2>1, <2>2 DEF ExitExplained
<1>4. AcceptError \/ DisconnectAgain \/ SendError \/ SendRespondHead \/ SendDir \/ OpenFile \/ SendChunk
  BY DEF Server, EpollWait, DispatchDone, DoAccept, RecvChar, RecvNothing, Reading, DoRead,
         ClientClosed, RequestLine, HeaderLine, HeadersDone, Disconnect, HttpRequest, FileSent, Goes
<1>. QED  BY <1>1, <1>2, <1>3, <1>4

\* The server ends only when accept finds no descriptor left, the client it
\* serves went away or ended its side before it sent anything, or a file could
\* not be opened; no late, cut or unfinished request ends it.
THEOREM HttpExits == Spec => []ExitExplained
<1>1. Init => ExitExplained
  BY DEF Init, ExitExplained
<1>2. Inv /\ ExitExplained /\ [Next]_vars => ExitExplained'
  <2>1. ExitExplained /\ UNCHANGED vars => ExitExplained'
    BY DEF vars, readVars, respVars, kernelVars, clientVars, ExitExplained
  <2>2. pc # "exited" /\ Clients => ExitExplained'
    BY DEF Clients, ExitExplained
  <2>3. Inv /\ Server => ExitExplained'
    BY ExitServer DEF ExitExplained
  <2>. QED  BY <2>1, <2>2, <2>3 DEF Next
<1>. QED  BY <1>1, <1>2, InvInit, InvNext, PTL DEF Spec

-----------------------------------------------------------------------------
(* The order of a response *)

\* A connection is new, waits for accept, or is open; only one of these.
Distinct ==
  /\ open \cap backlog = {}
  /\ \A c \in Conns : peer[c] = "new" => c \notin open \cup backlog

\* Nothing was sent to a connection before its response begins.
Unanswered ==
  \A c \in Conns :
    \/ peer[c] = "new" \/ c \in backlog
    \/ c \in open /\ (c = cur => pc \in {"line", "headers", "request", "respond"})
    => sent[c] = <<>>

\* The pieces are part of the response to t, and none is beyond the m-th.
PartUpTo(pieces, t, m) ==
  /\ PartOf(pieces, Full(t))
  /\ \A i \in DOMAIN pieces : \E k \in DOMAIN Full(t) : k <= m /\ Full(t)[k] = pieces[i]

\* How far the response has come at each place.
Progress ==
  /\ pc = "page" => target = "dir" /\ PartUpTo(sent[cur], "dir", 1)
  /\ pc = "open" => target \in {"file", "locked"} /\ PartUpTo(sent[cur], target, 1)
  /\ pc = "body" => target = "file" /\ PartUpTo(sent[cur], "file", chunk + 1)

\* What was sent is part of one response, the one to the target at hand.
AnyResponse == \A c \in Conns : \E t \in Targets : PartOf(sent[c], Full(t))
Current == cur \in Conns => PartOf(sent[cur], Full(target))

OrderInv == Distinct /\ Unanswered /\ Progress /\ AnyResponse /\ Current

Pieces == {"head", "404", "page", "chunk"} \X (0 .. CHUNKS)

\* Sequences of one and of two elements.
LEMMA ShortSeqs ==
  ASSUME NEW S, NEW a \in S, NEW b \in S
  PROVE  /\ <<a>> \in Seq(S) /\ Len(<<a>>) = 1 /\ DOMAIN <<a>> = 1 .. 1 /\ <<a>>[1] = a
         /\ <<a, b>> \in Seq(S) /\ Len(<<a, b>>) = 2 /\ DOMAIN <<a, b>> = 1 .. 2
         /\ <<a, b>>[1] = a /\ <<a, b>>[2] = b
OBVIOUS

\* The responses, piece by piece.
LEMMA FullFacts ==
  /\ \A t \in Targets : Full(t) \in Seq(Pieces)
  /\ DOMAIN Full("missing") = 1 .. 1 /\ Full("missing")[1] = Piece("404")
  /\ DOMAIN Full("dir") = 1 .. 2 /\ Full("dir")[1] = Piece("head") /\ Full("dir")[2] = Piece("page")
  /\ DOMAIN Full("locked") = 1 .. 2 /\ Full("locked")[1] = Piece("head") /\ Full("locked")[2] = Piece("404")
  /\ DOMAIN Full("file") = 1 .. CHUNKS + 1 /\ Full("file")[1] = Piece("head")
  /\ \A k \in 1 .. CHUNKS : Full("file")[k + 1] = Chunk(k)
<1>0. CHUNKS \in Nat /\ Piece("head") \in Pieces /\ Piece("404") \in Pieces /\ Piece("page") \in Pieces
  BY HttpAssumption DEF Pieces, Piece
<1>1. /\ Full("missing") = <<Piece("404")>>
      /\ Full("dir") = <<Piece("head"), Piece("page")>>
      /\ Full("locked") = <<Piece("head"), Piece("404")>>
      /\ Full("file") = <<Piece("head")>> \o Chunks
  BY DEF Full
<1>2. Chunks \in Seq(Pieces) /\ Len(Chunks) = CHUNKS /\ \A k \in 1 .. CHUNKS : Chunks[k] = Chunk(k)
  <2>1. Chunks \in [1 .. CHUNKS -> Pieces] /\ \A k \in 1 .. CHUNKS : Chunks[k] = Chunk(k)
    BY <1>0 DEF Chunks, Chunk, Pieces
  <2>2. Chunks \in Seq(Pieces)
    BY <1>0, <2>1, SeqDef
  <2>3. DOMAIN Chunks = 1 .. CHUNKS /\ DOMAIN Chunks = 1 .. Len(Chunks) /\ Len(Chunks) \in Nat
    BY <2>1, <2>2, LenProperties
  <2>. QED  BY <1>0, <2>1, <2>2, <2>3
<1>3. /\ Full("file") \in Seq(Pieces) /\ Len(Full("file")) = CHUNKS + 1
      /\ Full("file")[1] = Piece("head")
      /\ \A k \in 1 .. CHUNKS : Full("file")[k + 1] = Chunk(k)
  <2>1. <<Piece("head")>> \in Seq(Pieces) /\ Len(<<Piece("head")>>) = 1 /\ <<Piece("head")>>[1] = Piece("head")
    BY <1>0, ShortSeqs
  <2> DEFINE one == <<Piece("head")>>
  <2> HIDE DEF one
  <2>2. one \in Seq(Pieces) /\ Len(one) = 1 /\ one[1] = Piece("head") /\ Full("file") = one \o Chunks
    BY <1>1, <2>1 DEF one
  <2>3. /\ Full("file") \in Seq(Pieces) /\ Len(Full("file")) = 1 + CHUNKS
        /\ \A i \in 1 .. 1 + CHUNKS : Full("file")[i] = IF i <= 1 THEN one[i] ELSE Chunks[i - 1]
    <3>1. /\ one \o Chunks \in Seq(Pieces) /\ Len(one \o Chunks) = Len(one) + Len(Chunks)
          /\ \A i \in 1 .. Len(one) + Len(Chunks) :
               (one \o Chunks)[i] = IF i <= Len(one) THEN one[i] ELSE Chunks[i - Len(one)]
      BY <1>2, <2>2, ConcatProperties, Zenon
    <3>. QED  BY <1>2, <2>2, <3>1
  <2>. QED  BY <1>0, <1>2, <2>2, <2>3
<1>4. DOMAIN Full("file") = 1 .. CHUNKS + 1
  BY <1>3, LenProperties
<1>5. \A t \in Targets : Full(t) \in Seq(Pieces)
  <2>1. Full("missing") \in Seq(Pieces) /\ Full("dir") \in Seq(Pieces) /\ Full("locked") \in Seq(Pieces)
    <3>1. /\ <<Piece("404")>> \in Seq(Pieces)
          /\ <<Piece("head"), Piece("page")>> \in Seq(Pieces)
          /\ <<Piece("head"), Piece("404")>> \in Seq(Pieces)
      BY <1>0, ShortSeqs, Zenon
    <3>. QED  BY <1>1, <3>1, Zenon
  <2>. QED  BY <1>3, <2>1 DEF Targets
<1>6. /\ DOMAIN Full("missing") = 1 .. 1 /\ Full("missing")[1] = Piece("404")
      /\ DOMAIN Full("dir") = 1 .. 2 /\ Full("dir")[1] = Piece("head") /\ Full("dir")[2] = Piece("page")
      /\ DOMAIN Full("locked") = 1 .. 2 /\ Full("locked")[1] = Piece("head")
      /\ Full("locked")[2] = Piece("404")
  BY <1>0, <1>1, ShortSeqs
<1>. QED  BY <1>3, <1>4, <1>5, <1>6

\* What is part of a response remains so with the next piece after all of it.
LEMMA PartGrows ==
  ASSUME NEW t \in Targets, NEW m \in Nat, m + 1 \in DOMAIN Full(t),
         NEW pieces \in Seq(Pieces), PartUpTo(pieces, t, m)
  PROVE  PartUpTo(Append(pieces, Full(t)[m + 1]), t, m + 1)
<1> DEFINE p == Full(t)[m + 1]
           more == Append(pieces, p)
           n1 == Len(pieces) + 1
<1>1. Full(t) \in Seq(Pieces) /\ p \in Pieces
  <2>1. Full(t) \in Seq(Pieces)
    BY FullFacts
  <2>. QED  BY <2>1, ElementOfSeq, LenProperties
<1>2. /\ Len(pieces) \in Nat /\ DOMAIN pieces = 1 .. Len(pieces) /\ DOMAIN more = 1 .. n1
      /\ more[n1] = p /\ \A i \in 1 .. Len(pieces) : more[i] = pieces[i]
  <2>1. more \in Seq(Pieces) /\ Len(more) = n1
    BY <1>1, AppendProperties
  <2>2. DOMAIN more = 1 .. n1
    BY <2>1, LenProperties
  <2>3. Len(pieces) \in Nat /\ DOMAIN pieces = 1 .. Len(pieces)
    BY LenProperties
  <2>. QED  BY <1>1, <2>2, <2>3, AppendProperties
<1>3. \A k \in DOMAIN Full(t) : k \in Int
  <2>1. DOMAIN Full(t) = 1 .. Len(Full(t))
    BY <1>1, LenProperties
  <2>. QED  BY <2>1
<1> HIDE DEF p, more, n1
<1>4. ASSUME NEW i \in DOMAIN more
      PROVE  \E k \in DOMAIN Full(t) : k <= m + 1 /\ Full(t)[k] = more[i]
  <2>1. CASE i \in 1 .. Len(pieces)
    <3>1. PICK k \in DOMAIN Full(t) : k <= m /\ Full(t)[k] = pieces[i]
      BY <1>2, <2>1 DEF PartUpTo
    <3>. QED  BY <1>2, <1>3, <2>1, <3>1
  <2>2. CASE i = n1
    BY <1>2, <2>2 DEF p
  <2>3. i \in 1 .. Len(pieces) \/ i = n1
    BY <1>2 DEF n1
  <2>. QED  BY <2>1, <2>2, <2>3
<1>5. ASSUME NEW i \in DOMAIN more, NEW j \in DOMAIN more, i < j
      PROVE  \E k, l \in DOMAIN Full(t) : k < l /\ Full(t)[k] = more[i] /\ Full(t)[l] = more[j]
  <2>0. i \in 1 .. Len(pieces) /\ (j \in 1 .. Len(pieces) \/ j = n1)
    BY <1>2, <1>5 DEF n1
  <2>1. CASE j \in 1 .. Len(pieces)
    BY <1>2, <1>5, <2>0, <2>1 DEF PartUpTo, PartOf
  <2>2. CASE j = n1
    <3>1. PICK k \in DOMAIN Full(t) : k <= m /\ Full(t)[k] = pieces[i]
      BY <1>2, <2>0 DEF PartUpTo
    <3>2. k < m + 1
      BY <1>3, <3>1
    <3>. QED  BY <1>2, <2>0, <2>2, <3>1, <3>2 DEF p
  <2>. QED  BY <2>0, <2>1, <2>2
<1>6. Range(more) \subseteq Range(Full(t))
  BY <1>4 DEF Range
<1>7. PartUpTo(more, t, m + 1)
  BY <1>4, <1>5, <1>6 DEF PartUpTo, PartOf
<1>. QED  BY <1>7 DEF p, more

LEMMA PartStays ==
  ASSUME NEW t \in Targets, NEW m \in Nat, NEW k \in Nat, m <= k, NEW pieces, PartUpTo(pieces, t, m)
  PROVE  PartUpTo(pieces, t, k)
<1>1. \A j \in DOMAIN Full(t) : j \in Int
  <2>1. DOMAIN Full(t) = 1 .. Len(Full(t))
    BY FullFacts, LenProperties
  <2>. QED  BY <2>1
<1>. QED  BY <1>1 DEF PartUpTo

LEMMA PartEmpty ==
  ASSUME NEW t \in Targets, NEW m
  PROVE  PartUpTo(<<>>, t, m)
BY DEF PartUpTo, PartOf, Range

\* One send: the next piece goes out or is lost.
LEMMA PutPart ==
  ASSUME TypeOK, cur \in Conns, NEW t \in Targets, NEW m \in Nat, m + 1 \in DOMAIN Full(t),
         PartUpTo(sent[cur], t, m),
         Put(Full(t)[m + 1]) \/ UNCHANGED <<sent, unread>>
  PROVE  PartUpTo(sent'[cur], t, m + 1) /\ \A c \in Conns : c # cur => sent'[c] = sent[c]
<1>1. sent[cur] \in Seq(Pieces) /\ sent \in [Conns -> Seq(Pieces)]
  BY DEF TypeOK, Pieces
<1>2. CASE sent' = [sent EXCEPT ![cur] = Append(@, Full(t)[m + 1])]
  <2>1. PartUpTo(Append(sent[cur], Full(t)[m + 1]), t, m + 1)
    BY <1>1, PartGrows
  <2>. QED  BY <1>1, <1>2, <2>1
<1>3. CASE UNCHANGED sent
  BY <1>3, PartStays
<1>. QED  BY <1>2, <1>3 DEF Put

\* The places where a response is sent.
LEMMA OrderRespond ==
  ASSUME Inv, OrderInv, SendError \/ SendRespondHead \/ SendDir \/ OpenFile \/ SendChunk
  PROVE  OrderInv'
<1> USE DEF Inv
<1>1. /\ Serving /\ pc \in {"respond", "page", "open", "body"}
      /\ UNCHANGED <<cur, target, open, backlog, peer>>
  BY ServeStep DEF SendError, SendRespondHead, SendDir, OpenFile, SendChunk, PutOrExit, Goes,
                   readVars, respVars, kernelVars
<1>2. cur \in Conns /\ cur \in open /\ cur \notin backlog /\ peer[cur] # "new" /\ target \in Targets
  BY <1>1 DEF HandledWhileOpen, OrderInv, Distinct, TypeOK
<1>3. /\ \E m \in Nat : PartUpTo(sent'[cur], target, m)
      /\ \A c \in Conns : c # cur => sent'[c] = sent[c]
      /\ pc' \in {"page", "open", "body"} =>
           PartUpTo(sent'[cur], target, IF pc' = "body" THEN chunk' + 1 ELSE 1)
      /\ pc' = "page" => target = "dir"
      /\ pc' = "open" => target \in {"file", "locked"}
      /\ pc' = "body" => target = "file"
      /\ pc' \in {"page", "open", "body", "close", "exited"}
  <2> USE FullFacts
  <2>0. \A t \in Targets : pc = "respond" => PartUpTo(sent[cur], t, 0)
    <3>1. pc = "respond" => sent[cur] = <<>>
      BY <1>2 DEF OrderInv, Unanswered
    <3>. QED  BY <3>1, PartEmpty
  <2>1. CASE SendError
    <3>1. pc = "respond" /\ target = "missing" /\ pc' \in {"close", "exited"}
          /\ (Put(Full("missing")[0 + 1]) \/ UNCHANGED <<sent, unread>>)
      BY <2>1 DEF SendError, PutOrExit
    <3>. QED  BY <1>2, <2>0, <3>1, PutPart
  <2>2. CASE SendRespondHead
    <3>1. /\ pc = "respond" /\ target # "missing" /\ chunk' = 0
          /\ pc' \in {IF target = "dir" THEN "page" ELSE "open", "exited"}
          /\ (Put(Full(target)[0 + 1]) \/ UNCHANGED <<sent, unread>>)
      BY <1>2, <2>2 DEF SendRespondHead, PutOrExit, Targets
    <3>2. 0 + 1 \in DOMAIN Full(target)
      BY <1>2, <3>1, HttpAssumption DEF Targets
    <3>3. PartUpTo(sent'[cur], target, 1) /\ \A c \in Conns : c # cur => sent'[c] = sent[c]
      BY <1>2, <2>0, <3>1, <3>2, PutPart
    <3>. QED  BY <1>2, <3>1, <3>3 DEF Targets
  <2>3. CASE SendDir
    <3>1. /\ pc = "page" /\ target = "dir" /\ PartUpTo(sent[cur], "dir", 1) /\ pc' \in {"close", "exited"}
          /\ (Put(Full("dir")[1 + 1]) \/ UNCHANGED <<sent, unread>>)
      BY <2>3 DEF SendDir, OrderInv, Progress
    <3>. QED  BY <1>2, <3>1, PutPart
  <2>4. CASE OpenFile /\ target = "locked"
    <3>1. /\ pc = "open" /\ PartUpTo(sent[cur], "locked", 1) /\ pc' = "exited"
          /\ (Put(Full("locked")[1 + 1]) \/ UNCHANGED <<sent, unread>>)
      BY <2>4 DEF OpenFile, PutOrExit, OrderInv, Progress
    <3>. QED  BY <1>2, <2>4, <3>1, PutPart
  <2>5. CASE OpenFile /\ target # "locked"
    <3>1. /\ pc = "open" /\ target = "file" /\ PartUpTo(sent[cur], "file", 1) /\ pc' = "body"
          /\ chunk' = chunk /\ sent' = sent /\ chunk \in Nat
      BY <2>5 DEF OpenFile, Goes, OrderInv, Progress, TypeOK, history
    <3>2. PartUpTo(sent'[cur], "file", chunk' + 1)
      BY <3>1, PartStays DEF Targets
    <3>. QED  BY <1>2, <2>5, <3>1, <3>2
  <2>6. CASE SendChunk
    <3>1. /\ pc = "body" /\ target = "file" /\ PartUpTo(sent[cur], "file", chunk + 1)
          /\ pc' \in {"body", "exited"} /\ chunk' = chunk + 1
          /\ (Put(Chunk(chunk + 1)) \/ UNCHANGED <<sent, unread>>)
      BY <2>6 DEF SendChunk, PutOrExit, OrderInv, Progress
    <3>2. /\ chunk + 1 \in Nat /\ (chunk + 1) + 1 \in DOMAIN Full("file")
          /\ Full("file")[(chunk + 1) + 1] = Chunk(chunk + 1)
      BY <2>6, HttpAssumption DEF SendChunk, TypeOK
    <3>3. PartUpTo(sent'[cur], "file", (chunk + 1) + 1) /\ \A c \in Conns : c # cur => sent'[c] = sent[c]
      BY <1>2, <3>1, <3>2, PutPart DEF Targets
    <3>. QED  BY <1>2, <3>1, <3>2, <3>3
  <2>. QED  BY <2>1, <2>2, <2>3, <2>4, <2>5, <2>6
<1>4. AnyResponse' /\ Current'
  <2>1. PartOf(sent'[cur], Full(target))
    BY <1>3 DEF PartUpTo
  <2>. QED  BY <1>1, <1>2, <1>3, <2>1 DEF OrderInv, AnyResponse, Current
<1>5. Progress'
  BY <1>1, <1>3 DEF Progress
<1>6. Distinct' /\ Unanswered'
  BY <1>1, <1>2, <1>3 DEF OrderInv, Distinct, Unanswered
<1>. QED  BY <1>4, <1>5, <1>6 DEF OrderInv

LEMMA OrderServer ==
  ASSUME Inv, OrderInv, Server
  PROVE  OrderInv'
<1> USE DEF Inv
<1>0. PartOf(<<>>, Full(target)) /\ target \in Targets
  BY PartEmpty DEF PartUpTo, TypeOK
<1>1. CASE EpollWait \/ DispatchDone \/ AcceptError \/ DoAccept
  <2>1. /\ pc \in {"wait", "dispatch"} /\ pc' \in {"wait", "dispatch", "exited"}
        /\ cur = Nobody /\ cur' = cur /\ UNCHANGED <<peer, sent>>
        /\ \/ UNCHANGED <<open, backlog>>
           \/ \E c \in backlog : backlog' = backlog \ {c} /\ open' = open \cup {c}
    BY <1>1 DEF EpollWait, DispatchDone, AcceptError, DoAccept, Goes, InPlace,
                kernelVars, clientVars, history
  <2>. QED  BY <2>1, Names DEF OrderInv, Distinct, Unanswered, Progress, AnyResponse, Current, TypeOK
<1>2. CASE DoRead
  <2>1. /\ pc = "dispatch" /\ pc' = "line" /\ cur = Nobody /\ cur' \in open
        /\ UNCHANGED <<open, backlog, peer, sent, target>>
    BY <1>2 DEF DoRead, Goes, InPlace, HandledWhileOpen, kernelVars, clientVars, respVars, history
  <2>2. sent[cur'] = <<>>
    BY <2>1, Names DEF OrderInv, Unanswered, TypeOK
  <2>. QED  BY <1>0, <2>1, <2>2, Names
            DEF OrderInv, Distinct, Unanswered, Progress, AnyResponse, Current, TypeOK
<1>3. CASE \/ RecvChar \/ RecvNothing \/ RequestLine \/ HeaderLine \/ HeadersDone
           \/ FileSent \/ DisconnectAgain
  <2>1. /\ pc \in {"line", "headers", "body", "close"}
        /\ pc' \in {"line", "headers", "request", "close", "exited"}
        /\ pc \in {"body", "close"} => pc' \in {"close", "exited"}
        /\ UNCHANGED <<cur, open, backlog, peer, sent, target>>
    BY <1>3 DEF RecvChar, RecvNothing, RequestLine, HeaderLine, HeadersDone, FileSent,
                DisconnectAgain, Reading, Goes, kernelVars, clientVars, respVars, history
  <2>. QED  BY <2>1 DEF OrderInv, Distinct, Unanswered, Progress, AnyResponse, Current
<1>4. CASE HttpRequest
  <2>1. /\ pc = "request" /\ pc' = "respond" /\ cur \in open /\ target' \in Targets
        /\ UNCHANGED <<cur, open, backlog, peer, sent>>
    BY <1>4 DEF HttpRequest, Goes, HandledWhileOpen, Serving, kernelVars, clientVars, history
  <2>2. sent[cur] = <<>> /\ PartOf(<<>>, Full(target'))
    BY <2>1, PartEmpty DEF OrderInv, Unanswered, TypeOK, PartUpTo
  <2>. QED  BY <2>1, <2>2 DEF OrderInv, Distinct, Unanswered, Progress, AnyResponse, Current
<1>5. CASE ClientClosed \/ Disconnect
  <2>1. /\ pc' \in {"close", "dispatch"} /\ open' = open \ {cur} /\ cur \in open
        /\ UNCHANGED <<backlog, peer, sent>>
        /\ cur' = Nobody \/ UNCHANGED <<cur, target>>
    BY <1>5, ClosedSilently DEF ClientClosed, Disconnect, Close, Goes, clientVars, respVars, history
  <2>. QED  BY <2>1, Names DEF OrderInv, Distinct, Unanswered, Progress, AnyResponse, Current
<1>6. CASE SendError \/ SendRespondHead \/ SendDir \/ OpenFile \/ SendChunk
  BY <1>6, OrderRespond
<1>. QED  BY <1>1, <1>2, <1>3, <1>4, <1>5, <1>6 DEF Server

LEMMA OrderClients ==
  ASSUME Inv, OrderInv, Clients
  PROVE  OrderInv'
<1>1. UNCHANGED <<pc, cur, target, chunk, open, sent>>
  BY DEF Clients, respVars, history
<1>2. PICK c \in Conns : Connect(c) \/ Send(c) \/ ReadPiece(c) \/ Finish(c) \/ Leave(c)
  BY DEF Clients
<1>3. Distinct'
  BY <1>1, <1>2 DEF Inv, TypeOK, OrderInv, Distinct, Connect, Send, ReadPiece, Finish, Leave
<1>4. Unanswered'
  BY <1>1, <1>2 DEF Inv, TypeOK, OrderInv, Unanswered, Connect, Send, ReadPiece, Finish, Leave
<1>5. Progress' /\ AnyResponse' /\ Current'
  BY <1>1 DEF OrderInv, Progress, AnyResponse, Current
<1>. QED  BY <1>3, <1>4, <1>5 DEF OrderInv

LEMMA OrderInit == Init => OrderInv
<1>1. Init => AnyResponse
  BY PartEmpty DEF Init, AnyResponse, PartUpTo, Targets
<1>2. Init => Current
  BY Names DEF Init, Current
<1>. QED  BY <1>1, <1>2 DEF Init, OrderInv, Distinct, Unanswered, Progress

LEMMA OrderNext == Inv /\ OrderInv /\ [Next]_vars => OrderInv'
<1>1. OrderInv /\ UNCHANGED vars => OrderInv'
  BY DEF vars, respVars, kernelVars, clientVars, history,
         OrderInv, Distinct, Unanswered, Progress, AnyResponse, Current
<1>. QED  BY <1>1, OrderServer, OrderClients DEF Next

-----------------------------------------------------------------------------
(* Lines *)

\* Every number up to that of the positions kept is the rank of one of them.
Enumerated(text) ==
  \A i \in 1 .. Cardinality(Kept(text)) : \E k \in Kept(text) : Rank(text, k) = i

LEMMA KeptFinite ==
  ASSUME NEW s \in Seq(Words)
  PROVE  /\ Kept(s) \subseteq 1 .. Len(s) /\ Kept(s) \subseteq Nat
         /\ IsFiniteSet(Kept(s)) /\ Cardinality(Kept(s)) \in Nat
         /\ \A k : Rank(s, k) \in Nat /\ Rank(s, k) <= Cardinality(Kept(s))
<1>1. Len(s) \in Nat /\ DOMAIN s = 1 .. Len(s)
  BY LenProperties
<1>2. Kept(s) \subseteq 1 .. Len(s) /\ Kept(s) \subseteq Nat
  BY <1>1 DEF Kept
<1>3. IsFiniteSet(Kept(s)) /\ Cardinality(Kept(s)) \in Nat
  <2>1. IsFiniteSet(1 .. Len(s))
    BY <1>1, FS_Interval
  <2>. QED  BY <1>2, <2>1, FS_Subset, FS_CardinalityType
<1>4. ASSUME NEW k
      PROVE  Rank(s, k) \in Nat /\ Rank(s, k) <= Cardinality(Kept(s))
  BY <1>3, FS_Subset, FS_CardinalityType DEF Rank
<1>. QED  BY <1>2, <1>3, <1>4

\* Ranks grow with the position.
LEMMA RankGrows ==
  ASSUME NEW s \in Seq(Words), NEW k \in Kept(s), NEW S \in SUBSET Kept(s), \A j \in S : j < k
  PROVE  Cardinality(S) < Rank(s, k) /\ IsFiniteSet(S) /\ Cardinality(S) \in Nat
<1> DEFINE T == {j \in Kept(s) : j <= k}
<1>1. IsFiniteSet(Kept(s)) /\ Kept(s) \subseteq Nat
  BY KeptFinite
<1>2. T \subseteq Kept(s) /\ k \in T /\ k \notin S /\ S \subseteq T
  BY <1>1
<1>3. IsFiniteSet(T) /\ IsFiniteSet(S)
  BY <1>1, <1>2, FS_Subset
<1>4. Cardinality(S) <= Cardinality(T) /\ Cardinality(S) # Cardinality(T)
  BY <1>2, <1>3, FS_Subset
<1>5. Cardinality(S) \in Nat /\ Cardinality(T) \in Nat /\ Rank(s, k) = Cardinality(T)
  BY <1>3, FS_CardinalityType DEF Rank
<1>. QED  BY <1>3, <1>4, <1>5

\* What is kept of the beginning of a text is kept of the text.
LEMMA KeptPrefix ==
  ASSUME NEW s \in Seq(Words), NEW m \in 0 .. Len(s), NEW p \in Seq(Words),
         Len(p) = m, \A k \in 1 .. m : p[k] = s[k]
  PROVE  /\ Kept(p) = {k \in Kept(s) : k <= m}
         /\ \A k \in Kept(p) : Rank(p, k) = Rank(s, k)
<1>1. /\ Len(s) \in Nat /\ DOMAIN s = 1 .. Len(s)
      /\ m \in Nat /\ m <= Len(s) /\ DOMAIN p = 1 .. m
  BY LenProperties
<1>2. Kept(p) = {k \in Kept(s) : k <= m}
  BY <1>1 DEF Kept
<1>3. ASSUME NEW k \in Kept(p)
      PROVE  {j \in Kept(p) : j <= k} = {j \in Kept(s) : j <= k}
  <2>1. k \in Nat /\ k <= m /\ \A j \in Kept(s) : j \in Nat
    BY <1>2, KeptFinite
  <2>2. ASSUME NEW j \in Kept(s), j <= k PROVE j \in Kept(p)
    <3>1. j <= m
      BY <1>1, <2>1, <2>2
    <3>. QED  BY <1>2, <3>1
  <2>3. \A j \in Kept(p) : j \in Kept(s)
    BY <1>2
  <2>. QED  BY <2>2, <2>3
<1>. QED  BY <1>2, <1>3 DEF Rank

\* The normal form of the beginning of a text is a beginning of its normal form.
LEMMA NormalPrefix ==
  ASSUME NEW s \in Seq(Words), NEW m \in 0 .. Len(s), NEW p \in Seq(Words),
         Len(p) = m, \A k \in 1 .. m : p[k] = s[k],
         Enumerated(p)
  PROVE  /\ Cardinality(Kept(p)) <= Cardinality(Kept(s))
         /\ \A i \in 1 .. Cardinality(Kept(p)) : Normal(s)[i] = Normal(p)[i]
<1>1. /\ Kept(p) = {k \in Kept(s) : k <= m}
      /\ \A k \in Kept(p) : Rank(p, k) = Rank(s, k)
  BY KeptPrefix
<1>2. Cardinality(Kept(p)) <= Cardinality(Kept(s)) /\ Cardinality(Kept(p)) \in Nat /\ Cardinality(Kept(s)) \in Nat
  BY <1>1, KeptFinite, FS_Subset
<1>3. ASSUME NEW i \in 1 .. Cardinality(Kept(p))
      PROVE  Normal(s)[i] = Normal(p)[i]
  <2> DEFINE P == {k \in Kept(p) : Rank(p, k) = i}
             Q == {k \in Kept(s) : Rank(s, k) = i}
  <2>1. P = Q
    <3>1. P \subseteq Q
      BY <1>1
    <3>2. ASSUME NEW k \in Q, k \notin Kept(p) PROVE FALSE
      <4>1. k \in Kept(s) /\ ~(k <= m)
        BY <1>1, <3>2
      <4>2. \A j \in Kept(p) : j < k
        BY <1>1, <4>1, KeptFinite
      <4>3. Cardinality(Kept(p)) < Rank(s, k)
        BY <1>1, <4>1, <4>2, RankGrows
      <4>. QED  BY <1>2, <4>3
    <3>3. \A k \in Q : k \in Kept(p) => k \in P
      BY <1>1
    <3>. QED  BY <3>1, <3>2, <3>3
  <2>2. PICK k \in P : TRUE
    BY DEF Enumerated
  <2>3. KeptAt(s, i) = KeptAt(p, i)
    BY <2>1 DEF KeptAt
  <2>4. KeptAt(p, i) \in Kept(p)
    <3>1. TheOnly(P) \in P
      BY <2>2 DEF TheOnly
    <3>. QED  BY <3>1 DEF KeptAt
  <2>5. KeptAt(p, i) \in 1 .. m
    BY <2>4, KeptFinite
  <2>6. p[KeptAt(p, i)] = s[KeptAt(s, i)]
    BY <2>3, <2>5
  <2>7. i \in 1 .. Cardinality(Kept(s))
    BY <1>2
  <2>. QED  BY <2>6, <2>7 DEF Normal
<1>. QED  BY <1>2, <1>3

LEMMA NormalType ==
  ASSUME NEW s \in Seq(Words), Enumerated(s)
  PROVE  Normal(s) \in Seq(Words) /\ Len(Normal(s)) = Cardinality(Kept(s))
<1>1. Cardinality(Kept(s)) \in Nat
  BY KeptFinite
<1>2. ASSUME NEW i \in 1 .. Cardinality(Kept(s))
      PROVE  AsStored(s[KeptAt(s, i)]) \in Words
  <2> DEFINE P == {k \in Kept(s) : Rank(s, k) = i}
  <2>1. PICK k \in P : TRUE
    BY DEF Enumerated
  <2>2. TheOnly(P) \in P
    BY <2>1 DEF TheOnly
  <2>3. KeptAt(s, i) \in 1 .. Len(s)
    BY <2>2, KeptFinite DEF KeptAt
  <2>4. s[KeptAt(s, i)] \in Words
    BY <2>3, ElementOfSeq
  <2>. QED  BY <2>4 DEF AsStored, Words
<1>3. Normal(s) \in [1 .. Cardinality(Kept(s)) -> Words]
  BY <1>2 DEF Normal
<1>4. Normal(s) \in Seq(Words)
  BY <1>1, <1>3, SeqDef
<1>5. DOMAIN Normal(s) = 1 .. Len(Normal(s)) /\ Len(Normal(s)) \in Nat
  BY <1>4, LenProperties
<1>. QED  BY <1>1, <1>3, <1>4, <1>5

\* A word that does not complete a line end is stored.
LEMMA NormalAppend ==
  ASSUME NEW s \in Seq(Words), NEW w \in Words, Enumerated(s),
         ~(w = "lf" /\ s # <<>> /\ Last(s) = "cr")
  PROVE  /\ Normal(Append(s, w)) = Append(Normal(s), AsStored(w))
         /\ Enumerated(Append(s, w))
<1> DEFINE t == Append(s, w)
           n1 == Len(s) + 1
           C == Cardinality(Kept(s))
<1>1. /\ t \in Seq(Words) /\ Len(t) = n1 /\ Len(s) \in Nat /\ DOMAIN t = 1 .. n1 /\ DOMAIN s = 1 .. Len(s)
      /\ \A k \in 1 .. Len(s) : t[k] = s[k]
      /\ t[n1] = w /\ n1 \in Nat /\ n1 - 1 = Len(s)
  BY AppendProperties, LenProperties
<1> HIDE DEF t
<1>2. Kept(s) = {k \in Kept(t) : k <= Len(s)} /\ \A k \in Kept(s) : Rank(s, k) = Rank(t, k)
  <2>1. Len(s) \in 0 .. Len(t)
    BY <1>1
  <2>. QED  BY <1>1, <2>1, KeptPrefix
<1>3. n1 \in Kept(t)
  <2>1. n1 > 1 => s # <<>> /\ Last(s) = t[n1 - 1]
    <3>1. n1 > 1 => n1 - 1 \in 1 .. Len(s)
      BY <1>1
    <3>2. s = <<>> => Len(s) = 0
      OBVIOUS
    <3>. QED  BY <1>1, <3>1, <3>2 DEF Last
  <2>2. n1 \in 1 .. n1
    BY <1>1
  <2>3. ~(n1 > 1 /\ t[n1] = "lf" /\ t[n1 - 1] = "cr")
    BY <1>1, <2>1
  <2>. QED  BY <1>1, <2>2, <2>3 DEF Kept
<1>4. Kept(t) = Kept(s) \cup {n1} /\ n1 \notin Kept(s)
  <2>1. Kept(t) \subseteq 1 .. n1 /\ Kept(s) \subseteq 1 .. Len(s)
    BY <1>1, KeptFinite
  <2>2. \A k \in 1 .. n1 : k <= Len(s) \/ k = n1
    BY <1>1
  <2>3. n1 \notin 1 .. Len(s)
    BY <1>1
  <2> HIDE DEF n1
  <2>. QED  BY <1>2, <1>3, <2>1, <2>2, <2>3
<1>5. C \in Nat /\ IsFiniteSet(Kept(s)) /\ Cardinality(Kept(t)) = C + 1
  <2>1. C \in Nat /\ IsFiniteSet(Kept(s))
    BY KeptFinite
  <2>. QED  BY <1>4, <2>1, FS_AddElement
<1>6. Rank(t, n1) = C + 1
  <2>1. {j \in Kept(t) : j <= n1} = Kept(t)
    <3>1. \A j \in Kept(t) : j \in 1 .. n1
      BY <1>1, KeptFinite
    <3>. QED  BY <1>1, <3>1
  <2>. QED  BY <1>5, <2>1 DEF Rank
<1>7. \A k \in Kept(s) : Rank(t, k) # C + 1
  <2>1. ASSUME NEW k \in Kept(s) PROVE Rank(t, k) # C + 1
    <3>1. Rank(s, k) \in Nat /\ Rank(s, k) <= C /\ Rank(t, k) = Rank(s, k)
      BY <1>2, KeptFinite
    <3>. QED  BY <1>5, <3>1
  <2>. QED  BY <2>1
<1>8. {k \in Kept(t) : Rank(t, k) = C + 1} = {n1}
  BY <1>4, <1>6, <1>7
<1>9. KeptAt(t, C + 1) = n1
  <2>1. TheOnly({n1}) = n1
    BY DEF TheOnly
  <2>. QED  BY <1>8, <2>1 DEF KeptAt
<1>10. Enumerated(t)
  <2>1. \A i \in 1 .. C + 1 : i \in 1 .. C \/ i = C + 1
    BY <1>5
  <2>. QED  BY <1>2, <1>4, <1>5, <1>6, <2>1 DEF Enumerated
<1>11. Normal(s) \in Seq(Words) /\ Len(Normal(s)) = C /\ Normal(t) \in Seq(Words) /\ Len(Normal(t)) = C + 1
  BY <1>1, <1>5, <1>10, NormalType
<1>12. Normal(t)[C + 1] = AsStored(w)
  BY <1>1, <1>5, <1>9 DEF Normal
<1>13. \A i \in 1 .. C : Normal(t)[i] = Normal(s)[i]
  <2>1. Len(s) \in 0 .. Len(t)
    BY <1>1
  <2>. QED  BY <1>1, <2>1, NormalPrefix
<1>14. AsStored(w) \in Words
  BY DEF AsStored, Words
<1>15. Normal(t) = Append(Normal(s), AsStored(w))
  <2> DEFINE u == Append(Normal(s), AsStored(w))
  <2>1. u \in Seq(Words) /\ Len(u) = C + 1 /\ \A i \in 1 .. C : u[i] = Normal(s)[i]
    BY <1>11, <1>14, AppendProperties
  <2>2. u[C + 1] = AsStored(w)
    BY <1>11, <1>14, AppendProperties
  <2>3. \A i \in 1 .. C + 1 : u[i] = Normal(t)[i]
    BY <1>5, <1>12, <1>13, <2>1, <2>2
  <2> HIDE DEF u, C
  <2>. QED  BY <1>11, <2>1, <2>3, SeqEqual DEF u
<1>. QED  BY <1>10, <1>15 DEF t

\* A "lf" that completes a line end is not.
LEMMA NormalSkip ==
  ASSUME NEW s \in Seq(Words), Enumerated(s), s # <<>>, Last(s) = "cr"
  PROVE  Normal(Append(s, "lf")) = Normal(s) /\ Enumerated(Append(s, "lf"))
<1> DEFINE t == Append(s, "lf")
           n1 == Len(s) + 1
<1>0. "lf" \in Words
  BY DEF Words
<1>1. /\ t \in Seq(Words) /\ Len(t) = n1 /\ Len(s) \in Nat \ {0} /\ DOMAIN t = 1 .. n1 /\ DOMAIN s = 1 .. Len(s)
      /\ \A k \in 1 .. Len(s) : t[k] = s[k]
      /\ t[n1] = "lf" /\ t[n1 - 1] = "cr" /\ n1 \in Nat /\ Len(s) \in 0 .. Len(t)
  BY <1>0, AppendProperties, LenProperties, EmptySeq DEF Last
<1> HIDE DEF t
<1>2. Kept(s) = {k \in Kept(t) : k <= Len(s)} /\ \A k \in Kept(s) : Rank(s, k) = Rank(t, k)
  BY <1>1, KeptPrefix
<1>3. n1 \notin Kept(t)
  <2>1. n1 > 1
    BY <1>1
  <2>. QED  BY <1>1, <2>1 DEF Kept
<1>4. Kept(t) = Kept(s)
  <2>1. Kept(t) \subseteq 1 .. n1
    BY <1>1, KeptFinite
  <2>2. \A k \in 1 .. n1 : k <= Len(s) \/ k = n1
    BY <1>1
  <2> HIDE DEF n1
  <2>. QED  BY <1>2, <1>3, <2>1, <2>2
<1>5. Enumerated(t)
  BY <1>2, <1>4 DEF Enumerated
<1>6. /\ Normal(s) \in Seq(Words) /\ Len(Normal(s)) = Cardinality(Kept(s))
      /\ Normal(t) \in Seq(Words) /\ Len(Normal(t)) = Cardinality(Kept(s))
  BY <1>1, <1>4, <1>5, NormalType
<1>7. \A i \in 1 .. Cardinality(Kept(s)) : Normal(t)[i] = Normal(s)[i]
  BY <1>1, NormalPrefix
<1>8. Normal(t) = Normal(s)
  BY <1>6, <1>7, SeqEqual
<1>. QED  BY <1>5, <1>8 DEF t

EndOf(rest, text) ==
  /\ Len(rest) <= Len(text)
  /\ \A k \in 1 .. Len(rest) : rest[k] = text[Len(text) - Len(rest) + k]

\* A request arrives whole: none of it is there, or a rest of it.
Arrival(c) ==
  /\ unsent[c] \in {<<>>, script[c]}
  /\ unsent[c] # <<>> => inbox[c] = <<>>
  /\ EndOf(inbox[c], script[c])

ReceivedOf(c) == Len(script[c]) - Len(unsent[c]) - Len(inbox[c])

\* Only of the connection that is served, something was received.
Untouched == \A c \in Conns :
  peer[c] = "new" \/ (c \in open \cup backlog /\ c # cur) => ReceivedOf(c) = 0

\* What was stored is the normal form of what was received; a "lf" after a
\* "cr" is received with it.
Stored ==
  IF Serving
  THEN /\ heard = Normal(Consumed(cur)) /\ Enumerated(Consumed(cur))
       /\ Consumed(cur) # <<>> /\ Last(Consumed(cur)) = "cr" /\ inbox[cur] # <<>> =>
            Head(inbox[cur]) # "lf"
  ELSE pc # "exited" => heard = <<>>

LinesInv == Untouched /\ Stored /\ \A c \in Conns : Arrival(c)

\* Receiving one word moves it from the rest of a text to its beginning.
LEMMA ReceiveWord ==
  ASSUME NEW text \in Seq(Words), NEW rest \in Seq(Words), rest # <<>>, EndOf(rest, text)
  PROVE  LET m == Len(text) - Len(rest) IN
         /\ m \in Nat /\ Head(rest) \in Words
         /\ SubSeq(text, 1, m) \in Seq(Words)
         /\ Tail(rest) \in Seq(Words) /\ EndOf(Tail(rest), text)
         /\ Len(text) - Len(Tail(rest)) = m + 1
         /\ SubSeq(text, 1, m + 1) = Append(SubSeq(text, 1, m), Head(rest))
<1> DEFINE m == Len(text) - Len(rest)
<1>1. Len(text) \in Nat /\ Len(rest) \in Nat \ {0} /\ m \in Nat /\ m + 1 \in 1 .. Len(text)
  BY LenProperties, EmptySeq DEF EndOf
<1>2. /\ Head(rest) \in Words /\ Head(rest) = rest[1] /\ Tail(rest) \in Seq(Words)
      /\ Len(Tail(rest)) = Len(rest) - 1 /\ \A i \in 1 .. Len(Tail(rest)) : Tail(rest)[i] = rest[i + 1]
  BY HeadTailProperties
<1>3. EndOf(Tail(rest), text)
  <2>1. ASSUME NEW k \in 1 .. Len(Tail(rest))
        PROVE  Tail(rest)[k] = text[Len(text) - Len(Tail(rest)) + k]
    <3>1. k + 1 \in 1 .. Len(rest) /\ Tail(rest)[k] = rest[k + 1]
      BY <1>1, <1>2
    <3>2. Len(text) - Len(rest) + (k + 1) = Len(text) - Len(Tail(rest)) + k
      BY <1>1, <1>2
    <3>. QED  BY <3>1, <3>2 DEF EndOf
  <2>2. Len(Tail(rest)) <= Len(text)
    BY <1>1, <1>2 DEF EndOf
  <2>. QED  BY <2>1, <2>2 DEF EndOf
<1>4. text[m + 1] = Head(rest)
  BY <1>1, <1>2 DEF EndOf
<1>5. SubSeq(text, 1, m) \in Seq(Words) /\ Len(SubSeq(text, 1, m)) = m
  <2>1. \A i \in 1 .. m : text[i] \in Words
    BY <1>1, ElementOfSeq
  <2>. QED  BY <1>1, <2>1, SubSeqProperties
<1>6. SubSeq(text, 1, m + 1) = Append(SubSeq(text, 1, m), Head(rest))
  <2>1. 1 \in 1 .. Len(text) /\ m + 1 \in 1 .. Len(text) /\ (m + 1) - 1 = m
    BY <1>1
  <2>2. SubSeq(text, 1, m + 1) = SubSeq(text, 1, m) \o <<text[m + 1]>>
    BY <2>1, SubSeqRecursiveSecond
  <2>3. Append(SubSeq(text, 1, m), Head(rest)) = SubSeq(text, 1, m) \o <<Head(rest)>>
    BY <1>2, <1>5, AppendIsConcat
  <2>. QED  BY <1>4, <2>2, <2>3
<1>7. Len(text) - Len(Tail(rest)) = m + 1
  BY <1>1, <1>2
<1>. QED  BY <1>1, <1>2, <1>3, <1>5, <1>6, <1>7

LEMMA NothingConsumed ==
  ASSUME NEW c \in Conns, ReceivedOf(c) = 0
  PROVE  Consumed(c) = <<>> /\ Normal(Consumed(c)) = <<>> /\ Enumerated(Consumed(c))
<1>1. Consumed(c) = <<>>
  <2>1. SubSeq(script[c], 1, 0) = <<>>
    BY SubSeqEmpty
  <2>2. Consumed(c) = SubSeq(script[c], 1, ReceivedOf(c))
    BY DEF Consumed, ReceivedOf
  <2>. QED  BY <2>1, <2>2
<1>2. Kept(<<>>) = {} /\ Cardinality({}) = 0
  BY FS_EmptySet DEF Kept
<1>3. Normal(<<>>) = <<>>
  BY <1>2 DEF Normal
<1>. QED  BY <1>1, <1>2, <1>3 DEF Enumerated

\* Once a request was sent, what was received of it is what is not in the inbox.
LEMMA ReceivedLen ==
  ASSUME NEW c, script[c] \in Seq(Words), inbox[c] \in Seq(Words)
  PROVE  /\ unsent[c] = <<>> =>
              /\ ReceivedOf(c) = Len(script[c]) - Len(inbox[c])
              /\ Consumed(c) = SubSeq(script[c], 1, Len(script[c]) - Len(inbox[c]))
         /\ unsent[c] = <<>> /\ inbox[c] = script[c] => ReceivedOf(c) = 0
         /\ unsent[c] = script[c] /\ inbox[c] = <<>> => ReceivedOf(c) = 0
<1> DEFINE a == Len(script[c])
           b == Len(inbox[c])
           d == Len(unsent[c])
<1>1. a \in Nat /\ b \in Nat /\ ReceivedOf(c) = a - d - b
  BY LenProperties DEF ReceivedOf
<1>2. /\ unsent[c] = <<>> => d = 0
      /\ inbox[c] = <<>> => b = 0
      /\ unsent[c] = script[c] => d = a
      /\ inbox[c] = script[c] => b = a
  OBVIOUS
<1>3. Consumed(c) = SubSeq(script[c], 1, ReceivedOf(c))
  BY DEF Consumed, ReceivedOf
<1> HIDE DEF a, b, d
<1>4. /\ unsent[c] = <<>> => ReceivedOf(c) = a - b
      /\ unsent[c] = <<>> /\ inbox[c] = script[c] => ReceivedOf(c) = 0
      /\ unsent[c] = script[c] /\ inbox[c] = <<>> => ReceivedOf(c) = 0
  BY <1>1, <1>2
<1>. QED  BY <1>3, <1>4 DEF a, b

\* get_line stores the normal form of what it receives, one recv after the other.
LEMMA LinesRecv ==
  ASSUME Inv, Distinct, LinesInv, RecvChar
  PROVE  LinesInv'
<1> DEFINE S == script[cur]
           I == inbox[cur]
           J == Tail(I)
           w == Head(I)
           s == Consumed(cur)
<1>1. cur \in Conns /\ Serving /\ Serving' /\ S \in Seq(Words) /\ I \in Seq(Words) /\ I # <<>>
  BY ServeStep DEF Inv, HandledWhileOpen, TypeOK, RecvChar, Serving
<1>2. /\ UNCHANGED <<cur, open, backlog, peer, script, unsent>>
      /\ unsent[cur] = <<>> /\ EndOf(I, S)
  BY <1>1 DEF RecvChar, LinesInv, Arrival, kernelVars, clientVars
<1>3. /\ s = SubSeq(S, 1, Len(S) - Len(I)) /\ s \in Seq(Words) /\ w \in Words
      /\ J \in Seq(Words) /\ EndOf(J, S) /\ SubSeq(S, 1, Len(S) - Len(J)) = Append(s, w)
      /\ heard = Normal(s) /\ Enumerated(s) /\ (s # <<>> /\ Last(s) = "cr" => w # "lf")
  <2>1. s = SubSeq(S, 1, Len(S) - Len(I))
    BY <1>1, <1>2, ReceivedLen
  <2>2. heard = Normal(s) /\ Enumerated(s) /\ (s # <<>> /\ Last(s) = "cr" => w # "lf")
    BY <1>1 DEF LinesInv, Stored
  <2> HIDE DEF S, I, s
  <2>. QED  BY <1>1, <1>2, <2>1, <2>2, ReceiveWord
<1>4. Normal(Append(s, w)) = Append(heard, AsStored(w)) /\ Enumerated(Append(s, w))
  BY <1>3, NormalAppend
<1>5. Append(s, w) \in Seq(Words) /\ Append(s, w) # <<>> /\ Last(Append(s, w)) = w
  <2>1. Append(s, w) \in Seq(Words) /\ Append(s, w) # <<>> /\ Len(Append(s, w)) = Len(s) + 1
        /\ Append(s, w)[Len(s) + 1] = w
    <3>1. s \in Seq(Words) /\ w \in Words
      BY <1>3
    <3> HIDE DEF s, w
    <3>. QED  BY <3>1, AppendProperties
  <2>. QED  BY <2>1 DEF Last
<1>6. heard' = Append(heard, AsStored(w))
  <2>1. buf' = Append(buf, AsStored(w))
    BY DEF RecvChar, AsStored
  <2>2. AsStored(w) \in Words /\ buf \in Seq(Words)
    BY <1>3 DEF AsStored, Words, Inv, TypeOK
  <2>3. Last(buf') = AsStored(w)
    <3>1. Len(buf') = Len(buf) + 1 /\ buf'[Len(buf) + 1] = AsStored(w)
      BY <2>1, <2>2, AppendProperties
    <3>. QED  BY <3>1 DEF Last
  <2>. QED  BY <2>3 DEF RecvChar
<1>7. \E R \in Seq(Words) :
        /\ inbox' = [inbox EXCEPT ![cur] = R] /\ EndOf(R, S)
        /\ LET t == SubSeq(S, 1, Len(S) - Len(R)) IN
           /\ heard' = Normal(t) /\ Enumerated(t)
           /\ t # <<>> /\ Last(t) = "cr" /\ R # <<>> => Head(R) # "lf"
  <2>1. CASE w = "cr" /\ J # <<>> /\ Head(J) = "lf"
    <3>1. inbox' = [inbox EXCEPT ![cur] = Tail(J)]
      BY <2>1 DEF RecvChar
    <3>2. /\ Tail(J) \in Seq(Words) /\ EndOf(Tail(J), S)
          /\ SubSeq(S, 1, Len(S) - Len(Tail(J))) = Append(Append(s, w), "lf")
      <4>1. S \in Seq(Words) /\ J \in Seq(Words) /\ J # <<>> /\ EndOf(J, S)
        BY <1>1, <1>3, <2>1
      <4> HIDE DEF J, S, s, w
      <4>2. /\ Tail(J) \in Seq(Words) /\ EndOf(Tail(J), S)
            /\ Len(S) - Len(Tail(J)) = Len(S) - Len(J) + 1
            /\ SubSeq(S, 1, Len(S) - Len(J) + 1) = Append(SubSeq(S, 1, Len(S) - Len(J)), Head(J))
        BY <4>1, ReceiveWord
      <4>. QED  BY <1>3, <2>1, <4>2
    <3>3. Normal(Append(Append(s, w), "lf")) = heard' /\ Enumerated(Append(Append(s, w), "lf"))
      BY <1>4, <1>5, <1>6, <2>1, NormalSkip
    <3>4. Last(Append(Append(s, w), "lf")) = "lf"
      <4>1. "lf" \in Words
        BY DEF Words
      <4>2. /\ Len(Append(Append(s, w), "lf")) = Len(Append(s, w)) + 1
            /\ Append(Append(s, w), "lf")[Len(Append(s, w)) + 1] = "lf"
        BY <1>5, <4>1, AppendProperties
      <4>. QED  BY <4>2 DEF Last
    <3>. QED  BY <3>1, <3>2, <3>3, <3>4
  <2>2. CASE ~(w = "cr" /\ J # <<>> /\ Head(J) = "lf")
    <3>1. inbox' = [inbox EXCEPT ![cur] = J]
      BY <2>2 DEF RecvChar
    <3>. QED  BY <1>3, <1>4, <1>5, <1>6, <2>2, <3>1
  <2>. QED  BY <2>1, <2>2
<1>8. PICK R \in Seq(Words) :
        /\ inbox' = [inbox EXCEPT ![cur] = R] /\ EndOf(R, S)
        /\ LET t == SubSeq(S, 1, Len(S) - Len(R)) IN
           /\ heard' = Normal(t) /\ Enumerated(t)
           /\ t # <<>> /\ Last(t) = "cr" /\ R # <<>> => Head(R) # "lf"
  BY <1>7
<1>9. /\ inbox'[cur] = R /\ \A c \in Conns : c # cur => inbox'[c] = inbox[c]
  BY <1>1, <1>8 DEF Inv, TypeOK
<1>10. Consumed(cur)' = SubSeq(S, 1, Len(S) - Len(R))
  <2>1. Len(S) \in Int /\ Len(R) \in Int /\ Len(unsent[cur]) = 0
    BY <1>1, <1>2, LenProperties
  <2>. QED  BY <1>2, <1>9, <2>1 DEF Consumed
<1>11. Stored'
  BY <1>1, <1>2, <1>8, <1>9, <1>10 DEF Stored
<1>12. \A c \in Conns : Arrival(c)'
  BY <1>2, <1>8, <1>9 DEF LinesInv, Arrival
<1>13. Untouched'
  <2>1. peer[cur] # "new"
    BY <1>1 DEF Inv, HandledWhileOpen, Distinct
  <2>. QED  BY <1>2, <1>9, <2>1 DEF LinesInv, Untouched, ReceivedOf
<1>. QED  BY <1>11, <1>12, <1>13 DEF LinesInv

LEMMA LinesServer ==
  ASSUME Inv, Distinct, LinesInv, Server
  PROVE  LinesInv'
<1> USE DEF Inv
<1>1. CASE RecvChar
  BY <1>1, LinesRecv
<1>2. CASE EpollWait \/ DispatchDone \/ AcceptError \/ DoAccept
  <2>1. /\ ~Serving /\ ~Serving' /\ cur = Nobody /\ pc # "exited"
        /\ UNCHANGED <<cur, heard, peer, script, unsent, inbox>>
        /\ open' \cup backlog' \subseteq open \cup backlog
    BY <1>2 DEF EpollWait, DispatchDone, AcceptError, DoAccept, Goes, InPlace, Serving,
                readVars, kernelVars, clientVars
  <2>. QED  BY <2>1 DEF LinesInv, Untouched, ReceivedOf, Stored, Arrival
<1>3. CASE DoRead
  <2>1. /\ ~Serving /\ Serving' /\ cur = Nobody /\ cur' \in Conns /\ cur' \in open /\ pc # "exited"
        /\ UNCHANGED <<heard, peer, script, unsent, inbox, open, backlog>>
    BY <1>3 DEF DoRead, Goes, InPlace, Serving, HandledWhileOpen, TypeOK,
                readVars, kernelVars, clientVars
  <2>2. ReceivedOf(cur') = 0
    BY <2>1, Names DEF LinesInv, Untouched
  <2>3. Consumed(cur') = <<>> /\ Normal(Consumed(cur')) = <<>> /\ Enumerated(Consumed(cur'))
    BY <2>1, <2>2, NothingConsumed
  <2>4. Consumed(cur)' = Consumed(cur')
    BY <2>1 DEF Consumed
  <2>5. Stored'
    BY <2>1, <2>3, <2>4 DEF LinesInv, Stored
  <2>. QED  BY <2>1, <2>5, Names DEF LinesInv, Untouched, ReceivedOf, Arrival
<1>4. CASE ClientClosed
  <2>1. /\ Serving /\ Serving' /\ open' \subseteq open
        /\ UNCHANGED <<cur, heard, peer, script, unsent, backlog>>
    BY <1>4 DEF ClientClosed, Goes, Close, Serving, readVars, clientVars
  <2>2. inbox' = [inbox EXCEPT ![cur] = <<>>] /\ inbox[cur] = <<>>
    BY <1>4, ClosedSilently DEF ClientClosed, Close
  <2>3. inbox' = inbox
    BY <2>2 DEF TypeOK
  <2>4. Consumed(cur)' = Consumed(cur)
    BY <2>1, <2>3 DEF Consumed
  <2>. QED  BY <2>1, <2>3, <2>4 DEF LinesInv, Untouched, ReceivedOf, Stored, Arrival
<1>5. CASE Disconnect
  <2>1. /\ pc' = "dispatch" /\ cur \in open /\ open' = open \ {cur} /\ cur \in Conns
        /\ heard' = <<>> /\ inbox' = [inbox EXCEPT ![cur] = <<>>]
        /\ UNCHANGED <<peer, script, unsent, backlog>>
    BY <1>5 DEF Disconnect, Close, Goes, TypeOK, clientVars
  <2>2. \A c \in Conns : c # cur => inbox'[c] = inbox[c]
    BY <2>1 DEF TypeOK
  <2>3. Untouched'
    BY <2>1, <2>2 DEF LinesInv, Untouched, ReceivedOf, Distinct
  <2>4. ASSUME NEW c \in Conns PROVE Arrival(c)'
    <3>1. CASE c = cur
      <4>1. inbox'[c] = <<>> /\ script[c] \in Seq(Words)
        BY <2>1, <3>1 DEF TypeOK
      <4>2. Len(script[c]) \in Nat
        BY <4>1, LenProperties
      <4>3. EndOf(<<>>, script[c])
        BY <4>2 DEF EndOf
      <4>. QED  BY <2>1, <4>1, <4>3 DEF LinesInv, Arrival
    <3>2. CASE c # cur
      BY <2>1, <2>2, <3>2 DEF LinesInv, Arrival
    <3>. QED  BY <3>1, <3>2
  <2>. QED  BY <2>1, <2>3, <2>4 DEF LinesInv, Stored, Serving
<1>6. CASE \/ RecvNothing \/ RequestLine \/ HeaderLine \/ HeadersDone
           \/ HttpRequest \/ SendError \/ SendRespondHead \/ SendDir \/ OpenFile \/ SendChunk \/ FileSent
  <2>1. /\ Serving /\ pc' \notin {"wait", "dispatch"}
        /\ UNCHANGED <<cur, open, backlog, peer>>
    BY <1>6, ServeStep
  <2>2. UNCHANGED <<heard, script, unsent, inbox>>
    BY <1>6 DEF RecvNothing, RequestLine, HeaderLine, HeadersDone, HttpRequest, SendError, SendRespondHead,
                SendDir, OpenFile, SendChunk, FileSent, PutOrExit, readVars, clientVars
  <2>3. Consumed(cur)' = Consumed(cur)
    BY <2>1, <2>2 DEF Consumed
  <2>. QED  BY <2>1, <2>2, <2>3 DEF LinesInv, Untouched, ReceivedOf, Stored, Arrival, Serving
<1>7. CASE DisconnectAgain
  <2>1. /\ pc' = "exited" /\ ~Serving'
        /\ UNCHANGED <<cur, open, backlog, peer, script, unsent, inbox>>
    BY <1>7 DEF DisconnectAgain, Goes, Serving, kernelVars, clientVars
  <2>. QED  BY <2>1 DEF LinesInv, Untouched, ReceivedOf, Stored, Arrival
<1>. QED  BY <1>1, <1>2, <1>3, <1>4, <1>5, <1>6, <1>7 DEF Server

\* A client sends its whole request at once, or does not touch it.
LEMMA SendsWhole ==
  ASSUME Inv, ~Segmented, \A c \in Conns : Arrival(c), NEW c \in Conns, Send(c)
  PROVE  /\ unsent[c] = script[c] /\ inbox[c] = <<>>
         /\ inbox' = [inbox EXCEPT ![c] = script[c]] /\ unsent' = [unsent EXCEPT ![c] = <<>>]
<1> DEFINE U == unsent[c]
<1>1. U \in Seq(Words) /\ U # <<>> /\ U = script[c] /\ inbox[c] = <<>>
  BY DEF Inv, TypeOK, Send, Arrival
<1>2. Len(U) \in Nat \ {0}
  BY <1>1, EmptySeq
<1>3. PICK k \in Len(U) .. Len(U) :
        /\ inbox' = [inbox EXCEPT ![c] = inbox[c] \o SubSeq(U, 1, k)]
        /\ unsent' = [unsent EXCEPT ![c] = SubSeq(U, k + 1, Len(U))]
  BY DEF Send
<1>4. k = Len(U)
  BY <1>2
<1> HIDE DEF U
<1>5. SubSeq(U, 1, Len(U)) = U /\ SubSeq(U, Len(U) + 1, Len(U)) = <<>> /\ <<>> \o U = U
  <2>1. SubSeq(U, 1, Len(U)) = U
    BY <1>1, SubSeqFull
  <2>2. SubSeq(U, Len(U) + 1, Len(U)) = <<>>
    BY <1>2, SubSeqEmpty
  <2>3. <<>> \o U = U
    BY <1>1, ConcatEmptySeq
  <2>. QED  BY <2>1, <2>2, <2>3
<1>. QED  BY <1>1, <1>3, <1>4, <1>5 DEF U

\* Nothing of it was received before, and nothing by sending it.
LEMMA SentUnread ==
  ASSUME Inv, ~Segmented, \A c \in Conns : Arrival(c), NEW c \in Conns, Send(c), UNCHANGED script
  PROVE  ReceivedOf(c) = 0 /\ ReceivedOf(c)' = 0
<1>1. /\ unsent[c] = script[c] /\ inbox[c] = <<>>
      /\ inbox' = [inbox EXCEPT ![c] = script[c]] /\ unsent' = [unsent EXCEPT ![c] = <<>>]
  BY SendsWhole
<1>2. script[c] \in Seq(Words) /\ inbox[c] \in Seq(Words) /\ Len(script[c]) \in Nat
  BY LenProperties DEF Inv, TypeOK
<1>3. ReceivedOf(c) = 0
  BY <1>1, <1>2, ReceivedLen
<1>4. ReceivedOf(c)' = Len(script[c]) - Len(<<>>) - Len(script[c])
  BY <1>1 DEF Inv, TypeOK, ReceivedOf
<1>5. Len(<<>>) = 0
  OBVIOUS
<1>. QED  BY <1>2, <1>3, <1>4, <1>5

LEMMA LinesClients ==
  ASSUME Inv, Distinct, LinesInv, ~Segmented, pc # "exited", Clients
  PROVE  LinesInv'
<1>1. UNCHANGED <<pc, cur, heard, open, script>>
  BY DEF Clients, readVars
<1>2. PICK c \in Conns : Connect(c) \/ Send(c) \/ ReadPiece(c) \/ Finish(c) \/ Leave(c)
  BY DEF Clients
<1>3. CASE Connect(c) \/ ReadPiece(c) \/ Finish(c) \/ Leave(c)
  <2>1. UNCHANGED <<unsent, inbox>> /\ backlog' \subseteq backlog \cup {c}
        /\ (peer[c] = "new" \/ backlog' = backlog)
        /\ \A d \in Conns : peer'[d] = "new" => peer[d] = "new"
    BY <1>3 DEF Inv, TypeOK, Connect, ReadPiece, Finish, Leave
  <2>2. Consumed(cur)' = Consumed(cur)
    BY <1>1, <2>1 DEF Consumed
  <2>. QED  BY <1>1, <2>1, <2>2 DEF LinesInv, Untouched, ReceivedOf, Stored, Arrival, Serving
<1>4. CASE Send(c)
  <2>1. /\ unsent[c] = script[c] /\ inbox[c] = <<>>
        /\ inbox' = [inbox EXCEPT ![c] = script[c]] /\ unsent' = [unsent EXCEPT ![c] = <<>>]
    BY <1>4, SendsWhole DEF LinesInv
  <2>2. /\ UNCHANGED <<backlog, peer>> /\ inbox'[c] = script[c] /\ unsent'[c] = <<>>
        /\ \A d \in Conns : d # c => inbox'[d] = inbox[d] /\ unsent'[d] = unsent[d]
    BY <1>4, <2>1 DEF Send, Inv, TypeOK
  <2>3. script[c] \in Seq(Words) /\ Len(script[c]) \in Nat
    BY LenProperties DEF Inv, TypeOK
  <2>4. ReceivedOf(c) = 0 /\ ReceivedOf(c)' = 0
    BY <1>1, <1>4, SentUnread DEF LinesInv
  <2>5. \A d \in Conns : d # c => ReceivedOf(d)' = ReceivedOf(d) /\ Consumed(d)' = Consumed(d)
    BY <1>1, <2>2 DEF ReceivedOf, Consumed
  <2>6. Untouched'
    BY <1>1, <2>2, <2>4, <2>5 DEF LinesInv, Untouched
  <2>7. ASSUME NEW d \in Conns PROVE Arrival(d)'
    <3>1. EndOf(script[c], script[c])
      BY <2>3 DEF EndOf
    <3>. QED  BY <1>1, <2>2, <3>1 DEF LinesInv, Arrival
  <2>8. Stored'
    <3>1. CASE ~Serving
      BY <1>1, <3>1 DEF LinesInv, Stored, Serving
    <3>2. CASE Serving /\ cur # c
      <4>1. cur \in Conns
        BY <3>2 DEF Inv, InPlace
      <4>. QED  BY <1>1, <2>2, <2>5, <3>2, <4>1 DEF LinesInv, Stored, Serving
    <3>3. CASE Serving /\ cur = c
      <4>1. Consumed(c) = <<>>
        BY <2>4, NothingConsumed
      <4>2. Consumed(c)' = <<>>
        <5>1. SubSeq(script[c], 1, 0) = <<>>
          BY SubSeqEmpty
        <5>2. Consumed(c)' = SubSeq(script[c], 1, ReceivedOf(c)')
          BY <1>1 DEF Consumed, ReceivedOf
        <5>. QED  BY <2>4, <5>1, <5>2
      <4>. QED  BY <1>1, <3>3, <4>1, <4>2 DEF LinesInv, Stored, Serving
    <3>. QED  BY <3>1, <3>2, <3>3
  <2>. QED  BY <2>6, <2>7, <2>8 DEF LinesInv
<1>. QED  BY <1>2, <1>3, <1>4

LEMMA LinesInit == Init => LinesInv
<1> SUFFICES ASSUME Init PROVE LinesInv
  OBVIOUS
<1>1. TypeOK
  BY TypeInit
<1>2. ASSUME NEW c \in Conns PROVE ReceivedOf(c) = 0 /\ Arrival(c)
  <2>1. /\ script[c] \in Seq(Words) /\ inbox[c] \in Seq(Words)
        /\ unsent[c] = script[c] /\ inbox[c] = <<>>
    BY <1>1 DEF Init, TypeOK
  <2>2. ReceivedOf(c) = 0
    BY <2>1, ReceivedLen
  <2>3. EndOf(<<>>, script[c])
    BY <2>1, LenProperties DEF EndOf
  <2>. QED  BY <2>1, <2>2, <2>3 DEF Arrival
<1>. QED  BY <1>2 DEF Init, LinesInv, Untouched, Stored, Serving

LEMMA LinesNext == ~Segmented /\ Inv /\ OrderInv /\ LinesInv /\ [Next]_vars => LinesInv'
<1>1. LinesInv /\ UNCHANGED vars => LinesInv'
  <2> SUFFICES ASSUME LinesInv, UNCHANGED vars PROVE LinesInv'
    OBVIOUS
  <2>1. UNCHANGED <<pc, cur, heard, open, backlog, peer, script, unsent, inbox>>
    BY DEF vars, readVars, kernelVars, clientVars
  <2>2. Consumed(cur)' = Consumed(cur)
    BY <2>1 DEF Consumed
  <2>. QED  BY <2>1, <2>2 DEF LinesInv, Untouched, ReceivedOf, Stored, Arrival, Serving
<1>. QED  BY <1>1, LinesServer, LinesClients DEF Next, OrderInv

\* The lines of get_line are those the client sent, if requests arrive whole:
\* each of "\r\n", "\r" and "\n" ends one line, and nothing is lost.  (In
\* pieces, a "\n" that comes later than its "\r" is a line of its own.)
THEOREM HttpReadsLines == ASSUME ~Segmented PROVE Spec => []LinesAreRead
<1>1. LinesInv => LinesAreRead
  BY DEF LinesInv, Stored, LinesAreRead
<1>. QED  BY <1>1, LinesInit, LinesNext, InvInit, InvNext, OrderInit, OrderNext, PTL DEF Spec

-----------------------------------------------------------------------------
(* Requests *)

\* The line get_line is at: the end of what it stored, from where a line
\* begins.  Only the last word of it may end a line.
Gathered ==
  LET h == Len(heard)
      b == Len(buf) IN
  /\ b <= h /\ \A i \in 1 .. b : heard[h - b + i] = buf[i]
  /\ \A i \in 1 .. b : buf[i] = "lf" => i = b
  /\ b < h => heard[h - b] = "lf" \/ (inbox[cur] = <<>> /\ b = 0)

\* Once something was received, a recv without data means it was all received.
Exhausted == n # "data" /\ heard # <<>> => inbox[cur] = <<>>

\* Between two connections nothing is left of a line.
Blank == buf = <<>> /\ n = "data" /\ line = <<>>

\* Every client has one of the requests.
Scripts == script \in [Conns -> Requests]

RequestInv ==
  /\ Scripts
  /\ pc \in {"line", "headers"} =>
       Gathered /\ Exhausted /\ (line # <<>> => heard # <<>>)
  /\ pc \in {"request", "respond", "page", "open", "body"} =>
       inbox[cur] = <<>> /\ unsent[cur] = <<>>
  /\ pc \in {"wait", "dispatch"} => Blank


LEMMA ScriptStays == Server \/ Clients => UNCHANGED script
<1>1. Server => UNCHANGED script
  BY DEF Server, EpollWait, DispatchDone, DoAccept, AcceptError, RecvChar, RecvNothing, DoRead, ClientClosed,
         RequestLine, HeaderLine, HeadersDone, Disconnect, DisconnectAgain, HttpRequest, SendError,
         SendRespondHead, SendDir, OpenFile, SendChunk, FileSent, PutOrExit, clientVars
<1>2. Clients => UNCHANGED script
  BY DEF Clients
<1>. QED  BY <1>1, <1>2

LEMMA ScriptsNext == Scripts /\ [Next]_vars => Scripts'
BY ScriptStays DEF Next, vars, clientVars, Scripts

\* Who was heard has sent the request.
LEMMA HeardSent ==
  ASSUME Inv, LinesInv, Serving, heard # <<>>
  PROVE  unsent[cur] = <<>>
<1>1. cur \in Conns /\ script[cur] \in Seq(Words) /\ inbox[cur] \in Seq(Words)
  BY DEF Inv, InPlace, TypeOK
<1>2. ASSUME unsent[cur] # <<>> PROVE FALSE
  <2>1. unsent[cur] = script[cur] /\ inbox[cur] = <<>>
    BY <1>1, <1>2 DEF LinesInv, Arrival
  <2>2. ReceivedOf(cur) = 0
    BY <1>1, <2>1, ReceivedLen
  <2>3. Normal(Consumed(cur)) = <<>>
    BY <1>1, <2>2, NothingConsumed
  <2>. QED  BY <2>3 DEF LinesInv, Stored
<1>. QED  BY <1>2

\* What is stored is a beginning of the normal form of the request, and not
\* all of it as long as something is to be received.
LEMMA HeardPrefix ==
  ASSUME Inv, LinesInv, Serving
  PROVE  LET N == Normal(script[cur]) IN
         /\ Len(heard) \in Nat
         /\ \A i \in 1 .. Len(heard) : i \in DOMAIN N /\ N[i] = heard[i]
         /\ inbox[cur] # <<>> => Len(heard) + 1 \in DOMAIN N
         /\ DOMAIN N \subseteq Nat
<1> DEFINE S == script[cur]
           I == inbox[cur]
           s == Consumed(cur)
           C == Cardinality(Kept(S))
<1>1. cur \in Conns /\ S \in Seq(Words) /\ I \in Seq(Words) /\ heard \in Seq(Words) /\ EndOf(I, S)
  BY DEF Inv, InPlace, TypeOK, LinesInv, Arrival
<1>2. heard = Normal(s) /\ Enumerated(s) /\ (s # <<>> /\ Last(s) = "cr" /\ I # <<>> => Head(I) # "lf")
  BY DEF LinesInv, Stored
<1>3. C \in Nat /\ DOMAIN Normal(S) = 1 .. C
  BY <1>1, KeptFinite DEF Normal
<1>4. ASSUME NEW p \in Seq(Words), NEW m \in 0 .. Len(S), p = SubSeq(S, 1, m), Enumerated(p)
      PROVE  /\ Len(Normal(p)) \in Nat /\ Len(Normal(p)) <= C
             /\ \A i \in 1 .. Len(Normal(p)) : Normal(S)[i] = Normal(p)[i]
  <2>1. Len(S) \in Nat
    BY <1>1, LenProperties
  <2>2. Len(p) = m /\ \A k \in 1 .. m : p[k] = S[k]
    <3>1. \A i \in 1 .. m : S[i] \in Words
      BY <1>1, <2>1, ElementOfSeq
    <3> HIDE DEF S
    <3>. QED  BY <1>4, <2>1, <3>1, SubSeqProperties
  <2>3. Len(Normal(p)) = Cardinality(Kept(p)) /\ Cardinality(Kept(p)) \in Nat
    BY <1>4, NormalType, KeptFinite
  <2> HIDE DEF S
  <2>4. /\ Cardinality(Kept(p)) <= Cardinality(Kept(S))
        /\ \A i \in 1 .. Cardinality(Kept(p)) : Normal(S)[i] = Normal(p)[i]
    BY <1>1, <1>4, <2>2, NormalPrefix
  <2>. QED  BY <2>3, <2>4 DEF C
<1>5. CASE unsent[cur] # <<>>
  <2>1. heard = <<>> /\ I = <<>>
    BY <1>1, <1>5, HeardSent DEF LinesInv, Arrival
  <2>. QED  BY <1>3, <2>1
<1>6. CASE unsent[cur] = <<>>
  <2> DEFINE m == Len(S) - Len(I)
  <2>1. s = SubSeq(S, 1, m)
    BY <1>1, <1>6, ReceivedLen
  <2>2. m \in 0 .. Len(S) /\ Len(S) \in Nat /\ Len(I) \in Nat
    <3>1. Len(S) \in Nat /\ Len(I) \in Nat /\ Len(I) <= Len(S)
      BY <1>1, LenProperties DEF EndOf
    <3> HIDE DEF S, I
    <3>. QED  BY <3>1
  <2>3. s \in Seq(Words)
    <3>1. \A i \in 1 .. m : S[i] \in Words
      BY <1>1, <2>2, ElementOfSeq
    <3> HIDE DEF S, m
    <3>. QED  BY <1>1, <2>1, <2>2, <3>1, SubSeqProperties
  <2>4. /\ Len(heard) \in Nat /\ Len(heard) <= C
        /\ \A i \in 1 .. Len(heard) : Normal(S)[i] = heard[i]
    <3> HIDE DEF S, m, s, C
    <3>. QED  BY <1>2, <1>4, <2>1, <2>2, <2>3
  <2>5. ASSUME I # <<>> PROVE Len(heard) + 1 <= C
    <3> DEFINE t == Append(s, Head(I))
    <3>1. Head(I) \in Words /\ t = SubSeq(S, 1, m + 1) /\ m + 1 \in 0 .. Len(S)
      <4>1. Head(I) \in Words /\ t = SubSeq(S, 1, m + 1)
        <5> HIDE DEF S, I, m, s, C
        <5>1. S \in Seq(Words) /\ I \in Seq(Words) /\ I # <<>> /\ EndOf(I, S)
          BY <1>1, <2>5
        <5>2. /\ Head(I) \in Words
              /\ SubSeq(S, 1, Len(S) - Len(I) + 1) = Append(SubSeq(S, 1, Len(S) - Len(I)), Head(I))
          BY <5>1, ReceiveWord
        <5>. QED  BY <2>1, <5>2 DEF m
      <4>2. Len(I) # 0
        BY <1>1, <2>5, EmptySeq
      <4>3. m + 1 \in 0 .. Len(S)
        <5> HIDE DEF S, I
        <5>. QED  BY <2>2, <4>2
      <4>. QED  BY <4>1, <4>3
    <3>2. Normal(t) = Append(heard, AsStored(Head(I))) /\ Enumerated(t) /\ t \in Seq(Words)
      <4> HIDE DEF s, I
      <4>1. ~(Head(I) = "lf" /\ s # <<>> /\ Last(s) = "cr")
        BY <1>2, <2>5
      <4>. QED  BY <1>2, <2>3, <3>1, <4>1, NormalAppend, AppendProperties
    <3>3. Len(Normal(t)) = Len(heard) + 1
      <4>1. AsStored(Head(I)) \in Words
        BY <3>1 DEF AsStored, Words
      <4>. QED  BY <1>1, <3>2, <4>1, AppendProperties
    <3> HIDE DEF t, S, m, C
    <3>. QED  BY <1>4, <3>1, <3>2, <3>3
  <2>. QED  BY <1>3, <2>4, <2>5
<1>. QED  BY <1>5, <1>6

\* get_line returns at the end of a line, or all was received.
LEMMA LineEnds ==
  ASSUME Inv, LinesInv, pc \in {"line", "headers"}, Gathered, Exhausted, LineDone,
         WellFormed(Normal(script[cur])), heard # <<>>, inbox[cur] # <<>>
  PROVE  heard[Len(heard)] = "lf"
<1> DEFINE N == Normal(script[cur])
           h == Len(heard)
           b == Len(buf)
<1>0. Serving
  BY DEF Serving
<1>1. /\ h \in Nat /\ \A i \in 1 .. h : i \in DOMAIN N /\ N[i] = heard[i]
      /\ b \in Nat /\ b <= h /\ LINE \in Nat \ {0} /\ buf \in Seq(Words)
  BY <1>0, HeardPrefix, HttpAssumption, LenProperties DEF Inv, TypeOK, Gathered
<1>2. n = "data"
  BY DEF Exhausted
<1>3. CASE b = LINE
  <2> DEFINE i == h - b + 1
  <2>1. i \in 1 .. h /\ i + LINE - 1 = h /\ h \in 1 .. h
    BY <1>1, <1>3
  <2>2. i \in DOMAIN N /\ i + LINE - 1 \in DOMAIN N
    BY <1>1, <2>1
  <2>3. PICK k \in i .. i + LINE - 1 : N[k] = "lf"
    BY <2>2 DEF WellFormed
  <2>4. k \in 1 .. h /\ heard[k] = "lf" /\ k - (h - b) \in 1 .. b /\ h - b + (k - (h - b)) = k
    BY <1>1, <2>1, <2>3
  <2>5. buf[k - (h - b)] = "lf"
    BY <2>4 DEF Gathered
  <2>6. k - (h - b) = b
    BY <2>4, <2>5 DEF Gathered
  <2>. QED  BY <1>1, <2>4, <2>6
<1>4. CASE buf # <<>> /\ Last(buf) = "lf"
  <2>1. b \in 1 .. b /\ h - b + b = h /\ buf[b] = "lf"
    BY <1>1, <1>4, EmptySeq DEF Last
  <2>. QED  BY <2>1 DEF Gathered
<1>. QED  BY <1>2, <1>3, <1>4 DEF LineDone

\* An empty line is the end of a request.
LEMMA EmptyLineEnds ==
  ASSUME Inv, LinesInv, pc \in {"line", "headers"}, Gathered, WellFormed(Normal(script[cur])),
         buf # <<>>, Head(buf) = "lf"
  PROVE  inbox[cur] = <<>>
<1> SUFFICES ASSUME inbox[cur] # <<>> PROVE FALSE
  OBVIOUS
<1> DEFINE N == Normal(script[cur])
           h == Len(heard)
           b == Len(buf)
           p == h - b + 1
<1>1. /\ h \in Nat /\ \A i \in 1 .. h : i \in DOMAIN N /\ N[i] = heard[i]
      /\ h + 1 \in DOMAIN N
  BY HeardPrefix DEF Serving
<1>2. b \in Nat \ {0} /\ b <= h /\ buf[1] = "lf"
  BY EmptySeq, HeadTailProperties DEF Inv, TypeOK, Gathered
<1>3. p \in 1 .. h /\ 1 \in 1 .. b /\ (p = 1 \/ p - 1 \in 1 .. h) /\ p - 1 = h - b
  BY <1>1, <1>2
<1>4. heard[p] = "lf"
  BY <1>2, <1>3 DEF Gathered
<1>5. p = 1 \/ heard[p - 1] = "lf"
  <2>1. b < h => heard[h - b] = "lf"
    BY DEF Gathered
  <2>. QED  BY <1>1, <1>2, <1>3, <2>1
<1>6. p \in DOMAIN N /\ N[p] = "lf" /\ (p = 1 \/ N[p - 1] = "lf")
  BY <1>1, <1>3, <1>4, <1>5
<1>7. h + 1 <= p
  <2> HIDE DEF p, h
  <2>. QED  BY <1>1, <1>6 DEF WellFormed
<1>. QED  BY <1>1, <1>3, <1>7

\* A word more of the line.
LEMMA GatherWord ==
  ASSUME Inv, Gathered, RecvChar
  PROVE  /\ Gathered' /\ Exhausted' /\ heard' # <<>>
<1> DEFINE b == Len(buf)
           h == Len(heard)
<1>1. cur \in Conns /\ inbox[cur] \in Seq(Words) /\ inbox[cur] # <<>>
  BY DEF RecvChar, Reading, Inv, HandledWhileOpen, Serving, TypeOK
<1>2. buf \in Seq(Words) /\ heard \in Seq(Words) /\ b \in Nat /\ h \in Nat
  BY LenProperties DEF Inv, TypeOK
<1>3. PICK x \in Words : buf' = Append(buf, x)
  <2>1. Head(inbox[cur]) \in Words /\ "lf" \in Words
    BY <1>1, HeadTailProperties DEF Words
  <2>. QED  BY <2>1 DEF RecvChar
<1>4. /\ buf' \in Seq(Words) /\ Len(buf') = b + 1 /\ buf'[b + 1] = x
      /\ \A i \in 1 .. b : buf'[i] = buf[i]
  BY <1>2, <1>3, AppendProperties
<1>5. heard' = Append(heard, x)
  BY <1>4 DEF RecvChar, Last
<1>6. /\ heard' \in Seq(Words) /\ Len(heard') = h + 1 /\ heard'[h + 1] = x
      /\ \A i \in 1 .. h : heard'[i] = heard[i]
  BY <1>2, <1>5, AppendProperties
<1>7. \A i \in 1 .. b : buf[i] # "lf"
  <2>1. ~(buf # <<>> /\ Last(buf) = "lf")
    BY DEF RecvChar, Reading, LineDone
  <2>2. ASSUME NEW i \in 1 .. b, buf[i] = "lf" PROVE FALSE
    <3>1. i = b
      BY <2>2 DEF Gathered
    <3>2. buf # <<>>
      BY <1>2, EmptySeq
    <3>. QED  BY <2>1, <2>2, <3>1, <3>2 DEF Last
  <2>. QED  BY <2>2
<1>8. /\ b <= h /\ \A i \in 1 .. b : heard[h - b + i] = buf[i]
      /\ b < h => heard[h - b] = "lf"
  BY <1>1 DEF Gathered
<1>9. Gathered'
  <2> HIDE DEF b, h
  <2>1. Len(buf') <= Len(heard') /\ Len(heard') - Len(buf') = h - b
    BY <1>2, <1>4, <1>6, <1>8
  <2>2. ASSUME NEW i \in 1 .. b + 1 PROVE heard'[h - b + i] = buf'[i]
    <3>1. CASE i \in 1 .. b
      <4>1. h - b + i \in 1 .. h
        BY <1>2, <1>8, <3>1
      <4>. QED  BY <1>4, <1>6, <1>8, <3>1, <4>1
    <3>2. CASE i = b + 1
      <4>1. h - b + i = h + 1
        BY <1>2, <3>2
      <4>. QED  BY <1>4, <1>6, <3>2, <4>1
    <3>. QED  BY <1>2, <3>1, <3>2
  <2>3. \A i \in 1 .. b + 1 : buf'[i] = "lf" => i = b + 1
    BY <1>2, <1>4, <1>7
  <2>4. b + 1 < h + 1 => heard'[h - b] = "lf"
    <3>1. b < h => h - b \in 1 .. h
      BY <1>2
    <3>. QED  BY <1>2, <1>6, <1>8, <3>1
  <2>. QED  BY <1>4, <1>6, <2>1, <2>2, <2>3, <2>4 DEF Gathered
<1>10. Exhausted'
  <2>1. n' # "data" => inbox'[cur'] = <<>>
    BY <1>1 DEF RecvChar, NoData, Inv, TypeOK, kernelVars
  <2>. QED  BY <2>1 DEF Exhausted
<1>11. heard' # <<>>
  BY <1>2, <1>6, EmptySeq
<1>. QED  BY <1>9, <1>10, <1>11

LEMMA RequestServer ==
  ASSUME Inv, LinesInv, RequestInv, \A r \in Requests : WellFormed(Normal(r)), Server
  PROVE  /\ pc' \in {"line", "headers"} =>
              Gathered' /\ Exhausted' /\ (line' # <<>> => heard' # <<>>)
         /\ pc' \in {"request", "respond", "page", "open", "body"} =>
              inbox'[cur'] = <<>> /\ unsent'[cur'] = <<>>
         /\ pc' \in {"wait", "dispatch"} => Blank'
<1>0. Serving => cur \in Conns /\ WellFormed(Normal(script[cur]))
  BY DEF Inv, InPlace, TypeOK, RequestInv, Scripts
<1>1. CASE EpollWait \/ DispatchDone \/ DoAccept \/ AcceptError
  <2>1. pc \in {"wait", "dispatch"} /\ pc' \in {"wait", "dispatch", "exited"} /\ UNCHANGED readVars
    BY <1>1 DEF EpollWait, DispatchDone, DoAccept, AcceptError, Goes
  <2>. QED  BY <2>1 DEF RequestInv, Blank, readVars
<1>2. CASE DoRead
  <2>1. pc = "dispatch" /\ pc' = "line" /\ UNCHANGED <<buf, n, line, heard>>
    BY <1>2 DEF DoRead, Goes, readVars
  <2>2. heard' = <<>> /\ buf' = <<>> /\ line' = <<>>
    BY <2>1 DEF RequestInv, Blank, LinesInv, Stored, Serving
  <2>3. Gathered'
    <3>1. Len(heard') = 0 /\ Len(buf') = 0
      BY <2>2
    <3>. QED  BY <3>1 DEF Gathered
  <2>. QED  BY <2>1, <2>2, <2>3 DEF Exhausted
<1>3. CASE RecvChar
  <2>1. pc \in {"line", "headers"} /\ pc' = pc
    BY <1>3 DEF RecvChar, Reading
  <2>. QED  BY <1>3, <2>1, GatherWord DEF RequestInv
<1>4. CASE RecvNothing
  <2>1. /\ pc \in {"line", "headers"} /\ pc' = pc /\ inbox'[cur'] = <<>>
        /\ UNCHANGED <<buf, heard, line, cur, inbox>>
    BY <1>4 DEF RecvNothing, Reading
  <2>. QED  BY <2>1 DEF RequestInv, Gathered, Exhausted
<1>5. CASE RequestLine \/ HeaderLine
  <2>1. /\ pc \in {"line", "headers"} /\ LineDone /\ pc' = "headers" /\ buf' = <<>> /\ n' = "data"
        /\ UNCHANGED <<heard, cur, inbox>> /\ line' \in {line, buf}
    BY <1>5 DEF RequestLine, HeaderLine, Goes
  <2>2. Len(buf) <= Len(heard) /\ heard \in Seq(Words) /\ buf \in Seq(Words)
    BY <2>1 DEF RequestInv, Gathered, Inv, TypeOK
  <2>3. heard # <<>> => heard[Len(heard)] = "lf" \/ inbox[cur] = <<>>
    BY <1>0, <2>1, LineEnds DEF RequestInv, Serving
  <2>4. heard = <<>> => buf = <<>>
    <3>1. Len(buf) \in Nat /\ (Len(buf) = 0 => buf = <<>>)
      BY <2>2, EmptySeq, LenProperties
    <3>2. heard = <<>> => Len(heard) = 0
      OBVIOUS
    <3>. QED  BY <2>2, <3>1, <3>2
  <2>5. Gathered'
    <3>1. Len(buf') = 0 /\ Len(heard') = Len(heard) /\ Len(heard) \in Nat
      BY <2>1, <2>2, LenProperties
    <3>2. Len(heard) > 0 => heard # <<>>
      OBVIOUS
    <3>3. Len(heard) - 0 = Len(heard)
      BY <3>1
    <3>. QED  BY <2>1, <2>3, <3>1, <3>2, <3>3 DEF Gathered
  <2>6. line' # <<>> => heard' # <<>>
    BY <2>1, <2>4 DEF RequestInv
  <2>. QED  BY <2>1, <2>5, <2>6 DEF Exhausted
<1>6. CASE HeadersDone
  <2>1. /\ pc = "headers" /\ pc' \in {"request", "close"} /\ HeadersEnd
        /\ pc' = "request" => line # <<>>
        /\ UNCHANGED <<cur, inbox, unsent>>
    BY <1>6 DEF HeadersDone, Goes, clientVars
  <2>2. ASSUME pc' = "request" PROVE inbox[cur] = <<>> /\ unsent[cur] = <<>>
    <3>1. heard # <<>> /\ Gathered /\ Exhausted
      BY <2>1, <2>2 DEF RequestInv
    <3>2. unsent[cur] = <<>>
      BY <2>1, <3>1, HeardSent DEF Serving
    <3>3. CASE buf # <<>> /\ Head(buf) = "lf"
      BY <1>0, <2>1, <3>1, <3>2, <3>3, EmptyLineEnds DEF Serving
    <3>4. CASE LineLen = -1
      <4>1. Len(buf) \in Nat
        BY LenProperties DEF Inv, TypeOK
      <4>2. n = "again"
        BY <3>4, <4>1 DEF LineLen
      <4>. QED  BY <3>1, <3>2, <4>2 DEF Exhausted
    <3>. QED  BY <2>1, <3>3, <3>4 DEF HeadersEnd
  <2>. QED  BY <2>1, <2>2
<1>7. CASE HttpRequest \/ SendError \/ SendRespondHead \/ SendDir \/ OpenFile \/ SendChunk \/ FileSent
  <2>1. /\ pc \in {"request", "respond", "page", "open", "body"}
        /\ pc' \in {"respond", "page", "open", "body", "close", "exited"}
        /\ UNCHANGED <<cur, inbox, unsent>>
    BY <1>7 DEF HttpRequest, SendError, SendRespondHead, SendDir, OpenFile, SendChunk, FileSent,
                PutOrExit, Goes, clientVars
  <2>. QED  BY <2>1 DEF RequestInv
<1>8. CASE ClientClosed \/ Disconnect \/ DisconnectAgain
  BY <1>8 DEF ClientClosed, Disconnect, DisconnectAgain, Goes, Blank
<1>. QED  BY <1>1, <1>2, <1>3, <1>4, <1>5, <1>6, <1>7, <1>8 DEF Server

LEMMA RequestClients ==
  ASSUME Inv, LinesInv, RequestInv, ~Segmented, Clients
  PROVE  /\ pc' \in {"line", "headers"} =>
              Gathered' /\ Exhausted' /\ (line' # <<>> => heard' # <<>>)
         /\ pc' \in {"request", "respond", "page", "open", "body"} =>
              inbox'[cur'] = <<>> /\ unsent'[cur'] = <<>>
         /\ pc' \in {"wait", "dispatch"} => Blank'
<1>1. UNCHANGED <<pc, cur, buf, n, line, heard>>
  BY DEF Clients, readVars
<1>2. PICK c \in Conns : Connect(c) \/ Send(c) \/ ReadPiece(c) \/ Finish(c) \/ Leave(c)
  BY DEF Clients
<1>3. \/ UNCHANGED <<inbox, unsent>>
      \/ unsent[c] # <<>> /\ \A d \in Conns : d # c => inbox'[d] = inbox[d] /\ unsent'[d] = unsent[d]
  <2>1. CASE Send(c)
    <3>1. unsent[c] # <<>>
      BY <2>1 DEF Send
    <3>2. inbox' = [inbox EXCEPT ![c] = script[c]] /\ unsent' = [unsent EXCEPT ![c] = <<>>]
      BY <2>1, SendsWhole DEF LinesInv
    <3>. QED  BY <3>1, <3>2 DEF Inv, TypeOK
  <2>. QED  BY <1>2, <2>1 DEF Connect, ReadPiece, Finish, Leave
<1>4. Serving => cur \in Conns
  BY DEF Inv, InPlace
<1>5. pc \in {"request", "respond", "page", "open", "body"} =>
        inbox'[cur] = <<>> /\ unsent'[cur] = <<>>
  BY <1>3, <1>4 DEF RequestInv, Serving
<1>6. pc \in {"line", "headers"} /\ heard # <<>> => inbox'[cur] = inbox[cur]
  BY <1>3, <1>4, HeardSent DEF Serving
<1>7. pc \in {"line", "headers"} /\ heard = <<>> => Len(buf) = 0 /\ Len(heard) = 0
  <2>1. heard = <<>> => Len(heard) = 0
    OBVIOUS
  <2>2. Len(buf) \in Nat
    BY LenProperties DEF Inv, TypeOK
  <2>. QED  BY <2>1, <2>2 DEF RequestInv, Gathered
<1>8. pc \in {"line", "headers"} => Gathered' /\ Exhausted'
  <2>1. ASSUME pc \in {"line", "headers"}, heard # <<>> PROVE Gathered' /\ Exhausted'
    BY <1>1, <1>6, <2>1 DEF RequestInv, Gathered, Exhausted
  <2>2. ASSUME pc \in {"line", "headers"}, heard = <<>> PROVE Gathered' /\ Exhausted'
    <3>1. Len(buf') = 0 /\ Len(heard') = 0 /\ heard' = <<>>
      BY <1>1, <1>7, <2>2
    <3>. QED  BY <3>1 DEF Gathered, Exhausted
  <2>. QED  BY <2>1, <2>2
<1>. QED  BY <1>1, <1>5, <1>8 DEF RequestInv, Blank

LEMMA RequestInit == Init => RequestInv
BY DEF Init, RequestInv, Scripts, Blank

LEMMA RequestNext ==
  /\ ~Segmented /\ (\A r \in Requests : WellFormed(Normal(r)))
  /\ Inv /\ LinesInv /\ RequestInv /\ [Next]_vars
  => RequestInv'
<1>1. RequestInv /\ UNCHANGED vars => RequestInv'
  BY DEF vars, readVars, kernelVars, clientVars, RequestInv, Scripts, Gathered, Exhausted, Blank
<1>2. RequestInv => Scripts
  BY DEF RequestInv
<1>. QED  BY <1>1, <1>2, ScriptsNext, RequestServer, RequestClients DEF Next, RequestInv

\* The empty line that ends the loop over the headers is the one that ends the
\* request, if requests arrive whole and no line of theirs is longer than the
\* array: otherwise the rest of a long line that is only its end looks empty.
THEOREM HttpAnswersWholeRequest ==
  ASSUME ~Segmented, \A r \in Requests : WellFormed(Normal(r))
  PROVE  Spec => []AnswersWholeRequest
<1>1. RequestInv => AnswersWholeRequest
  BY DEF RequestInv, AnswersWholeRequest
<1>. QED  BY <1>1, RequestInit, RequestNext, LinesInit, LinesNext, InvInit, InvNext, OrderInit, OrderNext, PTL DEF Spec

-----------------------------------------------------------------------------
(* The path of a request, which may arrive in pieces *)

\* What of a request was not received yet, whether it was sent or not.
Rest(c) == inbox[c] \o unsent[c]

\* Of a connection that is not served yet, nothing was received.
Fresh == \A c \in Conns :
  c # cur /\ (peer[c] = "new" \/ c \in open \cup backlog) => Rest(c) = script[c]

\* How many words of the request of the connection at hand were received.
Got == Len(script[cur]) - Len(Rest(cur))

\* The first word and, of a "get", the target are stored as they were sent.
Begins ==
  LET r == script[cur] IN
  /\ EndOf(Rest(cur), r)
  /\ Got = 0 => buf = <<>>
  /\ Got = 1 => Len(buf) = 1
  /\ Got >= 1 => buf # <<>> /\ buf[1] = r[1]
  /\ Got >= 2 /\ r[1] = "get" => Len(buf) >= 2 /\ buf[2] = r[2]

\* The line of a request has its first words, as far as it goes.
Taken ==
  LET r == script[cur] IN
  /\ line # <<>> => line[1] = r[1]
  /\ Len(line) < 2 => cur \in cut
  /\ Len(line) >= 2 /\ r[1] = "get" => line[2] = r[2]

\* The response is the one to the path that was sent.
Answered == cur \in cut \/ (script[cur][1] = "get" /\ target = script[cur][2])

PathInv ==
  /\ Scripts /\ Fresh
  /\ pc = "line" => Begins
  /\ pc \in {"headers", "request"} => Taken
  /\ pc = "request" => script[cur][1] = "get"
  /\ pc \in {"respond", "page", "open", "body"} => Answered

LEMMA TailConcat ==
  ASSUME NEW s \in Seq(Words), NEW t \in Seq(Words), s # <<>>
  PROVE  /\ s \o t \in Seq(Words) /\ s \o t # <<>> /\ Head(s \o t) = Head(s)
         /\ Tail(s \o t) = Tail(s) \o t
<1> DEFINE u == s \o t
           v == Tail(s) \o t
<1>1. Len(s) \in Nat \ {0} /\ Len(t) \in Nat
  BY EmptySeq, LenProperties
<1>2. /\ u \in Seq(Words) /\ Len(u) = Len(s) + Len(t)
      /\ \A i \in 1 .. Len(s) + Len(t) : u[i] = IF i <= Len(s) THEN s[i] ELSE t[i - Len(s)]
  BY ConcatProperties
<1>3. /\ Tail(s) \in Seq(Words) /\ Len(Tail(s)) = Len(s) - 1
      /\ \A i \in 1 .. Len(Tail(s)) : Tail(s)[i] = s[i + 1]
  BY HeadTailProperties
<1>4. /\ v \in Seq(Words) /\ Len(v) = Len(Tail(s)) + Len(t)
      /\ \A i \in 1 .. Len(Tail(s)) + Len(t) :
           v[i] = IF i <= Len(Tail(s)) THEN Tail(s)[i] ELSE t[i - Len(Tail(s))]
  BY <1>3, ConcatProperties
<1> HIDE DEF u, v
<1>5. u # <<>> /\ u[1] = s[1]
  <2>1. Len(u) # 0 /\ 1 \in 1 .. Len(s) + Len(t) /\ 1 <= Len(s)
    BY <1>1, <1>2
  <2>2. u # <<>>
    BY <1>2, <2>1, EmptySeq
  <2>. QED  BY <1>2, <2>1, <2>2
<1>6. /\ Tail(u) \in Seq(Words) /\ Len(Tail(u)) = Len(u) - 1
      /\ \A i \in 1 .. Len(Tail(u)) : Tail(u)[i] = u[i + 1]
  BY <1>2, <1>5, HeadTailProperties
<1>7. Len(Tail(u)) = Len(v)
  BY <1>1, <1>2, <1>3, <1>4, <1>6
<1>8. ASSUME NEW i \in 1 .. Len(v) PROVE Tail(u)[i] = v[i]
  <2>1. i \in Nat \ {0} /\ i <= Len(s) - 1 + Len(t)
    BY <1>1, <1>3, <1>4
  <2>2. Tail(u)[i] = u[i + 1] /\ i + 1 \in 1 .. Len(s) + Len(t)
    BY <1>1, <1>6, <1>7, <2>1
  <2>3. CASE i <= Len(s) - 1
    <3>1. u[i + 1] = s[i + 1]
      BY <1>1, <1>2, <2>1, <2>2, <2>3
    <3>2. v[i] = Tail(s)[i] /\ Tail(s)[i] = s[i + 1]
      BY <1>1, <1>3, <1>4, <2>1, <2>3
    <3>. QED  BY <2>2, <3>1, <3>2
  <2>4. CASE ~(i <= Len(s) - 1)
    <3>1. u[i + 1] = t[i + 1 - Len(s)]
      BY <1>1, <1>2, <2>1, <2>2, <2>4
    <3>2. v[i] = t[i - (Len(s) - 1)]
      BY <1>1, <1>3, <1>4, <2>1, <2>4
    <3>3. i + 1 - Len(s) = i - (Len(s) - 1)
      BY <1>1, <2>1
    <3>. QED  BY <2>2, <3>1, <3>2, <3>3
  <2>. QED  BY <2>3, <2>4
<1>9. Tail(u) = v
  BY <1>4, <1>6, <1>7, <1>8, SeqEqual
<1>. QED  BY <1>2, <1>5, <1>9 DEF u, v

\* Concatenation of words is associative.
LEMMA Concatenated ==
  \A s, t, u \in Seq(Words) : (s \o t) \o u = s \o (t \o u)
BY ConcatAssociative

\* Sending moves words from one part of the rest to the other.
LEMMA SendKeepsRest ==
  ASSUME Inv, NEW c \in Conns, Send(c)
  PROVE  \A d \in Conns : Rest(d)' = Rest(d)
<1> DEFINE U == unsent[c]
<1>1. U \in Seq(Words) /\ U # <<>> /\ inbox[c] \in Seq(Words) /\ Len(U) \in Nat \ {0}
  BY EmptySeq, LenProperties DEF Inv, TypeOK, Send
<1>2. PICK k \in (IF Segmented THEN 1 ELSE Len(U)) .. Len(U) :
        /\ inbox' = [inbox EXCEPT ![c] = inbox[c] \o SubSeq(U, 1, k)]
        /\ unsent' = [unsent EXCEPT ![c] = SubSeq(U, k + 1, Len(U))]
  BY DEF Send
<1>3. k \in 1 .. Len(U)
  BY <1>1
<1> HIDE DEF U
<1>4. SubSeq(U, 1, k) \in Seq(Words) /\ SubSeq(U, k + 1, Len(U)) \in Seq(Words)
  <2>1. (\A i \in 1 .. k : U[i] \in Words) /\ (\A i \in k + 1 .. Len(U) : U[i] \in Words)
    BY <1>1, <1>3, ElementOfSeq
  <2>. QED  BY <1>1, <1>3, <2>1, SubSeqProperties
<1>5. SubSeq(U, 1, k) \o SubSeq(U, k + 1, Len(U)) = U
  <2>1. 1 \in 1 .. Len(U) + 1 /\ k \in 1 - 1 .. Len(U) /\ Len(U) \in k .. Len(U)
    BY <1>1, <1>3
  <2>2. SubSeq(U, 1, k) \o SubSeq(U, k + 1, Len(U)) = SubSeq(U, 1, Len(U))
    BY <1>1, <2>1, ConcatAdjacentSubSeq
  <2>. QED  BY <1>1, <2>2, SubSeqFull
<1>6. (inbox[c] \o SubSeq(U, 1, k)) \o SubSeq(U, k + 1, Len(U)) = inbox[c] \o U
  <2> DEFINE I == inbox[c]
             P == SubSeq(U, 1, k)
             Q == SubSeq(U, k + 1, Len(U))
  <2>1. I \in Seq(Words) /\ P \in Seq(Words) /\ Q \in Seq(Words) /\ P \o Q = U
    BY <1>1, <1>4, <1>5
  <2> HIDE DEF I, P, Q
  <2>2. (I \o P) \o Q = I \o (P \o Q)
    BY <2>1, Concatenated
  <2>. QED  BY <2>1, <2>2 DEF I, P, Q
<1>7. ASSUME NEW d \in Conns PROVE Rest(d)' = Rest(d)
  <2>1. CASE d = c
    <3>1. inbox'[d] = inbox[c] \o SubSeq(U, 1, k) /\ unsent'[d] = SubSeq(U, k + 1, Len(U))
      BY <1>2, <2>1 DEF Inv, TypeOK
    <3>. QED  BY <1>6, <2>1, <3>1 DEF Rest, U
  <2>2. CASE d # c
    BY <1>2, <2>2 DEF Inv, TypeOK, Rest
  <2>. QED  BY <2>1, <2>2
<1>. QED  BY <1>7

\* get_line stores the next word of the request as it is, or a line's end.
LEMMA BeginsRecv ==
  ASSUME Inv, Begins, RecvChar, WellAsked(script[cur])
  PROVE  Begins'
<1> DEFINE S == script[cur]
           I == inbox[cur]
           U == unsent[cur]
           w == Head(I)
           m == Got
<1>1. /\ cur \in Conns /\ S \in Seq(Words) /\ I \in Seq(Words) /\ I # <<>> /\ U \in Seq(Words)
      /\ buf \in Seq(Words)
  BY DEF RecvChar, Reading, Inv, InPlace, Serving, TypeOK
<1>2. UNCHANGED <<cur, unsent, script>> /\ EndOf(I \o U, S)
  BY DEF RecvChar, Begins, Rest, clientVars
<1>3. w \in Words /\ Tail(I) \in Seq(Words) /\ (Tail(I) # <<>> => Tail(Tail(I)) \in Seq(Words))
  BY <1>1, HeadTailProperties
<1>4. /\ I \o U \in Seq(Words) /\ I \o U # <<>> /\ Head(I \o U) = w /\ Tail(I \o U) = Tail(I) \o U
      /\ Tail(I) # <<>> => Tail(Tail(I) \o U) = Tail(Tail(I)) \o U /\ Tail(I) \o U # <<>>
      /\ Tail(I) \o U \in Seq(Words)
  <2> HIDE DEF I, U
  <2>1. /\ I \o U \in Seq(Words) /\ I \o U # <<>> /\ Head(I \o U) = Head(I)
        /\ Tail(I \o U) = Tail(I) \o U
    BY <1>1, TailConcat
  <2>2. Tail(I) # <<>> => Tail(Tail(I) \o U) = Tail(Tail(I)) \o U /\ Tail(I) \o U # <<>>
    BY <1>1, <1>3, TailConcat
  <2>3. Tail(I) \o U \in Seq(Words)
    BY <1>1, <1>3, ConcatProperties
  <2>. QED  BY <2>1, <2>2, <2>3
<1>5. /\ m \in Nat /\ w = S[m + 1] /\ EndOf(Tail(I) \o U, S) /\ Len(S) - Len(Tail(I) \o U) = m + 1
  <2> DEFINE Q == I \o U
  <2>1. Q \in Seq(Words) /\ Q # <<>> /\ EndOf(Q, S) /\ m = Len(S) - Len(Q) /\ Head(Q) = w
        /\ Tail(Q) = Tail(I) \o U
    BY <1>2, <1>4 DEF Got, Rest
  <2> HIDE DEF Q, S, I, U, w, m
  <2>2. S \in Seq(Words)
    BY <1>1
  <2>3. /\ m \in Nat /\ EndOf(Tail(Q), S) /\ Len(S) - Len(Tail(Q)) = m + 1
    BY <2>1, <2>2, ReceiveWord
  <2>4. Q[1] = S[m + 1] /\ Head(Q) = Q[1]
    <3>1. Len(Q) # 0 /\ Len(Q) \in Nat
      BY <2>1, EmptySeq, LenProperties
    <3>2. 1 \in 1 .. Len(Q)
      BY <3>1
    <3>. QED  BY <2>1, <3>2 DEF EndOf
  <2>. QED  BY <2>1, <2>3, <2>4
<1>6. \E R \in Seq(Words) :
        /\ inbox' = [inbox EXCEPT ![cur] = R] /\ EndOf(R \o U, S)
        /\ \/ Len(S) - Len(R \o U) = m + 1
           \/ Len(S) - Len(R \o U) = m + 2 /\ w = "cr"
  <2>1. CASE w = "cr" /\ Tail(I) # <<>> /\ Head(Tail(I)) = "lf"
    <3>1. inbox' = [inbox EXCEPT ![cur] = Tail(Tail(I))]
      BY <2>1 DEF RecvChar
    <3>2. /\ EndOf(Tail(Tail(I)) \o U, S) /\ Len(S) - Len(Tail(Tail(I)) \o U) = m + 2
      <4> DEFINE Q == Tail(I) \o U
                 V == Tail(Tail(I)) \o U
      <4>1. Q \in Seq(Words) /\ Q # <<>> /\ EndOf(Q, S) /\ Len(S) - Len(Q) = m + 1 /\ Tail(Q) = V
        BY <1>4, <1>5, <2>1
      <4> HIDE DEF Q, V, S, I, U, w, m
      <4>2. EndOf(Tail(Q), S) /\ Len(S) - Len(Tail(Q)) = Len(S) - Len(Q) + 1
        BY <1>1, <4>1, ReceiveWord
      <4>3. m + 1 + 1 = m + 2
        BY <1>5
      <4>4. EndOf(V, S) /\ Len(S) - Len(V) = m + 2
        BY <4>1, <4>2, <4>3
      <4>. QED  BY <4>4 DEF V
    <3>. QED  BY <1>3, <2>1, <3>1, <3>2
  <2>2. CASE ~(w = "cr" /\ Tail(I) # <<>> /\ Head(Tail(I)) = "lf")
    <3>1. inbox' = [inbox EXCEPT ![cur] = Tail(I)]
      BY <2>2 DEF RecvChar
    <3>. QED  BY <1>3, <1>5, <3>1
  <2>. QED  BY <2>1, <2>2
<1>7. EndOf(Rest(cur), script[cur])' /\ (Got' = m + 1 \/ (Got' = m + 2 /\ w = "cr"))
  <2>1. PICK R \in Seq(Words) :
          /\ inbox' = [inbox EXCEPT ![cur] = R] /\ EndOf(R \o U, S)
          /\ \/ Len(S) - Len(R \o U) = m + 1
             \/ Len(S) - Len(R \o U) = m + 2 /\ w = "cr"
    BY <1>6
  <2>2. Rest(cur)' = R \o U /\ script'[cur'] = S
    BY <1>1, <1>2, <2>1 DEF Rest, Inv, TypeOK
  <2>3. Got' = Len(S) - Len(R \o U)
    BY <2>2 DEF Got
  <2>. QED  BY <2>1, <2>2, <2>3
<1>8. /\ buf' = Append(buf, AsStored(w)) /\ AsStored(w) \in Words
  BY <1>3 DEF AsStored, Words, RecvChar
<1>9. /\ Len(buf') = Len(buf) + 1 /\ buf' # <<>> /\ Len(buf) \in Nat
      /\ buf'[Len(buf) + 1] = AsStored(w)
      /\ \A i \in 1 .. Len(buf) : buf'[i] = buf[i]
  BY <1>1, <1>8, AppendProperties, LenProperties
<1>10. script'[cur'] = S
  BY <1>2
<1>11. CASE m = 0
  <2>1. w = S[1]
    <3>1. m + 1 = 1
      BY <1>11
    <3>. QED  BY <1>5, <3>1
  <2>2. w \notin {"cr", "lf"} /\ AsStored(w) = w
    BY <2>1 DEF WellAsked, AsStored
  <2>3. Len(buf) = 0
    BY <1>11 DEF Begins
  <2>4. Got' = 1
    BY <1>7, <1>11, <2>2
  <2> HIDE DEF S, w
  <2>5. Len(buf') = 1 /\ buf' # <<>> /\ buf'[1] = S[1]
    BY <1>9, <2>1, <2>2, <2>3
  <2>. QED  BY <1>7, <1>10, <2>4, <2>5 DEF Begins
<1>12. CASE m = 1
  <2>1. Len(buf) = 1 /\ buf[1] = S[1]
    BY <1>12 DEF Begins
  <2>2. w = S[2]
    <3>1. m + 1 = 2
      BY <1>12
    <3>. QED  BY <1>5, <3>1
  <2>3. S[1] = "get" => AsStored(w) = S[2]
    BY <2>2 DEF WellAsked, AsStored, Targets
  <2>4. Got' \in {2, 3}
    BY <1>7, <1>12
  <2> HIDE DEF S, w
  <2>5. /\ Len(buf') = 2 /\ buf' # <<>> /\ buf'[1] = S[1]
        /\ S[1] = "get" => buf'[2] = S[2]
    BY <1>9, <2>1, <2>3
  <2>. QED  BY <1>7, <1>10, <2>4, <2>5 DEF Begins
<1>13. CASE m >= 2
  <2>1. buf # <<>> /\ buf[1] = S[1] /\ (S[1] = "get" => Len(buf) >= 2 /\ buf[2] = S[2])
    BY <1>5, <1>13 DEF Begins
  <2>2. 1 \in 1 .. Len(buf) /\ (S[1] = "get" => 2 \in 1 .. Len(buf))
    BY <1>1, <1>9, <2>1, EmptySeq
  <2>3. Got' >= 2
    <3>1. m \in Nat /\ (Got' = m + 1 \/ Got' = m + 2)
      BY <1>5, <1>7
    <3> HIDE DEF m
    <3>. QED  BY <1>13, <3>1
  <2> HIDE DEF S, w
  <2>4. /\ buf' # <<>> /\ buf'[1] = S[1]
        /\ S[1] = "get" => Len(buf') >= 2 /\ buf'[2] = S[2]
    BY <1>9, <2>1, <2>2
  <2>5. Got' # 0 /\ Got' # 1
    BY <2>3
  <2>. QED  BY <1>7, <1>10, <2>4, <2>5 DEF Begins
<1>. QED  BY <1>5, <1>11, <1>12, <1>13

\* The request line has the first words of the request, or it is cut.
LEMMA LineTaken ==
  ASSUME Inv, Begins, RequestLine
  PROVE  Taken'
<1> DEFINE S == script[cur]
           m == Got
           l == Len(buf)
<1>1. /\ pc = "line" /\ cur \in Conns /\ line' = buf /\ UNCHANGED <<cur, script>>
      /\ cut' = IF l < 2 THEN cut \cup {cur} ELSE cut
  BY DEF RequestLine, Goes, Serving, Inv, InPlace, clientVars
<1>2. buf \in Seq(Words) /\ l \in Nat /\ (buf = <<>> <=> l = 0)
  BY EmptySeq, LenProperties DEF Inv, TypeOK
<1>3. m \in Nat
  <2>1. Len(S) \in Nat /\ Len(Rest(cur)) \in Nat /\ Len(Rest(cur)) <= Len(S)
    <3>1. S \in Seq(Words) /\ Rest(cur) \in Seq(Words)
      BY <1>1, ConcatProperties DEF Inv, TypeOK, Rest
    <3>2. EndOf(Rest(cur), S)
      BY DEF Begins
    <3>. QED  BY <3>1, <3>2, LenProperties DEF EndOf
  <2>2. m = Len(S) - Len(Rest(cur))
    BY DEF Got
  <2> HIDE DEF m, S
  <2>. QED  BY <2>1, <2>2
<1>4. /\ m = 0 => l = 0
      /\ m = 1 => l = 1
      /\ m >= 1 => buf[1] = S[1]
      /\ m >= 2 /\ S[1] = "get" => buf[2] = S[2]
  BY <1>2 DEF Begins
<1>5. line'[1] = S[1] \/ line' = <<>>
  <2> HIDE DEF m, l, S
  <2>. QED  BY <1>1, <1>2, <1>3, <1>4
<1>6. l >= 2 => m >= 2
  <2> HIDE DEF m, l, S
  <2>. QED  BY <1>2, <1>3, <1>4
<1>7. Len(line') = l /\ cur' = cur /\ script'[cur'] = S
  BY <1>1
<1>. QED  BY <1>1, <1>4, <1>5, <1>6, <1>7 DEF Taken

LEMMA PathServer ==
  ASSUME Inv, Distinct, PathInv, \A r \in Requests : WellAsked(r), Server
  PROVE  PathInv'
<1> USE DEF Inv
<1>0. /\ Scripts' /\ (Serving => cur \in Conns /\ WellAsked(script[cur]))
  <2>1. Scripts
    BY DEF PathInv
  <2>2. Scripts'
    BY <2>1, ScriptStays DEF Scripts
  <2>. QED  BY <2>1, <2>2 DEF InPlace, Scripts
<1>1. CASE EpollWait \/ DispatchDone \/ AcceptError \/ DoAccept
  <2>1. /\ pc' \in {"wait", "dispatch", "exited"}
        /\ UNCHANGED <<cur, script, unsent, inbox, peer>>
        /\ open' \cup backlog' \subseteq open \cup backlog
    BY <1>1 DEF EpollWait, DispatchDone, AcceptError, DoAccept, Goes, kernelVars, clientVars
  <2>. QED  BY <1>0, <2>1 DEF PathInv, Fresh, Rest
<1>2. CASE DoRead
  <2>1. /\ pc = "dispatch" /\ pc' = "line" /\ cur = Nobody /\ cur' \in Conns /\ cur' \in open
        /\ buf = <<>> /\ UNCHANGED <<buf, script, unsent, inbox, peer, open, backlog>>
    BY <1>2 DEF DoRead, Goes, InPlace, HandledWhileOpen, TypeOK, Collected,
                readVars, kernelVars, clientVars
  <2>2. Rest(cur') = script[cur'] /\ script[cur'] \in Seq(Words)
    BY <2>1, Names DEF PathInv, Fresh, TypeOK
  <2>3. EndOf(script[cur'], script[cur']) /\ Len(script[cur']) - Len(script[cur']) = 0
    <3>1. Len(script[cur']) \in Nat
      BY <2>2, LenProperties
    <3>. QED  BY <3>1 DEF EndOf
  <2>4. Rest(cur)' = script[cur'] /\ Got' = 0 /\ script'[cur'] = script[cur']
    BY <2>1, <2>2, <2>3 DEF Rest, Got
  <2>5. Begins'
    BY <2>1, <2>3, <2>4 DEF Begins
  <2>. QED  BY <1>0, <2>1, <2>5, Names DEF PathInv, Fresh, Rest
<1>3. CASE RecvChar
  <2>1. /\ pc \in {"line", "headers"} /\ UNCHANGED <<pc, cur, open, backlog, peer, script, unsent, line, cut>>
        /\ \A c \in Conns : c # cur => inbox'[c] = inbox[c]
    BY <1>3, ServeStep DEF RecvChar, Reading, clientVars, history
  <2>2. pc = "line" => Begins'
    BY <1>0, <1>3, <2>1, BeginsRecv DEF PathInv, Serving
  <2>3. Fresh'
    BY <2>1 DEF PathInv, Fresh, Rest
  <2>. QED  BY <1>0, <2>1, <2>2, <2>3 DEF PathInv, Taken
<1>4. CASE RecvNothing
  <2>1. UNCHANGED <<pc, cur, open, backlog, peer, script, unsent, inbox, buf, line, target, cut>>
    BY <1>4 DEF RecvNothing, kernelVars, clientVars, respVars, history
  <2>2. Begins' = Begins
    BY <2>1 DEF Begins, Rest, Got
  <2>. QED  BY <1>0, <2>1, <2>2 DEF PathInv, Fresh, Rest, Taken, Answered
<1>5. CASE RequestLine
  <2>1. pc = "line" /\ pc' = "headers" /\ UNCHANGED <<cur, open, backlog, peer, script, unsent, inbox>>
    BY <1>5 DEF RequestLine, Goes, kernelVars, clientVars
  <2>2. Taken'
    BY <1>5, <2>1, LineTaken DEF PathInv
  <2>. QED  BY <1>0, <2>1, <2>2 DEF PathInv, Fresh, Rest
<1>6. CASE HeaderLine \/ HeadersDone
  <2>1. /\ pc = "headers" /\ pc' \in {"headers", "request", "close"}
        /\ UNCHANGED <<cur, open, backlog, peer, script, unsent, inbox, line, cut>>
        /\ pc' = "request" => line # <<>> /\ Head(line) = "get"
    BY <1>6 DEF HeaderLine, HeadersDone, Goes, readVars, kernelVars, clientVars, history
  <2>2. pc' = "request" => script'[cur'][1] = "get"
    <3>1. line # <<>> => Head(line) = line[1]
      BY HeadTailProperties DEF TypeOK
    <3>. QED  BY <2>1, <3>1 DEF PathInv, Taken
  <2>. QED  BY <1>0, <2>1, <2>2 DEF PathInv, Fresh, Rest, Taken
<1>7. CASE HttpRequest
  <2>1. /\ pc = "request" /\ pc' = "respond"
        /\ UNCHANGED <<cur, open, backlog, peer, script, unsent, inbox, cut>>
        /\ target' \in IF Len(line) > 1 /\ line[2] \in Targets THEN {line[2]} ELSE Targets
    BY <1>7 DEF HttpRequest, Goes, kernelVars, clientVars, history
  <2>2. Answered'
    <3>1. script[cur][1] = "get" /\ Taken /\ WellAsked(script[cur]) /\ Len(line) \in Nat
      BY <1>0, <2>1, LenProperties DEF PathInv, TypeOK, Serving
    <3>2. CASE Len(line) < 2
      BY <2>1, <3>1, <3>2 DEF Answered, Taken
    <3>3. CASE Len(line) >= 2
      <4>1. line[2] = script[cur][2] /\ line[2] \in Targets /\ Len(line) > 1
        BY <3>1, <3>3 DEF Taken, WellAsked
      <4>. QED  BY <2>1, <3>1, <4>1 DEF Answered
    <3>. QED  BY <3>1, <3>2, <3>3
  <2>. QED  BY <1>0, <2>1, <2>2 DEF PathInv, Fresh, Rest
<1>8. CASE SendError \/ SendRespondHead \/ SendDir \/ OpenFile \/ SendChunk \/ FileSent \/ DisconnectAgain
  <2>1. /\ pc' \in {"page", "open", "body", "close", "exited"}
        /\ pc \in {"respond", "page", "open", "body"} \/ pc' = "exited"
        /\ UNCHANGED <<cur, open, backlog, peer, script, unsent, inbox, target, cut>>
    BY <1>8 DEF SendError, SendRespondHead, SendDir, OpenFile, SendChunk, FileSent, DisconnectAgain,
                PutOrExit, Goes, kernelVars, respVars, clientVars, history
  <2>. QED  BY <1>0, <2>1 DEF PathInv, Fresh, Rest, Answered
<1>9. CASE ClientClosed \/ Disconnect
  <2>1. /\ pc' \in {"close", "dispatch"} /\ cur \in open /\ open' = open \ {cur} /\ cur' \in {cur, Nobody}
        /\ UNCHANGED <<backlog, script, unsent, peer>>
        /\ inbox' = [inbox EXCEPT ![cur] = <<>>]
    BY <1>9, ClosedSilently DEF ClientClosed, Disconnect, Close, Goes, clientVars
  <2>2. \A c \in Conns : c # cur => inbox'[c] = inbox[c]
    BY <2>1 DEF TypeOK
  <2>3. Fresh'
    BY <2>1, <2>2 DEF PathInv, Fresh, Rest, Distinct
  <2>. QED  BY <1>0, <2>1, <2>3 DEF PathInv
<1>. QED  BY <1>1, <1>2, <1>3, <1>4, <1>5, <1>6, <1>7, <1>8, <1>9 DEF Server

LEMMA PathClients ==
  ASSUME Inv, PathInv, Clients
  PROVE  PathInv'
<1>1. UNCHANGED <<pc, cur, buf, line, target, open, script, cut>>
  BY DEF Clients, readVars, respVars, history
<1>2. PICK c \in Conns : Connect(c) \/ Send(c) \/ ReadPiece(c) \/ Finish(c) \/ Leave(c)
  BY DEF Clients
<1>3. \A d \in Conns : Rest(d)' = Rest(d)
  <2>1. CASE Send(c)
    BY <2>1, SendKeepsRest
  <2>2. CASE Connect(c) \/ ReadPiece(c) \/ Finish(c) \/ Leave(c)
    BY <2>2 DEF Connect, ReadPiece, Finish, Leave, Rest
  <2>. QED  BY <1>2, <2>1, <2>2
<1>4. \A d \in Conns : peer'[d] = "new" \/ d \in open' \cup backlog' =>
                       peer[d] = "new" \/ d \in open \cup backlog
  BY <1>1, <1>2 DEF Inv, TypeOK, Connect, Send, ReadPiece, Finish, Leave
<1>5. Fresh'
  BY <1>1, <1>3, <1>4 DEF PathInv, Fresh
<1>6. pc = "line" => Begins'
  <2>1. pc = "line" => Rest(cur)' = Rest(cur) /\ script'[cur'] = script[cur]
    BY <1>1, <1>3 DEF Inv, InPlace, Serving
  <2>2. pc = "line" => Got' = Got
    BY <2>1 DEF Got
  <2>. QED  BY <1>1, <2>1, <2>2 DEF PathInv, Begins
<1>. QED  BY <1>1, <1>5, <1>6 DEF PathInv, Scripts, Taken, Answered

LEMMA PathInit == Init => PathInv
<1> SUFFICES ASSUME Init PROVE PathInv
  OBVIOUS
<1>1. ASSUME NEW c \in Conns PROVE Rest(c) = script[c]
  <2>1. script[c] \in Seq(Words) /\ unsent[c] = script[c] /\ inbox[c] = <<>>
    BY TypeInit DEF Init, TypeOK
  <2>. QED  BY <2>1, ConcatEmptySeq DEF Rest
<1>. QED  BY <1>1 DEF Init, PathInv, Scripts, Fresh

LEMMA PathNext ==
  /\ \A r \in Requests : WellAsked(r)
  /\ Inv /\ OrderInv /\ PathInv /\ [Next]_vars
  => PathInv'
<1>1. PathInv /\ UNCHANGED vars => PathInv'
  <2> SUFFICES ASSUME PathInv, UNCHANGED vars PROVE PathInv'
    OBVIOUS
  <2>1. UNCHANGED <<pc, cur, buf, line, target, open, backlog, script, unsent, peer, inbox, cut>>
    BY DEF vars, readVars, respVars, kernelVars, clientVars, history
  <2>2. Begins' = Begins
    BY <2>1 DEF Begins, Rest, Got
  <2>. QED  BY <2>1, <2>2 DEF PathInv, Scripts, Fresh, Rest, Taken, Answered
<1>. QED  BY <1>1, PathServer, PathClients DEF Next, OrderInv

-----------------------------------------------------------------------------
(* Responses *)

\* What was sent of the response so far.
SoFar(m) == sent[cur] = SubSeq(Full(target), 1, m)

\* A send failed, or the path was cut off.
Excused == cur \in refused \cup cut

AnswerInv ==
  /\ pc = "page" => Excused \/ SoFar(1)
  /\ pc = "open" => chunk = 0 /\ (Excused \/ SoFar(1))
  /\ pc = "body" => Excused \/ SoFar(chunk + 1)
  /\ pc = "close" => Excused \/ sent[cur] = Wanted(cur)
  /\ \A c \in Conns \ cut : PartOf(sent[c], Wanted(c))
  /\ ResponseComplete

LEMMA WholeResponse ==
  ASSUME NEW t \in Targets, NEW m \in Nat, DOMAIN Full(t) = 1 .. m
  PROVE  SubSeq(Full(t), 1, m) = Full(t)
<1>1. Full(t) \in Seq(Pieces)
  BY FullFacts
<1>2. Len(Full(t)) = m
  BY <1>1, LenProperties
<1>. QED  BY <1>1, <1>2, SubSeqFull

\* The next piece goes out after all before it, or it is known as refused.
LEMMA PutNext ==
  ASSUME TypeOK, cur \in Conns, NEW t \in Targets, NEW m \in Nat, m + 1 \in DOMAIN Full(t),
         Excused \/ sent[cur] = SubSeq(Full(t), 1, m), Put(Full(t)[m + 1]), UNCHANGED cut
  PROVE  cur \in refused' \cup cut' \/ sent'[cur] = SubSeq(Full(t), 1, m + 1)
<1> DEFINE F == Full(t)
<1>1. F \in Seq(Pieces) /\ Len(F) \in Nat /\ DOMAIN F = 1 .. Len(F)
  BY FullFacts, LenProperties
<1>2. \A i \in 1 .. m + 1 : F[i] \in Pieces
  <2> HIDE DEF F
  <2>1. m + 1 \in 1 .. Len(F)
    BY <1>1 DEF F
  <2>2. \A i \in 1 .. m + 1 : i \in 1 .. Len(F)
    BY <1>1, <2>1
  <2>. QED  BY <1>1, <2>2, ElementOfSeq
<1>3. SubSeq(F, 1, m) \in Seq(Pieces)
  <2> HIDE DEF F
  <2>. QED  BY <1>1, <1>2, SubSeqProperties
<1>4. SubSeq(F, 1, m + 1) = Append(SubSeq(F, 1, m), F[m + 1])
  <2> HIDE DEF F
  <2>1. 1 \in 1 .. Len(F) /\ m + 1 \in 1 .. Len(F) /\ (m + 1) - 1 = m
    BY <1>1 DEF F
  <2>2. SubSeq(F, 1, m + 1) = SubSeq(F, 1, m) \o <<F[m + 1]>>
    BY <1>1, <2>1, SubSeqRecursiveSecond
  <2>3. F[m + 1] \in Pieces
    BY <1>2
  <2>4. Append(SubSeq(F, 1, m), F[m + 1]) = SubSeq(F, 1, m) \o <<F[m + 1]>>
    BY <1>3, <2>3, AppendIsConcat
  <2>. QED  BY <2>2, <2>4
<1>5. CASE unread[cur] < Room
  <2>1. refused' = refused /\ sent' = [sent EXCEPT ![cur] = Append(@, F[m + 1])]
    BY <1>5 DEF Put
  <2>2. sent'[cur] = Append(sent[cur], F[m + 1])
    BY <2>1 DEF TypeOK
  <2> HIDE DEF F
  <2>3. Excused \/ sent[cur] = SubSeq(F, 1, m)
    BY DEF F
  <2>4. Excused \/ sent'[cur] = SubSeq(F, 1, m + 1)
    BY <1>4, <2>2, <2>3
  <2>. QED  BY <2>1, <2>4 DEF Excused, F
<1>6. CASE ~(unread[cur] < Room)
  BY <1>6 DEF Put
<1>. QED  BY <1>5, <1>6

LEMMA AnswerRespond ==
  ASSUME Inv, OrderInv, OrderInv', PathInv, AnswerInv, \A r \in Requests : WellAsked(r),
         SendError \/ SendRespondHead \/ SendDir \/ OpenFile \/ SendChunk \/ FileSent
  PROVE  AnswerInv'
<1> USE DEF Inv
<1>1. /\ Serving /\ pc \in {"respond", "page", "open", "body"}
      /\ UNCHANGED <<cur, target, open, backlog, peer, script, cut>> /\ refused \subseteq refused'
  BY ServeStep DEF SendError, SendRespondHead, SendDir, OpenFile, SendChunk, FileSent, PutOrExit, Goes,
                   Put, readVars, respVars, kernelVars, clientVars, history
<1>2. cur \in Conns /\ cur \in open /\ target \in Targets
  BY <1>1 DEF HandledWhileOpen, TypeOK
<1>3. cur \in cut \/ Wanted(cur) = Full(target)
  <2>1. script[cur] \in Seq(Words) /\ WellAsked(script[cur])
    BY <1>2 DEF TypeOK, PathInv, Scripts
  <2>2. Head(script[cur]) = script[cur][1]
    BY <2>1, HeadTailProperties DEF WellAsked
  <2>. QED  BY <1>1, <2>2 DEF PathInv, Answered, Wanted
<1>4. CHUNKS \in Nat /\ target' = target /\ cur' = cur
  BY <1>1, HttpAssumption
<1>5. pc = "respond" => sent[cur] = SubSeq(Full(target), 1, 0)
  <2>1. SubSeq(Full(target), 1, 0) = <<>>
    BY <1>2, FullFacts, SubSeqEmpty
  <2>2. pc = "respond" => sent[cur] = <<>>
    BY <1>1, <1>2 DEF OrderInv, Unanswered
  <2>. QED  BY <2>1, <2>2
<1>6. /\ pc' \in {"page", "open", "body", "close", "exited"}
      /\ pc' = "page" => Excused' \/ sent'[cur] = SubSeq(Full(target), 1, 1)
      /\ pc' = "open" => chunk' = 0 /\ (Excused' \/ sent'[cur] = SubSeq(Full(target), 1, 1))
      /\ pc' = "body" => Excused' \/ sent'[cur] = SubSeq(Full(target), 1, chunk' + 1)
      /\ pc' = "close" => Excused' \/ sent'[cur] = Full(target)
  <2> USE FullFacts
  <2>0. Excused' <=> cur \in refused' \cup cut'
    BY <1>4 DEF Excused
  <2>1. CASE SendError
    <3>1. /\ pc = "respond" /\ target = "missing" /\ pc' \in {"close", "exited"}
          /\ pc' = "close" => Put(Full("missing")[0 + 1])
      BY <1>2, <2>1 DEF SendError, PutOrExit
    <3>2. pc' = "close" => Excused' \/ sent'[cur] = SubSeq(Full("missing"), 1, 0 + 1)
      <4>1. TypeOK /\ cur \in Conns /\ "missing" \in Targets /\ 0 \in Nat /\ cut' = cut
        BY <1>1, <1>2 DEF Targets
      <4>2. 0 + 1 \in DOMAIN Full("missing")
        BY <1>4
      <4> HIDE FullFacts
      <4> HIDE DEF Inv
      <4>. QED  BY <1>5, <2>0, <3>1, <4>1, <4>2, PutNext
    <3>3. SubSeq(Full("missing"), 1, 1) = Full("missing")
      BY WholeResponse DEF Targets
    <3>. QED  BY <3>1, <3>2, <3>3
  <2>2. CASE SendRespondHead
    <3>1. /\ pc = "respond" /\ target # "missing" /\ chunk' = 0
          /\ pc' \in {"page", "open", "exited"}
          /\ pc' # "exited" => Put(Full(target)[0 + 1])
      BY <1>2, <2>2 DEF SendRespondHead, PutOrExit, Targets
    <3>2. 0 + 1 \in DOMAIN Full(target)
      BY <1>2, <1>4, <3>1 DEF Targets
    <3>3. pc' # "exited" => Excused' \/ sent'[cur] = SubSeq(Full(target), 1, 0 + 1)
      <4>1. TypeOK /\ cur \in Conns /\ target \in Targets /\ 0 \in Nat /\ cut' = cut
        BY <1>1, <1>2
      <4> HIDE FullFacts
      <4> HIDE DEF Inv
      <4>. QED  BY <1>5, <2>0, <3>1, <3>2, <4>1, PutNext
    <3>. QED  BY <3>1, <3>3
  <2>3. CASE SendDir
    <3>1. /\ pc = "page" /\ target = "dir" /\ pc' \in {"close", "exited"}
          /\ Put(Full("dir")[1 + 1]) \/ cur \in refused'
          /\ Excused \/ sent[cur] = SubSeq(Full("dir"), 1, 1)
      BY <1>2, <2>3 DEF SendDir, OrderInv, Progress, AnswerInv, SoFar
    <3>2. Excused' \/ sent'[cur] = SubSeq(Full("dir"), 1, 1 + 1)
      <4>1. TypeOK /\ cur \in Conns /\ "dir" \in Targets /\ 1 \in Nat /\ cut' = cut
        BY <1>1, <1>2 DEF Targets
      <4>2. 1 + 1 \in DOMAIN Full("dir")
        BY <1>4
      <4>3. CASE cur \in refused'
        BY <2>0, <4>3
      <4>4. CASE Put(Full("dir")[1 + 1])
        <5> HIDE FullFacts
        <5> HIDE DEF Inv
        <5>. QED  BY <2>0, <3>1, <4>1, <4>2, <4>4, PutNext
      <4>. QED  BY <3>1, <4>3, <4>4
    <3>3. SubSeq(Full("dir"), 1, 2) = Full("dir")
      BY WholeResponse DEF Targets
    <3>. QED  BY <3>1, <3>2, <3>3
  <2>4. CASE OpenFile /\ target = "locked"
    BY <2>4 DEF OpenFile, PutOrExit
  <2>5. CASE OpenFile /\ target # "locked"
    <3>1. /\ pc = "open" /\ pc' = "body" /\ chunk' = 0
          /\ (Excused \/ sent[cur] = SubSeq(Full(target), 1, 1)) /\ UNCHANGED <<sent, refused>>
      BY <2>5 DEF OpenFile, Goes, AnswerInv, SoFar, history
    <3>. QED  BY <1>1, <2>0, <3>1 DEF Excused
  <2>6. CASE SendChunk
    <3>1. /\ pc = "body" /\ target = "file" /\ pc' \in {"body", "exited"} /\ chunk' = chunk + 1
          /\ pc' = "body" => Put(Chunk(chunk + 1))
      BY <1>2, <2>6 DEF SendChunk, PutOrExit, OrderInv, Progress
    <3>2. Excused \/ sent[cur] = SubSeq(Full("file"), 1, chunk + 1)
      BY <3>1 DEF AnswerInv, SoFar
    <3>3. /\ chunk + 1 \in Nat /\ (chunk + 1) + 1 \in DOMAIN Full("file")
          /\ Full("file")[(chunk + 1) + 1] = Chunk(chunk + 1)
      BY <1>4, <2>6 DEF SendChunk, TypeOK
    <3>4. pc' = "body" => Excused' \/ sent'[cur] = SubSeq(Full("file"), 1, (chunk + 1) + 1)
      <4>1. TypeOK /\ cur \in Conns /\ "file" \in Targets /\ cut' = cut
        BY <1>1, <1>2 DEF Targets
      <4>2. pc' = "body" => Put(Full("file")[(chunk + 1) + 1])
        BY <3>1, <3>3 DEF Put
      <4> DEFINE m == chunk + 1
      <4>3. m \in Nat /\ m + 1 \in DOMAIN Full("file") /\ (pc' = "body" => Put(Full("file")[m + 1]))
            /\ (Excused \/ sent[cur] = SubSeq(Full("file"), 1, m))
        BY <3>2, <3>3, <4>2
      <4> HIDE FullFacts
      <4> HIDE DEF Inv, m
      <4>4. pc' = "body" => Excused' \/ sent'[cur] = SubSeq(Full("file"), 1, m + 1)
        BY <2>0, <4>1, <4>3, PutNext
      <4>. QED  BY <4>4 DEF m
    <3>. QED  BY <3>1, <3>4
  <2>7. CASE FileSent
    <3>1. /\ pc = "body" /\ target = "file" /\ chunk = CHUNKS /\ pc' = "close"
          /\ UNCHANGED <<sent, refused>>
      BY <2>7 DEF FileSent, Goes, OrderInv, Progress, history
    <3>2. Excused \/ sent[cur] = SubSeq(Full("file"), 1, CHUNKS + 1)
      BY <3>1 DEF AnswerInv, SoFar
    <3>3. SubSeq(Full("file"), 1, CHUNKS + 1) = Full("file")
      BY <1>4, WholeResponse DEF Targets
    <3>. QED  BY <1>1, <2>0, <3>1, <3>2, <3>3 DEF Excused
  <2>. QED  BY <2>1, <2>2, <2>3, <2>4, <2>5, <2>6, <2>7
<1>7. \A c \in Conns : Wanted(c)' = Wanted(c) /\ (c # cur => sent'[c] = sent[c])
  <2>1. \A c \in Conns : c # cur => sent'[c] = sent[c]
    BY DEF SendError, SendRespondHead, SendDir, OpenFile, SendChunk, FileSent, PutOrExit, Put, history, TypeOK
  <2>. QED  BY <1>1, <2>1 DEF Wanted
<1>8. ResponseComplete'
  <2>1. \A c \in Conns : Served(c)' => Served(c) /\ c # cur
    BY <1>1, <1>2 DEF Served
  <2>. QED  BY <1>1, <1>7, <2>1 DEF AnswerInv, ResponseComplete
<1>9. \A c \in Conns \ cut' : PartOf(sent'[c], Wanted(c)')
  <2>1. PartOf(sent'[cur], Full(target))
    BY <1>2, <1>4 DEF OrderInv, Current
  <2>. QED  BY <1>1, <1>2, <1>3, <1>7, <2>1 DEF AnswerInv
<1>10. pc' = "close" => Excused' \/ sent'[cur] = Wanted(cur)'
  BY <1>1, <1>2, <1>3, <1>4, <1>6, <1>7 DEF Excused
<1>. QED  BY <1>4, <1>6, <1>8, <1>9, <1>10 DEF AnswerInv, SoFar

LEMMA AnswerServer ==
  ASSUME Inv, OrderInv, OrderInv', PathInv, AnswerInv, \A r \in Requests : WellAsked(r), Server
  PROVE  AnswerInv'
<1> USE DEF Inv
<1>1. CASE EpollWait \/ DispatchDone \/ AcceptError \/ DoAccept \/ DoRead
  <2>1. /\ pc' \in {"wait", "dispatch", "line", "exited"} /\ UNCHANGED <<peer, script, sent, refused, cut>>
        /\ open \cup backlog \subseteq open' \cup backlog'
    BY <1>1 DEF EpollWait, DispatchDone, AcceptError, DoAccept, DoRead, Goes, kernelVars, clientVars, history
  <2>. QED  BY <2>1 DEF AnswerInv, ResponseComplete, Served, Wanted
<1>2. CASE \/ RecvChar \/ RecvNothing \/ RequestLine \/ HeaderLine \/ HttpRequest \/ DisconnectAgain
  <2>1. /\ pc' \in {"line", "headers", "respond", "exited"} /\ cut \subseteq cut'
        /\ UNCHANGED <<open, backlog, peer, script, sent, refused>>
    BY <1>2 DEF RecvChar, RecvNothing, RequestLine, HeaderLine, HttpRequest, DisconnectAgain, Reading, Goes,
                kernelVars, clientVars, history
  <2>. QED  BY <2>1 DEF AnswerInv, ResponseComplete, Served, Wanted
<1>3. CASE HeadersDone
  <2>1. /\ pc = "headers" /\ pc' = IF line # <<>> /\ Head(line) = "get" THEN "request" ELSE "close"
        /\ UNCHANGED <<cur, open, backlog, peer, script, sent, refused, cut>>
    BY <1>3 DEF HeadersDone, Goes, kernelVars, clientVars, history
  <2>2. /\ cur \in Conns /\ cur \in open /\ line \in Seq(Words) /\ script[cur] \in Seq(Words)
        /\ Taken /\ WellAsked(script[cur])
    BY <2>1 DEF HandledWhileOpen, Serving, TypeOK, PathInv, Scripts
  <2>3. CASE line = <<>>
    <3>1. cur \in cut
      BY <2>2, <2>3 DEF Taken
    <3>. QED  BY <2>1, <2>3, <3>1 DEF AnswerInv, Excused, ResponseComplete, Served, Wanted
  <2>4. CASE line # <<>>
    <3>1. Head(line) = Head(script[cur])
      BY <2>2, <2>4, HeadTailProperties DEF Taken, WellAsked
    <3>2. pc' = "close" => sent[cur] = Wanted(cur)
      BY <2>1, <2>2, <2>4, <3>1 DEF Wanted, OrderInv, Unanswered
    <3>. QED  BY <2>1, <3>2 DEF AnswerInv, ResponseComplete, Served, Wanted
  <2>. QED  BY <2>3, <2>4
<1>4. CASE Disconnect
  <2>1. /\ pc = "close" /\ pc' = "dispatch" /\ open' = open \ {cur}
        /\ UNCHANGED <<backlog, peer, script, sent, refused, cut>>
    BY <1>4 DEF Disconnect, Close, Goes, clientVars, history
  <2>. QED  BY <2>1 DEF AnswerInv, Excused, ResponseComplete, Served, Wanted
<1>5. CASE ClientClosed
  <2>1. /\ pc' = "close" /\ open' = open \ {cur} /\ cut' = cut \cup {cur}
        /\ UNCHANGED <<cur, backlog, peer, script, sent, refused>>
    BY <1>5 DEF ClientClosed, Close, Goes, clientVars
  <2>. QED  BY <2>1 DEF AnswerInv, Excused, ResponseComplete, Served, Wanted
<1>6. CASE SendError \/ SendRespondHead \/ SendDir \/ OpenFile \/ SendChunk \/ FileSent
  BY <1>6, AnswerRespond
<1>. QED  BY <1>1, <1>2, <1>3, <1>4, <1>5, <1>6 DEF Server

LEMMA AnswerClients ==
  ASSUME Inv, AnswerInv, Clients
  PROVE  AnswerInv'
<1>1. UNCHANGED <<pc, cur, target, chunk, open, script, sent, refused, cut>>
  BY DEF Clients, respVars, history
<1>2. PICK c \in Conns : Connect(c) \/ Send(c) \/ ReadPiece(c) \/ Finish(c) \/ Leave(c)
  BY DEF Clients
<1>3. \A d \in Conns : Served(d)' => Served(d)
  BY <1>1, <1>2 DEF Inv, TypeOK, Served, Connect, Send, ReadPiece, Finish, Leave
<1>. QED  BY <1>1, <1>3 DEF AnswerInv, SoFar, Excused, Wanted, ResponseComplete

LEMMA AnswerInit == Init => AnswerInv
<1>1. \A c \in Conns : PartOf(<<>>, Wanted(c))
  BY DEF PartOf, Range
<1>. QED  BY <1>1 DEF Init, AnswerInv, ResponseComplete, Served

LEMMA AnswerNext ==
  /\ \A r \in Requests : WellAsked(r)
  /\ Inv /\ OrderInv /\ OrderInv' /\ PathInv /\ AnswerInv /\ [Next]_vars
  => AnswerInv'
<1>1. AnswerInv /\ UNCHANGED vars => AnswerInv'
  BY DEF vars, respVars, kernelVars, clientVars, history,
         AnswerInv, SoFar, Excused, Wanted, ResponseComplete, Served
<1>. QED  BY <1>1, AnswerServer, AnswerClients DEF Next

\* However little room there is and whenever clients go away, what is sent to
\* a client is part of the response to its own request, each piece at most once
\* and in order, and no piece of another answer; a request line cut before its
\* path gets some one response.  Of requests only this is assumed: they begin
\* with a word, and a "get" has a path after it.
THEOREM HttpResponseInOrder ==
  ASSUME \A r \in Requests : WellAsked(r)
  PROVE  Spec => []ResponseInOrder
<1>1. OrderInv /\ AnswerInv => ResponseInOrder
  BY DEF OrderInv, AnyResponse, AnswerInv, ResponseInOrder
<1>. QED  BY <1>1, AnswerInit, AnswerNext, PathInit, PathNext, InvInit, InvNext,
             OrderInit, OrderNext, PTL DEF Spec

\* A connection that the server closed was answered completely, the pieces of
\* the response to its own request once and in order, unless a send to it
\* failed or its line was cut before its path.  Requests may arrive in any
\* pieces, clients may finish or go away at any time, and buffers may be small.
THEOREM HttpResponseComplete ==
  ASSUME \A r \in Requests : WellAsked(r)
  PROVE  Spec => []ResponseComplete
<1>1. AnswerInv => ResponseComplete
  BY DEF AnswerInv
<1>. QED  BY <1>1, AnswerInit, AnswerNext, PathInit, PathNext, InvInit, InvNext,
             OrderInit, OrderNext, PTL DEF Spec

==============================================================================

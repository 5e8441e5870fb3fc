------------------------------- MODULE MyHttp -------------------------------
(***************************************************************************)
(* myhttp.c: a single-threaded web server on edge-triggered epoll.  It     *)
(* reads the request line and the headers of a connection one character at *)
(* a time with non-blocking recv, answers, and closes the connection.      *)
(*                                                                         *)
(* The program is one thread and clients act between its system calls.     *)
(* Text is a sequence of words that get_line handles like characters:      *)
(* "get", a target, "x" for any other word, "cr" and "lf".  A target is    *)
(* the kind of thing stat finds: "file", "dir", "missing", or "locked" for *)
(* a file that cannot be opened.  A descriptor is named by its connection: *)
(* only do_read closes it, when it handles its one event of a batch.       *)
(***************************************************************************)
EXTENDS Integers, Sequences, SequencesExt, FiniteSets

CONSTANTS
  Conns,      \* connections that clients open
  Requests,   \* what a client may send
  LINE,       \* characters get_line stores in one call: sizeof(line) - 1
  CHUNKS,     \* reads of BUFSIZ bytes it takes to read a file
  Room,       \* pieces of a response that a send buffer holds
  MaxOpen,    \* how many connections the process may have open
  Segmented,  \* TRUE: a request may arrive in pieces
  MayFinish,  \* TRUE: a client may end its side of the connection early
  MayLeave,   \* TRUE: a client may go away altogether
  Listen, Nobody

Targets == {"file", "dir", "missing", "locked"}
Words == Targets \cup {"get", "x", "cr", "lf"}

ASSUME HttpAssumption ==
  /\ LINE \in Nat \ {0} /\ CHUNKS \in Nat /\ Room \in Nat \ {0} /\ MaxOpen \in Nat
  /\ Segmented \in BOOLEAN /\ MayFinish \in BOOLEAN /\ MayLeave \in BOOLEAN
  /\ \A r \in Requests : r \in Seq(Words)
  /\ Listen \notin Conns /\ Nobody \notin Conns

VARIABLES
  pc,        \* position of the server, or "exited"
  cur,       \* the connection do_read serves
  batch,     \* events of epoll_wait not handled yet
  buf, n,    \* get_line: the line so far; result of recv: "data", "end", "again"
  line,      \* do_read: the request line
  target,    \* http_request: what the path names
  chunk,     \* send_file: reads of the file so far
  open,      \* kernel: accepted connections that are open, all watched
  ready,     \* kernel: connections with an edge that epoll_wait did not report
  backlog,   \* kernel: connections that wait for accept
  script,    \* each client's request
  unsent,    \* the rest of it that the client has not sent
  peer,      \* each client: "new", "open", "finished" or "gone"
  inbox,     \* words that arrived and were not received
  unread,    \* pieces of the response the client has not read
  sent,      \* history: pieces that send accepted, in order
  refused,   \* history: connections for which a send failed
  cut,       \* history: connections whose request line was cut before its path
  heard      \* history: all get_line stored for the current connection

readVars == <<buf, n, line, heard>>
respVars == <<target, chunk>>
kernelVars == <<open, ready, backlog>>
history == <<sent, refused, cut>>
clientVars == <<script, unsent, peer>>
vars == <<pc, cur, batch, readVars, respVars, kernelVars, clientVars, inbox, unread, history>>

Init ==
  /\ pc = "wait" /\ cur = Nobody /\ batch = {}
  /\ buf = <<>> /\ n = "data" /\ line = <<>> /\ heard = <<>>
  /\ target = "missing" /\ chunk = 0
  /\ open = {} /\ ready = {} /\ backlog = {}
  /\ script \in [Conns -> Requests] /\ unsent = script
  /\ peer = [c \in Conns |-> "new"]
  /\ inbox = [c \in Conns |-> <<>>] /\ unread = [c \in Conns |-> 0]
  /\ sent = [c \in Conns |-> <<>>] /\ refused = {} /\ cut = {}

Goes(from, to) == pc = from /\ pc' = to

-----------------------------------------------------------------------------
(* epoll_run and do_accept *)

EpollWait ==
  LET reported == ready \cup (IF backlog # {} THEN {Listen} ELSE {}) IN
  /\ Goes("wait", "dispatch")
  /\ reported # {} /\ batch' = reported /\ ready' = {}
  /\ UNCHANGED <<cur, readVars, respVars, open, backlog, clientVars, inbox, unread, history>>

\* Mutant: only some events of the batch are handled.
DispatchDoneEarly ==
  /\ Goes("dispatch", "wait") /\ batch' = {}
  /\ UNCHANGED <<cur, readVars, respVars, kernelVars, clientVars, inbox, unread, history>>

DispatchDone ==
  /\ Goes("dispatch", "wait") /\ batch = {}
  /\ UNCHANGED <<cur, batch, readVars, respVars, kernelVars, clientVars, inbox, unread, history>>

\* Adding a descriptor that is readable already is an edge as well.
DoAccept ==
  /\ Goes("dispatch", "dispatch") /\ Listen \in batch /\ batch' = batch \ {Listen}
  /\ Cardinality(open) < MaxOpen
  /\ \E c \in backlog :
       /\ backlog' = backlog \ {c} /\ open' = open \cup {c}
       /\ ready' = IF inbox[c] # <<>> \/ peer[c] \in {"finished", "gone"}
                   THEN ready \cup {c} ELSE ready
  /\ UNCHANGED <<cur, readVars, respVars, clientVars, inbox, unread, history>>

AcceptError ==
  /\ Goes("dispatch", "exited") /\ Listen \in batch
  /\ Cardinality(open) >= MaxOpen
  /\ UNCHANGED <<cur, batch, readVars, respVars, kernelVars, clientVars, inbox, unread, history>>

-----------------------------------------------------------------------------
(* get_line, one recv at a time *)

\* What a recv without data returns: 0 at the end, -1 (EAGAIN) before it.  A
\* broken connection gives -1 once, unless its end came first, and then 0.
NoData ==
  CASE peer[cur] = "finished" -> {"end"}
    [] peer[cur] = "gone" -> {"end", "again"}
    [] OTHER -> {"again"}

\* Mutants: the line is one character shorter; the size of buf is not looked at.
LineDoneShort == n # "data" \/ Len(buf) >= LINE - 1 \/ (buf # <<>> /\ Last(buf) = "lf")
LineDoneNoLimit == n # "data" \/ (buf # <<>> /\ Last(buf) = "lf")

LineDone == n # "data" \/ Len(buf) = LINE \/ (buf # <<>> /\ Last(buf) = "lf")

Reading == pc \in {"line", "headers"} /\ ~LineDone

\* Mutant: the "lf" that was peeked at is not received.
RecvCharPeekOnly ==
  /\ Reading /\ inbox[cur] # <<>>
  /\ buf' = Append(buf, IF Head(inbox[cur]) = "cr" THEN "lf" ELSE Head(inbox[cur]))
  /\ inbox' = [inbox EXCEPT ![cur] = Tail(@)]
  /\ n' \in IF Head(inbox[cur]) = "cr" /\ Len(inbox[cur]) = 1 THEN NoData ELSE {"data"}
  /\ heard' = Append(heard, Last(buf'))
  /\ UNCHANGED <<pc, cur, batch, line, respVars, kernelVars, clientVars, unread, history>>

\* A "cr" is stored as "lf"; the recv with MSG_PEEK looks for a "lf" after it.
RecvChar ==
  LET rest == Tail(inbox[cur]) IN
  /\ Reading /\ inbox[cur] # <<>>
  /\ IF Head(inbox[cur]) # "cr"
     THEN /\ buf' = Append(buf, Head(inbox[cur]))
          /\ inbox' = [inbox EXCEPT ![cur] = rest] /\ n' = "data"
     ELSE /\ buf' = Append(buf, "lf")
          /\ inbox' = [inbox EXCEPT ![cur] =
               IF rest # <<>> /\ Head(rest) = "lf" THEN Tail(rest) ELSE rest]
          /\ n' \in IF rest = <<>> THEN NoData ELSE {"data"}
  /\ heard' = Append(heard, Last(buf'))
  /\ UNCHANGED <<pc, cur, batch, line, respVars, kernelVars, clientVars, unread, history>>

RecvNothing ==
  /\ Reading /\ inbox[cur] = <<>>
  /\ n' \in NoData
  /\ UNCHANGED <<pc, cur, batch, buf, line, heard, respVars, kernelVars, clientVars, inbox, unread, history>>

\* get_line returns -1 when its last recv did, whatever it has stored.
LineLen == IF n = "again" THEN -1 ELSE Len(buf)

-----------------------------------------------------------------------------
(* do_read *)

\* Mutant: the event stays in the batch.
DoReadKeepsEvent ==
  /\ Goes("dispatch", "line")
  /\ \E c \in batch \ {Listen} : cur' = c
  /\ UNCHANGED <<batch, readVars, respVars, kernelVars, clientVars, inbox, unread, history>>

DoRead ==
  /\ Goes("dispatch", "line")
  /\ \E c \in batch \ {Listen} : cur' = c /\ batch' = batch \ {c}
  /\ UNCHANGED <<readVars, respVars, kernelVars, clientVars, inbox, unread, history>>

\* disconnect: the descriptor leaves epoll and is closed, with what it buffers.
Close ==
  /\ open' = open \ {cur} /\ ready' = ready \ {cur}
  /\ inbox' = [inbox EXCEPT ![cur] = <<>>] /\ unread' = [unread EXCEPT ![cur] = 0]

\* The client closed: do_read disconnects, and goes on to its last statement.
ClientClosed ==
  /\ LineDone /\ LineLen = 0
  /\ Goes("line", "close") /\ Close /\ cut' = cut \cup {cur}
  /\ UNCHANGED <<cur, batch, readVars, respVars, backlog, clientVars, sent, refused>>

RequestLine ==
  /\ LineDone /\ LineLen # 0
  /\ Goes("line", "headers") /\ line' = buf
  /\ buf' = <<>> /\ n' = "data"
  /\ cut' = IF Len(buf) < 2 THEN cut \cup {cur} ELSE cut
  /\ UNCHANGED <<cur, batch, heard, respVars, kernelVars, clientVars, inbox, unread, sent, refused>>

HeadersEnd == (buf # <<>> /\ Head(buf) = "lf") \/ LineLen = -1

HeaderLine ==
  /\ LineDone /\ ~HeadersEnd
  /\ Goes("headers", "headers") /\ buf' = <<>> /\ n' = "data"
  /\ UNCHANGED <<cur, batch, line, heard, respVars, kernelVars, clientVars, inbox, unread, history>>

\* Only a line that begins with "get" is a request.
HeadersDone ==
  /\ LineDone /\ HeadersEnd
  /\ Goes("headers", IF line # <<>> /\ Head(line) = "get" THEN "request" ELSE "close")
  /\ UNCHANGED <<cur, batch, readVars, respVars, kernelVars, clientVars, inbox, unread, history>>

\* The last statement of do_read, whose locals are gone with it.
Disconnect ==
  /\ Goes("close", "dispatch") /\ cur \in open
  /\ Close /\ cur' = Nobody
  /\ buf' = <<>> /\ n' = "data" /\ line' = <<>> /\ heard' = <<>>
  /\ target' = "missing" /\ chunk' = 0
  /\ UNCHANGED <<batch, backlog, clientVars, history>>

\* epoll_ctl refuses a descriptor that is closed already: perr_exit.
DisconnectAgain ==
  /\ Goes("close", "exited") /\ cur \notin open
  /\ UNCHANGED <<cur, batch, readVars, respVars, kernelVars, clientVars, inbox, unread, history>>

-----------------------------------------------------------------------------
(* http_request, send_respond_head, send_file, send_dir, send_error *)

\* Mutant: the path is not taken from the line.
HttpRequestAnyPath ==
  /\ Goes("request", "respond") /\ target' \in Targets
  /\ UNCHANGED <<cur, batch, readVars, chunk, kernelVars, clientVars, inbox, unread, history>>

\* Without a path in the line, sscanf leaves path uninitialized.  The words
\* are no longer than the arrays that sscanf copies them into.
HttpRequest ==
  /\ Goes("request", "respond")
  /\ target' \in IF Len(line) > 1 /\ line[2] \in Targets THEN {line[2]} ELSE Targets
  /\ UNCHANGED <<cur, batch, readVars, chunk, kernelVars, clientVars, inbox, unread, history>>

Piece(name) == <<name, 0>>
Chunk(k) == <<"chunk", k>>

\* A piece that does not fit is lost: EAGAIN goes on with the next one.
Put(piece) ==
  IF unread[cur] < Room
  THEN /\ sent' = [sent EXCEPT ![cur] = Append(@, piece)]
       /\ unread' = [unread EXCEPT ![cur] = @ + 1] /\ UNCHANGED refused
  ELSE refused' = refused \cup {cur} /\ UNCHANGED <<sent, unread>>

\* Sending to a client that is gone ends the program, by SIGPIPE or by exit.
PutOrExit(piece, from, to) ==
  /\ pc = from
  /\ IF peer[cur] = "gone"
     THEN pc' = "exited" /\ UNCHANGED <<sent, unread, refused>>
     ELSE pc' = to /\ Put(piece)
  /\ UNCHANGED <<cur, batch, readVars, target, kernelVars, clientVars, inbox, cut>>

SendError ==
  /\ target = "missing"
  /\ PutOrExit(Piece("404"), "respond", "close") /\ UNCHANGED chunk

SendRespondHead ==
  /\ target # "missing"
  /\ PutOrExit(Piece("head"), "respond", IF target = "dir" THEN "page" ELSE "open")
  /\ chunk' = 0

\* send_dir lists nothing (num stays 0) and does not look at send's result.
SendDir ==
  /\ pc = "page"
  /\ IF peer[cur] = "gone"
     THEN pc' \in {"close", "exited"} /\ refused' = refused \cup {cur} /\ UNCHANGED <<sent, unread>>
     ELSE pc' = "close" /\ Put(Piece("page"))
  /\ UNCHANGED <<cur, batch, readVars, respVars, kernelVars, clientVars, inbox, cut>>

\* A file that stat finds and open refuses ends the program.
OpenFile ==
  /\ IF target = "locked"
     THEN PutOrExit(Piece("404"), "open", "exited")
     ELSE /\ Goes("open", "body")
          /\ UNCHANGED <<cur, batch, readVars, target, kernelVars, clientVars, inbox, unread, history>>
  /\ UNCHANGED chunk

\* Mutant: EAGAIN is an error like any other.
SendChunkGivesUp ==
  /\ chunk < CHUNKS /\ chunk' = chunk + 1
  /\ PutOrExit(Chunk(chunk'), "body", IF unread[cur] < Room THEN "body" ELSE "exited")

SendChunk ==
  /\ chunk < CHUNKS /\ chunk' = chunk + 1
  /\ PutOrExit(Chunk(chunk'), "body", "body")

\* Mutant: the last chunk is not sent.
FileSentEarly ==
  /\ chunk >= CHUNKS - 1 /\ Goes("body", "close")
  /\ UNCHANGED <<cur, batch, readVars, respVars, kernelVars, clientVars, inbox, unread, history>>

FileSent ==
  /\ chunk = CHUNKS /\ Goes("body", "close")
  /\ UNCHANGED <<cur, batch, readVars, respVars, kernelVars, clientVars, inbox, unread, history>>

Server ==
  \/ EpollWait \/ DispatchDone \/ DoAccept \/ AcceptError
  \/ RecvChar \/ RecvNothing
  \/ DoRead \/ ClientClosed \/ RequestLine \/ HeaderLine \/ HeadersDone
  \/ Disconnect \/ DisconnectAgain
  \/ HttpRequest \/ SendError \/ SendRespondHead \/ SendDir
  \/ OpenFile \/ SendChunk \/ FileSent

-----------------------------------------------------------------------------
(* The clients *)

Connect(c) ==
  /\ peer[c] = "new" /\ peer' = [peer EXCEPT ![c] = "open"]
  /\ backlog' = backlog \cup {c}
  /\ UNCHANGED <<ready, unsent, inbox, unread>>

\* Something reached a connection: an edge, if epoll watches it already.
Edge(c) == ready' = IF c \in open THEN ready \cup {c} ELSE ready

Send(c) ==
  /\ peer[c] = "open" /\ unsent[c] # <<>> /\ c \in backlog \cup open
  /\ \E k \in (IF Segmented THEN 1 ELSE Len(unsent[c])) .. Len(unsent[c]) :
       /\ inbox' = [inbox EXCEPT ![c] = @ \o SubSeq(unsent[c], 1, k)]
       /\ unsent' = [unsent EXCEPT ![c] = SubSeq(@, k + 1, Len(@))]
  /\ Edge(c)
  /\ UNCHANGED <<backlog, peer, unread>>

ReadPiece(c) ==
  /\ c \in open /\ unread[c] > 0 /\ peer[c] # "gone"
  /\ unread' = [unread EXCEPT ![c] = @ - 1]
  /\ UNCHANGED <<backlog, ready, unsent, peer, inbox>>

Finish(c) ==
  /\ MayFinish /\ peer[c] = "open" /\ c \in backlog \cup open
  /\ peer' = [peer EXCEPT ![c] = "finished"] /\ Edge(c)
  /\ UNCHANGED <<backlog, unsent, inbox, unread>>

Leave(c) ==
  /\ MayLeave /\ peer[c] \in {"open", "finished"} /\ c \in backlog \cup open
  /\ peer' = [peer EXCEPT ![c] = "gone"] /\ Edge(c)
  /\ UNCHANGED <<backlog, unsent, inbox, unread>>

Clients ==
  /\ UNCHANGED <<pc, cur, batch, readVars, respVars, open, script, history>>
  /\ \E c \in Conns : Connect(c) \/ Send(c) \/ ReadPiece(c) \/ Finish(c) \/ Leave(c)

\* Nothing is modelled after the program has ended.
Next == pc # "exited" /\ (Server \/ Clients)

Spec == Init /\ [][Next]_vars

\* The process runs; what clients do is up to them.
FairSpec == Spec /\ WF_vars(Server)
=============================================================================

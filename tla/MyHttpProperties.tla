-------------------------- MODULE MyHttpProperties --------------------------
(* What myhttp.c must keep true of its connections, lines and responses. *)
EXTENDS MyHttp

\* Every variable keeps its type; get_line never stores past its array.
TypeOK ==
  /\ pc \in {"wait", "dispatch", "line", "headers", "request", "respond", "page",
             "open", "body", "close", "exited"}
  /\ cur \in Conns \cup {Nobody} /\ batch \subseteq Conns \cup {Listen}
  /\ buf \in Seq(Words) /\ Len(buf) <= LINE
  /\ line \in Seq(Words) /\ Len(line) <= LINE
  /\ n \in {"data", "end", "again"} /\ heard \in Seq(Words)
  /\ target \in Targets /\ chunk \in 0 .. CHUNKS
  /\ open \subseteq Conns /\ ready \subseteq Conns /\ backlog \subseteq Conns
  /\ script \in [Conns -> Seq(Words)] /\ unsent \in [Conns -> Seq(Words)]
  /\ peer \in [Conns -> {"new", "open", "finished", "gone"}]
  /\ inbox \in [Conns -> Seq(Words)] /\ unread \in [Conns -> 0 .. Room]
  /\ sent \in [Conns -> Seq({"head", "404", "page", "chunk"} \X (0 .. CHUNKS))]
  /\ refused \subseteq Conns /\ cut \subseteq Conns

Serving == pc \notin {"wait", "dispatch", "exited"}

-----------------------------------------------------------------------------
(* Events *)

\* An event is handled on a connection that is still open.  Nothing closes a
\* descriptor that another event of the batch, or do_read itself, still uses,
\* but for one case: its client ended the connection and sent nothing, and the
\* only use left is the second disconnect.
HandledWhileOpen ==
  /\ pc # "exited" => batch \ {Listen} \subseteq open
  /\ Serving /\ cur \notin open =>
       pc = "close" /\ heard = <<>> /\ peer[cur] \in {"finished", "gone"}

\* No edge is lost: what arrived on an open connection has an event to come,
\* or is being read, although epoll reports each arrival only once.
NoLostEdge ==
  \A c \in open : inbox[c] # <<>> => c \in ready \cup batch \cup {cur}

\* The server ends only when accept finds no descriptor left, the client it
\* serves went away or ended its side before it sent anything, or a file could
\* not be opened: never over a request that is late, cut or half a request.
ExitExplained ==
  pc = "exited" =>
    IF cur = Nobody THEN Cardinality(open) >= MaxOpen
    ELSE \/ target = "locked" \/ peer[cur] = "gone"
         \/ peer[cur] = "finished" /\ heard = <<>>

-----------------------------------------------------------------------------
(* Lines *)

\* What a client sent and the server received, with each line end made "lf".
Consumed(c) == SubSeq(script[c], 1, Len(script[c]) - Len(unsent[c]) - Len(inbox[c]))

\* The positions of a text that get_line stores: all but a "lf" that ends the
\* same line as the "cr" before it; and how many of them there are up to k.
Kept(text) ==
  {k \in DOMAIN text : ~(k > 1 /\ text[k] = "lf" /\ text[k - 1] = "cr")}
Rank(text, k) == Cardinality({j \in Kept(text) : j <= k})
TheOnly(S) == CHOOSE x \in S : TRUE
KeptAt(text, i) == TheOnly({k \in Kept(text) : Rank(text, k) = i})

AsStored(word) == IF word = "cr" THEN "lf" ELSE word
Normal(text) ==
  [i \in 1 .. Cardinality(Kept(text)) |-> AsStored(text[KeptAt(text, i)])]

\* The lines of get_line are the lines the client sent: nothing is lost or
\* read twice, and each of "\r\n", "\r" and "\n" ends exactly one line.
LinesAreRead == Serving => heard = Normal(Consumed(cur))

\* A request is answered when all of it was received: the empty line that ends
\* the loop over the headers is the one that ends the request.
AnswersWholeRequest ==
  pc \in {"respond", "page", "open", "body"} => inbox[cur] = <<>> /\ unsent[cur] = <<>>

\* A text has one empty line, its last, and no line longer than the array of
\* get_line, so that no line is read in two pieces.
WellFormed(text) ==
  /\ \A i, j \in DOMAIN text :
       text[i] = "lf" /\ (i = 1 \/ text[i - 1] = "lf") => j <= i
  /\ \A i \in DOMAIN text : i + LINE - 1 \in DOMAIN text =>
       \E k \in i .. i + LINE - 1 : text[k] = "lf"

-----------------------------------------------------------------------------
(* Responses *)

\* A request begins with a word, "get" with a target after it.
WellAsked(r) ==
  /\ r # <<>> /\ r[1] \notin {"cr", "lf"}
  /\ r[1] = "get" => Len(r) >= 2 /\ r[2] \in Targets

Chunks == [k \in 1 .. CHUNKS |-> Chunk(k)]

Full(t) ==
  CASE t = "missing" -> <<Piece("404")>>
    [] t = "dir" -> <<Piece("head"), Piece("page")>>
    [] t = "file" -> <<Piece("head")>> \o Chunks
    [] t = "locked" -> <<Piece("head"), Piece("404")>>

Wanted(c) == IF Head(script[c]) = "get" THEN Full(script[c][2]) ELSE <<>>

Served(c) == peer[c] # "new" /\ c \notin open \cup backlog

\* When the server has closed a connection it has sent the whole response to
\* the request of that connection, once and in order, and nothing else.  Only a
\* send that failed, or a request line cut before its path, makes it less.
ResponseComplete ==
  \A c \in Conns \ (refused \cup cut) : Served(c) => sent[c] = Wanted(c)

\* Some of the pieces of a response, whose pieces are distinct, in its order.
PartOf(pieces, response) ==
  /\ Range(pieces) \subseteq Range(response)
  /\ \A i, j \in DOMAIN pieces : i < j =>
       \E k, l \in DOMAIN response :
         k < l /\ response[k] = pieces[i] /\ response[l] = pieces[j]

\* Even with pieces lost, what a connection is sent is part of the response to
\* its own request, in its order: no piece comes twice, and no piece of another
\* answer comes between.  A line cut before its path gets some one response.
ResponseInOrder ==
  \A c \in Conns :
    IF c \in cut THEN \E t \in Targets : PartOf(sent[c], Full(t))
    ELSE PartOf(sent[c], Wanted(c))

\* The loop over the headers knows no end of the connection: for a client that
\* ended its side there, get_line finds nothing again and again.
HeaderLoop == pc = "headers" /\ n = "end" /\ buf = <<>>

\* A client that sent its request gets its connection closed, so an answer,
\* unless the server has ended or turns in the loop over somebody's headers.
EveryRequestServed ==
  \A c \in Conns :
    (c \in open \cup backlog /\ unsent[c] = <<>>) ~> (Served(c) \/ pc = "exited" \/ HeaderLoop)
=============================================================================

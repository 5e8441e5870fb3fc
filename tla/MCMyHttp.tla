------------------------------ MODULE MCMyHttp ------------------------------
(* Few clients and short requests for TLC. *)
EXTENDS MyHttpProperties, TLC

\* A request line with its protocol, one header, and the empty line.
RequestFor(t) == <<"get", t, "x", "cr", "lf", "x", "cr", "lf", "cr", "lf">>
Post == <<"x", "x", "cr", "lf", "cr", "lf">>

\* A request line alone: no empty line ends its headers.
HeadersMissing == <<"get", "dir", "x", "lf">>

\* A header that fills the line buffer: its line end is read on its own.
LongHeader == <<"get", "dir", "x", "lf", "x", "x", "x", "x", "lf", "lf">>

PlainRequests ==
  {RequestFor("file"), RequestFor("dir"), RequestFor("missing"), Post, HeadersMissing}
LongRequest == {LongHeader}

\* Requests that end before their empty line, and one with a line too long.
HastyRequests ==
  {<<"get", "file", "x", "cr", "lf">>, <<"get", "locked", "x", "lf">>,
   <<"get", "dir", "x", "x", "lf">>}

\* What the theorems about complete requests and responses ask of requests.
ASSUME RequestsAssumption ==
  /\ \A r \in PlainRequests : WellFormed(Normal(r)) /\ WellAsked(r)
  /\ \A r \in HastyRequests : WellAsked(r)
  /\ ~WellFormed(Normal(LongHeader))

\* Clients are interchangeable.
Symmetry == Permutations(Conns)
=============================================================================

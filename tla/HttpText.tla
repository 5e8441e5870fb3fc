------------------------------ MODULE HttpText ------------------------------
(***************************************************************************)
(* encode_str and decode_str of myhttp.c: the name of a file goes into a   *)
(* link as a URL, and the path of a request, decoded in place, comes back  *)
(* as the name.  A character is its byte value, a string in memory ends    *)
(* with 0.                                                                 *)
(***************************************************************************)
EXTENDS Integers, Sequences

CONSTANTS
  Alphabet,   \* the byte values that names and paths are made of
  MaxName,    \* bound on their length
  tosize      \* the size of encode_str's array

Percent == 37
Digits == 48 .. 57
Upper == 65 .. 90
Lower == 97 .. 122

ASSUME TextAssumption ==
  Alphabet \subseteq 1 .. 255 /\ MaxName \in Nat /\ tosize \in Nat \ {0}

VARIABLES
  pc,         \* "encode", "decode" or "done"
  name,       \* the string at the start
  encoded,    \* TRUE: decode_str works on what encode_str made of name
  i,          \* how much of name encode_str has read
  to,         \* what encode_str has written
  path,       \* the array decode_str reads and writes
  r, w        \* its pointers from and to, as indices of path

vars == <<pc, name, encoded, i, to, path, r, w>>

Cells == 1 .. 3 * MaxName + 1
Memory(text) == [k \in Cells |-> IF k <= Len(text) THEN text[k] ELSE 0]

Init ==
  /\ pc \in {"encode", "decode"} /\ encoded = (pc = "encode")
  /\ name \in UNION {[1 .. len -> Alphabet] : len \in 0 .. MaxName}
  /\ i = 0 /\ to = <<>>
  /\ path = Memory(name) /\ r = 1 /\ w = 1

-----------------------------------------------------------------------------
(* encode_str *)

\* isalnum, or one of the characters of "/_.-~".
Safe == Digits \cup Upper \cup Lower \cup {47, 95, 46, 45, 126}

\* sprintf "%02x" of one nibble, in lower case.
HexDigit(v) == IF v < 10 THEN 48 + v ELSE 97 + v - 10

\* Mutants: "%" is not escaped; one character too many may be written.
EncodeStepPercent ==
  /\ pc = "encode" /\ i < Len(name) /\ Len(to) + 4 < tosize
  /\ LET c == name[i + 1] IN
     to' = to \o IF c \in Safe \cup {Percent} THEN <<c>>
                 ELSE <<Percent, HexDigit(c \div 16), HexDigit(c % 16)>>
  /\ i' = i + 1
  /\ UNCHANGED <<pc, name, encoded, path, r, w>>

EncodeStepTight ==
  /\ pc = "encode" /\ i < Len(name) /\ Len(to) + 2 < tosize
  /\ LET c == name[i + 1] IN
     to' = to \o IF c \in Safe THEN <<c>>
                 ELSE <<Percent, HexDigit(c \div 16), HexDigit(c % 16)>>
  /\ i' = i + 1
  /\ UNCHANGED <<pc, name, encoded, path, r, w>>

EncodeStep ==
  /\ pc = "encode" /\ i < Len(name) /\ Len(to) + 4 < tosize
  /\ LET c == name[i + 1] IN
     to' = to \o IF c \in Safe THEN <<c>>
                 ELSE <<Percent, HexDigit(c \div 16), HexDigit(c % 16)>>
  /\ i' = i + 1
  /\ UNCHANGED <<pc, name, encoded, path, r, w>>

\* A name that does not fit is cut; the link is what a browser asks for.
EncodeDone ==
  /\ pc = "encode" /\ ~(i < Len(name) /\ Len(to) + 4 < tosize)
  /\ pc' = "decode" /\ path' = Memory(to)
  /\ UNCHANGED <<name, encoded, i, to, r, w>>

-----------------------------------------------------------------------------
(* decode_str(path, path) *)

IsXDigit(c) == c \in Digits \cup (65 .. 70) \cup (97 .. 102)

hexit(c) ==
  CASE c \in Digits -> c - 48
    [] c \in 97 .. 102 -> c - 97 + 10
    [] c \in 65 .. 70 -> c - 65 + 10
    [] OTHER -> 0

\* An escape has two digits after it; the end of the string is no digit.
EscapeAt(text, k) ==
  text[k] = Percent /\ IsXDigit(text[k + 1]) /\ IsXDigit(text[k + 2])

\* Mutants: the second digit is read again; the string is ended at every step.
DecodeStepShort ==
  /\ pc = "decode" /\ path[r] # 0
  /\ IF EscapeAt(path, r)
     THEN /\ path' = [path EXCEPT ![w] = hexit(path[r + 1]) * 16 + hexit(path[r + 2])]
          /\ r' = r + 2
     ELSE path' = [path EXCEPT ![w] = path[r]] /\ r' = r + 1
  /\ w' = w + 1
  /\ UNCHANGED <<pc, name, encoded, i, to>>

DecodeStepEnds ==
  /\ pc = "decode" /\ path[r] # 0
  /\ IF EscapeAt(path, r)
     THEN /\ path' = [path EXCEPT ![w] = hexit(path[r + 1]) * 16 + hexit(path[r + 2]), ![w + 1] = 0]
          /\ r' = r + 3
     ELSE path' = [path EXCEPT ![w] = path[r], ![w + 1] = 0] /\ r' = r + 1
  /\ w' = w + 1
  /\ UNCHANGED <<pc, name, encoded, i, to>>

DecodeStep ==
  /\ pc = "decode" /\ path[r] # 0
  /\ IF EscapeAt(path, r)
     THEN /\ path' = [path EXCEPT ![w] = hexit(path[r + 1]) * 16 + hexit(path[r + 2])]
          /\ r' = r + 3
     ELSE path' = [path EXCEPT ![w] = path[r]] /\ r' = r + 1
  /\ w' = w + 1
  /\ UNCHANGED <<pc, name, encoded, i, to>>

DecodeDone ==
  /\ pc = "decode" /\ path[r] = 0
  /\ path' = [path EXCEPT ![w] = 0] /\ pc' = "done"
  /\ UNCHANGED <<name, encoded, i, to, r, w>>

Next == EncodeStep \/ EncodeDone \/ DecodeStep \/ DecodeDone

Spec == Init /\ [][Next]_vars

-----------------------------------------------------------------------------
(* What the two functions promise *)

\* The string in memory, as far as w has come.
Written == [k \in 1 .. w - 1 |-> path[k]]

\* The character that a text has at position k, and where the next one begins.
EscapedAt(text, k) == k + 2 <= Len(text) /\ EscapeAt(text, k)
CharAt(text, k) ==
  IF EscapedAt(text, k) THEN hexit(text[k + 1]) * 16 + hexit(text[k + 2]) ELSE text[k]
NextAt(text, k) == IF EscapedAt(text, k) THEN k + 3 ELSE k + 1

\* What a text decodes to, from each position on.
DecodedFrom(text) ==
  LET D[k \in 1 .. Len(text) + 1] ==
        IF k > Len(text) THEN <<>> ELSE <<CharAt(text, k)>> \o D[NextAt(text, k)]
  IN  D
Decoded(text) == DecodedFrom(text)[1]

\* Every link that send_dir makes leads back to the name it was made of, or
\* to its beginning when the name was cut: no escape is cut in two.
RoundTrip == pc = "done" /\ encoded => Written = SubSeq(name, 1, i)

\* Decoding any path in place gives what decoding it into a copy would give.
DecodesInPlace == pc = "done" /\ ~encoded => Written = Decoded(name)

\* In place, writing never reaches what is still to be read.
NeverOvertakes ==
  pc = "decode" =>
    /\ w <= r
    /\ \A k \in Cells : k >= r => path[k] = Memory(IF encoded THEN to ELSE name)[k]

\* encode_str writes no more than its array holds with the final 0.
EncodedFits == Len(to) < tosize
=============================================================================

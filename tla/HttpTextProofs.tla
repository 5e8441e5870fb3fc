--------------------------- MODULE HttpTextProofs ---------------------------
(* For names of every length and arrays of every size. *)
EXTENDS HttpText, NaturalFacts, SequenceTheorems, TLAPS

-----------------------------------------------------------------------------
(* encode_str stays inside its array *)

\* What the steps of encode_str keep: to is a string shorter than its array.
EncodeInv ==
  /\ name \in Seq(Int) /\ i \in Nat
  /\ to \in Seq(Int) /\ Len(to) < tosize

\* A name of the alphabet is a string of byte values.
LEMMA NamesAreStrings ==
  ASSUME NEW len \in Nat, NEW text \in [1 .. len -> Alphabet] PROVE text \in Seq(Int)
<1>1. Alphabet \subseteq Int
  BY TextAssumption
<1>2. text \in [1 .. len -> Int]
  BY <1>1
<1> QED
  BY <1>2, SeqDef

\* What sprintf writes for a nibble is a byte value.
LEMMA HexDigitIsInt == ASSUME NEW v \in Int PROVE HexDigit(v) \in Int
BY DEF HexDigit

\* encode_str starts with an empty array that has room for its final 0.
LEMMA EncodeInvInit == Init => EncodeInv
<1> SUFFICES ASSUME Init PROVE EncodeInv
  OBVIOUS
<1>1. PICK len \in 0 .. MaxName : name \in [1 .. len -> Alphabet]
  BY DEF Init
<1>2. len \in Nat
  BY TextAssumption
<1>3. name \in Seq(Int)
  BY <1>1, <1>2, NamesAreStrings
<1> QED
  BY <1>3, TextAssumption DEF Init, EncodeInv

\* A step writes at most three characters, and at least four are left.
LEMMA EncodeInvStep == EncodeInv /\ [Next]_vars => EncodeInv'
<1> SUFFICES ASSUME EncodeInv, [Next]_vars PROVE EncodeInv'
  OBVIOUS
<1> USE DEF EncodeInv
<1>1. CASE EncodeStep
  <2> DEFINE c == name[i + 1]
             piece == IF c \in Safe THEN <<c>>
                      ELSE <<Percent, HexDigit(c \div 16), HexDigit(c % 16)>>
  <2>1. c \in Int
    BY <1>1 DEF EncodeStep
  <2>2. HexDigit(c \div 16) \in Int /\ HexDigit(c % 16) \in Int
    <3> HIDE DEF c
    <3>1. c \div 16 \in Int /\ c % 16 \in Int
      BY <2>1
    <3> QED
      BY <3>1, HexDigitIsInt
  <2>3. piece \in Seq(Int) /\ Len(piece) <= 3
    <3>1. CASE c \in Safe
      BY <3>1, <2>1
    <3>2. CASE c \notin Safe
      <4> HIDE DEF c
      <4> QED
        BY <3>2, <2>2 DEF Percent
    <3> QED
      BY <3>1, <3>2
  <2>4. to' = to \o piece /\ Len(to) + 4 < tosize /\ i' = i + 1 /\ name' = name
    BY <1>1 DEF EncodeStep
  <2> HIDE DEF piece
  <2>5. to' \in Seq(Int) /\ Len(to') = Len(to) + Len(piece)
    BY <2>3, <2>4
  <2> QED
    BY <2>3, <2>4, <2>5, TextAssumption
<1>2. CASE EncodeDone
  BY <1>2 DEF EncodeDone
<1>3. CASE DecodeStep
  BY <1>3 DEF DecodeStep
<1>4. CASE DecodeDone
  BY <1>4 DEF DecodeDone
<1>5. CASE UNCHANGED vars
  BY <1>5 DEF vars
<1> QED
  BY <1>1, <1>2, <1>3, <1>4, <1>5 DEF Next

\* encode_str writes no more than its array holds with the final 0.
THEOREM EncodingFits == Spec => []EncodedFits
<1>1. EncodeInv => EncodedFits
  BY DEF EncodeInv, EncodedFits
<1> QED
  BY EncodeInvInit, EncodeInvStep, <1>1, PTL DEF Spec

-----------------------------------------------------------------------------
(* decode_str never writes what it has still to read *)

Source == IF encoded THEN to ELSE name

\* Before decoding starts the pointers are at the beginning; then the writer
\* is at or behind the reader, and the rest of the array is the source.
DecodeInv ==
  /\ pc \in {"encode", "decode", "done"} /\ encoded \in BOOLEAN
  /\ pc = "encode" => encoded /\ r = 1 /\ w = 1
  /\ r \in Nat /\ w \in Nat
  /\ NeverOvertakes

\* Both pointers start at the first character of the path.
LEMMA DecodeInvInit == Init => DecodeInv
<1> SUFFICES ASSUME Init PROVE DecodeInv
  OBVIOUS
<1>1. /\ pc \in {"encode", "decode"} /\ encoded \in BOOLEAN
      /\ pc = "encode" => encoded
      /\ pc = "decode" => ~encoded
      /\ r = 1 /\ w = 1 /\ path = Memory(name)
  BY Zenon DEF Init
<1>2. NeverOvertakes
  BY <1>1 DEF NeverOvertakes
<1> QED
  BY <1>1, <1>2 DEF DecodeInv

\* The reader moves by one or three, the writer by one.
LEMMA DecodeInvStep == DecodeInv /\ [Next]_vars => DecodeInv'
<1> SUFFICES ASSUME DecodeInv, [Next]_vars PROVE DecodeInv'
  OBVIOUS
<1> USE DEF DecodeInv
<1>1. CASE EncodeStep
  BY <1>1 DEF EncodeStep, NeverOvertakes
<1>2. CASE EncodeDone
  BY <1>2 DEF EncodeDone, NeverOvertakes
<1>3. CASE DecodeStep
  <2>1. /\ pc = "decode" /\ pc' = pc /\ name' = name /\ encoded' = encoded /\ to' = to
        /\ w' = w + 1 /\ r' \in {r + 1, r + 3}
        /\ \E v : path' = [path EXCEPT ![w] = v]
    BY <1>3 DEF DecodeStep
  <2>2. w <= r /\ \A k \in Cells : k >= r => path[k] = Memory(Source)[k]
    BY <2>1 DEF NeverOvertakes, Source
  <2>3. w' <= r' /\ r' \in Nat /\ w' \in Nat
    BY <2>1, <2>2
  <2>4. ASSUME NEW k \in Cells, k >= r' PROVE path'[k] = Memory(Source)[k]
    <3>1. k \in Int /\ k > r /\ k # w
      BY <2>1, <2>2, <2>4, TextAssumption DEF Cells
    <3>2. path'[k] = path[k]
      BY <2>1, <3>1
    <3> QED
      BY <2>2, <3>1, <3>2
  <2>5. NeverOvertakes'
    BY <2>1, <2>3, <2>4 DEF NeverOvertakes, Source, Memory, Cells
  <2> QED
    BY <2>1, <2>3, <2>5
<1>4. CASE DecodeDone
  BY <1>4 DEF DecodeDone, NeverOvertakes
<1>5. CASE UNCHANGED vars
  BY <1>5 DEF vars, NeverOvertakes
<1> QED
  BY <1>1, <1>2, <1>3, <1>4, <1>5 DEF Next

\* Decoding in place, the writer never passes the reader and changes nothing
\* that is still to be read.
THEOREM WriterNeverOvertakes == Spec => []NeverOvertakes
<1>1. DecodeInv => NeverOvertakes
  BY DEF DecodeInv
<1> QED
  BY DecodeInvInit, DecodeInvStep, <1>1, PTL DEF Spec

-----------------------------------------------------------------------------
(* Decoding in place is decoding *)

\* The value of a digit fits four bits.
LEMMA HexitType == ASSUME NEW c PROVE hexit(c) \in 0 .. 15
<1>1. CASE c \in Digits
  BY <1>1 DEF hexit, Digits
<1>2. CASE c \notin Digits /\ c \in 97 .. 102
  BY <1>2 DEF hexit, Digits
<1>3. CASE c \notin Digits /\ c \notin 97 .. 102 /\ c \in 65 .. 70
  BY <1>3 DEF hexit, Digits
<1>4. CASE c \notin Digits /\ c \notin 97 .. 102 /\ c \notin 65 .. 70
  BY <1>4 DEF hexit
<1>. QED  BY <1>1, <1>2, <1>3, <1>4

\* A character of a text, and the position of the next one, behind it.
LEMMA CharType ==
  ASSUME NEW text \in Seq(Int), NEW k \in 1 .. Len(text)
  PROVE  CharAt(text, k) \in Int /\ NextAt(text, k) \in k + 1 .. Len(text) + 1
<1>0. Len(text) \in Nat
  BY LenProperties
<1>1. CASE EscapedAt(text, k)
  <2>1. CharAt(text, k) = hexit(text[k + 1]) * 16 + hexit(text[k + 2])
    BY <1>1 DEF CharAt
  <2>2. hexit(text[k + 1]) \in Int /\ hexit(text[k + 2]) \in Int
    <3>1. hexit(text[k + 1]) \in 0 .. 15 /\ hexit(text[k + 2]) \in 0 .. 15
      BY HexitType
    <3>2. 0 .. 15 \subseteq Int
      OBVIOUS
    <3>. QED  BY <3>1, <3>2
  <2>3. CharAt(text, k) \in Int
    BY <2>1, <2>2
  <2>4. NextAt(text, k) = k + 3 /\ k + 2 <= Len(text)
    BY <1>1 DEF NextAt, EscapedAt
  <2>. QED  BY <1>0, <2>3, <2>4
<1>2. CASE ~EscapedAt(text, k)
  <2>1. CharAt(text, k) = text[k] /\ NextAt(text, k) = k + 1
    BY <1>2 DEF CharAt, NextAt
  <2>. QED  BY <1>0, <2>1
<1>. QED  BY <1>1, <1>2

\* One step of decoding, given what follows.
StepOf(text, D, k) ==
  IF k > Len(text) THEN <<>> ELSE <<CharAt(text, k)>> \o D[NextAt(text, k)]

\* One step of decoding makes a string of a string.
LEMMA StepType ==
  ASSUME NEW text \in Seq(Int), NEW k \in 1 .. Len(text) + 1,
         NEW D \in [1 .. Len(text) + 1 -> Seq(Int)]
  PROVE  StepOf(text, D, k) \in Seq(Int)
<1>0. Len(text) \in Nat
  BY LenProperties
<1>1. CASE k > Len(text)
  BY <1>1 DEF StepOf
<1>2. CASE ~(k > Len(text))
  <2>1. k \in 1 .. Len(text)
    BY <1>0, <1>2
  <2>2. CharAt(text, k) \in Int /\ NextAt(text, k) \in k + 1 .. Len(text) + 1
    BY <2>1, CharType
  <2>3. NextAt(text, k) \in 1 .. Len(text) + 1
    BY <1>0, <2>1, <2>2
  <2>4. D[NextAt(text, k)] \in Seq(Int) /\ <<CharAt(text, k)>> \in Seq(Int)
    BY <2>2, <2>3
  <2>5. StepOf(text, D, k) = <<CharAt(text, k)>> \o D[NextAt(text, k)]
    BY <1>2 DEF StepOf
  <2>. QED  BY <2>4, <2>5, ConcatProperties
<1>. QED  BY <1>1, <1>2

\* There is a function that decodes a text from each position on: from the
\* end, each value is made of later ones.
LEMMA DecodingExists ==
  ASSUME NEW text \in Seq(Int)
  PROVE  \E D \in [1 .. Len(text) + 1 -> Seq(Int)] :
           \A k \in 1 .. Len(text) + 1 : D[k] = StepOf(text, D, k)
<1> DEFINE L == Len(text)
           F == [1 .. L + 1 -> Seq(Int)]
           Good(D, m) == \A k \in 1 .. L + 1 : k > L + 1 - m => D[k] = StepOf(text, D, k)
           S == {m \in Nat : \E D \in F : Good(D, m)}
<1>0. L \in Nat
  BY LenProperties
<1>1. 0 \in S
  <2>1. [k \in 1 .. L + 1 |-> <<>>] \in F
    OBVIOUS
  <2>2. \A k \in 1 .. L + 1 : ~(k > L + 1 - 0)
    BY <1>0
  <2>. QED  BY <2>1, <2>2
<1>2. ASSUME NEW m \in Nat, m \in S PROVE m + 1 \in S
  <2>0. m \in Nat
    BY <1>2
  <2>1. PICK D \in F : Good(D, m)
    BY <1>2
  <2> DEFINE j == L + 1 - m
  <2>2. CASE j \notin 1 .. L + 1
    <3>1. \A k \in 1 .. L + 1 : k > L + 1 - (m + 1) => k > L + 1 - m
      <4> HIDE DEF L
      <4>. QED  BY <1>0, <2>0, <2>2
    <3>2. Good(D, m + 1)
      BY <2>1, <3>1
    <3>. QED  BY <3>2
  <2>3. CASE j \in 1 .. L + 1
    <3> DEFINE E == [D EXCEPT ![j] = StepOf(text, D, j)]
    <3>1. StepOf(text, D, j) \in Seq(Int)
      <4> HIDE DEF j
      <4>. QED  BY <2>3, StepType
    <3>2. E \in F
      BY <3>1
    <3>3. E[j] = StepOf(text, D, j) /\ \A k \in 1 .. L + 1 : k # j => E[k] = D[k]
      BY <2>3
    <3>4. ASSUME NEW k \in 1 .. L + 1, k >= j PROVE StepOf(text, E, k) = StepOf(text, D, k)
      <4>1. CASE k > L
        BY <4>1 DEF StepOf
      <4>2. CASE ~(k > L)
        <5>1. k \in 1 .. L
          BY <1>0, <4>2
        <5>2. NextAt(text, k) \in k + 1 .. L + 1
          BY <5>1, CharType
        <5>3. NextAt(text, k) \in 1 .. L + 1 /\ NextAt(text, k) # j
          <6> HIDE DEF L
          <6>1. k \in Int /\ j \in Int /\ NextAt(text, k) \in Int /\ k + 1 <= NextAt(text, k)
                /\ NextAt(text, k) <= L + 1
            BY <1>0, <2>3, <5>1, <5>2
          <6> HIDE DEF j
          <6>. QED  BY <1>0, <3>4, <5>1, <6>1
        <5>4. E[NextAt(text, k)] = D[NextAt(text, k)]
          <6> HIDE DEF E, j, L
          <6>. QED  BY <3>3, <5>3
        <5>. QED  BY <5>4 DEF StepOf
      <4>. QED  BY <4>1, <4>2
    <3>5. ASSUME NEW k \in 1 .. L + 1, k > j PROVE E[k] = StepOf(text, E, k)
      <4>1. k > L + 1 - m /\ k # j /\ k >= j
        <5> HIDE DEF L
        <5>. QED  BY <1>0, <2>0, <3>5
      <4>2. E[k] = D[k] /\ D[k] = StepOf(text, D, k)
        <5> HIDE DEF E, j
        <5>. QED  BY <2>1, <3>3, <4>1
      <4> HIDE DEF E, j
      <4>. QED  BY <3>4, <4>1, <4>2
    <3>6. E[j] = StepOf(text, E, j)
      <4>1. j >= j
        BY <1>0
      <4> HIDE DEF E, j
      <4>. QED  BY <2>3, <3>3, <3>4, <4>1
    <3>7. Good(E, m + 1)
      <4>1. \A k \in 1 .. L + 1 : k > j => E[k] = StepOf(text, E, k)
        <5> HIDE DEF E, j
        <5>. QED  BY <3>5
      <4>2. \A k \in 1 .. L + 1 : k > j \/ k = j \/ ~(k > L + 1 - (m + 1))
        <5> HIDE DEF L
        <5>. QED  BY <1>0
      <4> HIDE DEF E
      <4>3. \A k \in 1 .. L + 1 : k > L + 1 - (m + 1) => E[k] = StepOf(text, E, k)
        BY <3>6, <4>1, <4>2
      <4>. QED  BY <4>3
    <3> HIDE DEF E, F, j
    <3>. QED  BY <3>2, <3>7
  <2>. QED  BY <2>2, <2>3
<1>3. Nat \subseteq S
  <2> HIDE DEF S
  <2>. QED  BY <1>1, <1>2, NatSetInduction
<1>4. PICK D \in F : Good(D, L + 1)
  <2>1. L + 1 \in S
    BY <1>0, <1>3
  <2>. QED  BY <2>1
<1>5. \A k \in 1 .. L + 1 : k > L + 1 - (L + 1)
  BY <1>0
<1>. QED  BY <1>4, <1>5

\* DecodedFrom is such a function.
LEMMA DecodedFromStep ==
  ASSUME NEW text \in Seq(Int)
  PROVE  LET D == DecodedFrom(text) IN
         /\ D \in [1 .. Len(text) + 1 -> Seq(Int)]
         /\ \A k \in 1 .. Len(text) + 1 : D[k] = StepOf(text, D, k)
<1> DEFINE X == 1 .. Len(text) + 1
           Is(D) == D = [k \in X |-> IF k > Len(text) THEN <<>> ELSE <<CharAt(text, k)>> \o D[NextAt(text, k)]]
<1>1. PICK D \in [X -> Seq(Int)] : \A k \in X : D[k] = StepOf(text, D, k)
  BY DecodingExists
<1>2. Is(D)
  BY <1>1 DEF StepOf
<1>3. DecodedFrom(text) = CHOOSE E : Is(E)
  BY DEF DecodedFrom
<1>4. Is(DecodedFrom(text))
  <2> HIDE DEF Is
  <2>. QED  BY <1>2, <1>3
<1> DEFINE G == DecodedFrom(text)
<1>5. DOMAIN G = X /\ \A k \in X : G[k] = StepOf(text, G, k)
  <2>1. G = [k \in X |-> IF k > Len(text) THEN <<>> ELSE <<CharAt(text, k)>> \o G[NextAt(text, k)]]
    BY <1>4
  <2> HIDE DEF G
  <2>2. \A k \in X : G[k] = IF k > Len(text) THEN <<>> ELSE <<CharAt(text, k)>> \o G[NextAt(text, k)]
    BY <2>1
  <2>. QED  BY <2>1, <2>2 DEF StepOf
<1> DEFINE L == Len(text)
           R == {m \in Nat : \A k \in X : k > L + 1 - m => G[k] \in Seq(Int)}
<1>6. L \in Nat
  BY LenProperties
<1> HIDE DEF G
<1>7. 0 \in R
  <2>1. \A k \in X : ~(k > L + 1 - 0)
    BY <1>6
  <2>. QED  BY <2>1
<1>8. ASSUME NEW m \in Nat, m \in R PROVE m + 1 \in R
  <2>0. m \in Nat
    BY <1>8
  <2>1. ASSUME NEW k \in X, k > L + 1 - (m + 1) PROVE G[k] \in Seq(Int)
    <3>1. CASE k > L
      <4>1. G[k] = <<>>
        BY <1>5, <3>1 DEF StepOf
      <4>. QED  BY <4>1
    <3>2. CASE ~(k > L)
      <4>1. k \in 1 .. L
        BY <1>6, <3>2
      <4>2. CharAt(text, k) \in Int /\ NextAt(text, k) \in k + 1 .. L + 1
        BY <4>1, CharType
      <4>3. NextAt(text, k) \in X /\ NextAt(text, k) > L + 1 - m
        <5>1. NextAt(text, k) \in Int /\ k + 1 <= NextAt(text, k) /\ NextAt(text, k) <= L + 1
          BY <1>6, <4>1, <4>2
        <5> HIDE DEF L
        <5>2. k \in Int /\ k >= 1
          BY <1>6, <4>1
        <5>3. NextAt(text, k) > L + 1 - m /\ NextAt(text, k) >= 1
          BY <1>6, <2>0, <2>1, <5>1, <5>2
        <5>. QED  BY <1>6, <5>1, <5>3 DEF L
      <4>4. G[NextAt(text, k)] \in Seq(Int)
        BY <1>8, <4>3
      <4>5. G[k] = <<CharAt(text, k)>> \o G[NextAt(text, k)]
        BY <1>5, <3>2 DEF StepOf
      <4>6. <<CharAt(text, k)>> \in Seq(Int)
        BY <4>2
      <4>. QED  BY <4>4, <4>5, <4>6, ConcatProperties
    <3>. QED  BY <3>1, <3>2
  <2>2. \A k \in X : k > L + 1 - (m + 1) => G[k] \in Seq(Int)
    BY <2>1
  <2>. QED  BY <2>2
<1>9. Nat \subseteq R
  <2> HIDE DEF R
  <2>. QED  BY <1>7, <1>8, NatSetInduction
<1>10. \A k \in X : k > L + 1 - (L + 1)
  BY <1>6
<1>11. \A k \in X : G[k] \in Seq(Int)
  <2>1. L + 1 \in R
    <3> HIDE DEF R, L
    <3>. QED  BY <1>6, <1>9
  <2>. QED  BY <1>10, <2>1
<1>12. G = [k \in X |-> G[k]]
  BY <1>4 DEF G
<1>13. G \in [X -> Seq(Int)]
  BY <1>11, <1>12
<1>. QED  BY <1>5, <1>13 DEF G

\* A path that was not made by encode_str: what was written, followed by what
\* the rest of the path decodes to, is what the whole path decodes to.
PlaceInv ==
  ~encoded =>
    /\ name \in Seq(1 .. 255) /\ Len(name) <= MaxName
    /\ pc # "encode" /\ path = [k \in Cells |-> path[k]]
    /\ r \in 1 .. Len(name) + 1 /\ w \in 1 .. r
    /\ \A k \in 1 .. w - 1 : path[k] \in Int
    /\ Written \o DecodedFrom(name)[r] = DecodedFrom(name)[1]
    /\ pc = "done" => r = Len(name) + 1

\* A name is a string of at most MaxName byte values.
LEMMA NamesAreBytes == Init => name \in Seq(1 .. 255) /\ Len(name) <= MaxName
<1> SUFFICES ASSUME Init PROVE name \in Seq(1 .. 255) /\ Len(name) <= MaxName
  OBVIOUS
<1>1. PICK len \in 0 .. MaxName : name \in [1 .. len -> Alphabet]
  BY DEF Init
<1>2. len \in Nat /\ len <= MaxName
  BY TextAssumption
<1>3. name \in [1 .. len -> 1 .. 255]
  BY <1>1, TextAssumption
<1>. QED  BY <1>2, <1>3, SeqDef

\* Byte values are numbers.
LEMMA BytesAreInts == ASSUME NEW s \in Seq(1 .. 255) PROVE s \in Seq(Int)
<1>1. 1 .. 255 \subseteq Int
  OBVIOUS
<1>. QED  BY <1>1, SeqMonotonic

\* Joining strings is associative.
LEMMA JoinAssociative ==
  ASSUME NEW a \in Seq(Int), NEW b \in Seq(Int), NEW d \in Seq(Int)
  PROVE  (a \o b) \o d = a \o (b \o d)
BY ConcatAssociative

\* At the start nothing is written and everything is to be read.
LEMMA PlaceInit == Init => PlaceInv
<1> SUFFICES ASSUME Init, ~encoded PROVE PlaceInv
  BY DEF PlaceInv
<1>1. name \in Seq(1 .. 255) /\ Len(name) <= MaxName /\ Len(name) \in Nat
  BY NamesAreBytes, LenProperties
<1>2. pc # "encode" /\ path = Memory(name) /\ r = 1 /\ w = 1 /\ pc # "done"
  BY Zenon DEF Init
<1>3. Written = <<>>
  BY <1>2 DEF Written
<1>4. DecodedFrom(name)[1] \in Seq(Int)
  <2>1. name \in Seq(Int) /\ 1 \in 1 .. Len(name) + 1
    BY <1>1, BytesAreInts
  <2>. QED  BY <2>1, DecodedFromStep
<1>5. Written \o DecodedFrom(name)[r] = DecodedFrom(name)[1]
  BY <1>2, <1>3, <1>4, ConcatEmptySeq
<1>6. path = [k \in Cells |-> path[k]]
  BY <1>2 DEF Memory
<1>. QED  BY <1>1, <1>2, <1>5, <1>6 DEF PlaceInv

\* What was written is a string of the length the writer has come to.
LEMMA WrittenType ==
  ASSUME w \in Nat \ {0}, \A k \in 1 .. w - 1 : path[k] \in Int
  PROVE  Written \in Seq(Int) /\ Len(Written) = w - 1
<1>1. w - 1 \in Nat /\ Written \in [1 .. w - 1 -> Int]
  BY DEF Written
<1>. QED  BY <1>1, SeqDef

\* What is still to be read is the path as it was, and ends with 0s.
LEMMA AheadIsName ==
  ASSUME ~encoded, PlaceInv, DecodeInv, pc = "decode"
  PROVE  /\ MaxName \in Nat /\ Len(name) \in Nat
         /\ path[r] = 0 <=> r = Len(name) + 1
         /\ r <= Len(name) => path[r] = name[r] /\ (EscapeAt(path, r) <=> EscapedAt(name, r))
         /\ EscapedAt(name, r) => path[r + 1] = name[r + 1] /\ path[r + 2] = name[r + 2]
<1>1. MaxName \in Nat /\ Len(name) \in Nat
  BY TextAssumption, LenProperties DEF PlaceInv
<1>2. /\ r \in 1 .. Len(name) + 1 /\ Len(name) <= MaxName
      /\ \A k \in 1 .. Len(name) : name[k] \in 1 .. 255
  BY ElementOfSeq DEF PlaceInv
<1>3. \A k \in Cells : k >= r => path[k] = Memory(name)[k]
  BY DEF DecodeInv, NeverOvertakes
<1>4. r \in Cells
  BY <1>1, <1>2 DEF Cells
<1>5. path[r] = Memory(name)[r]
  BY <1>1, <1>2, <1>3, <1>4
<1>6. path[r] = 0 <=> r = Len(name) + 1
  <2>1. CASE r <= Len(name)
    <3>1. Memory(name)[r] = name[r] /\ name[r] \in 1 .. 255
      BY <1>1, <1>2, <1>4, <2>1 DEF Memory
    <3>2. path[r] # 0
      BY <1>5, <3>1
    <3>3. r # Len(name) + 1
      BY <1>1, <1>2, <2>1
    <3>. QED  BY <3>2, <3>3
  <2>2. CASE r > Len(name)
    <3>1. Memory(name)[r] = 0
      BY <1>1, <1>2, <1>4, <2>2 DEF Memory
    <3>. QED  BY <1>1, <1>2, <1>5, <2>2, <3>1
  <2>. QED  BY <1>1, <1>2, <2>1, <2>2
<1>7. ASSUME r <= Len(name)
      PROVE  /\ path[r] = name[r] /\ (EscapeAt(path, r) <=> EscapedAt(name, r))
             /\ EscapedAt(name, r) => path[r + 1] = name[r + 1] /\ path[r + 2] = name[r + 2]
  <2>1. path[r] = name[r]
    BY <1>1, <1>2, <1>4, <1>5, <1>7 DEF Memory
  <2>2. r + 1 \in Cells /\ r + 2 \in Cells /\ r + 1 >= r /\ r + 2 >= r
    BY <1>1, <1>2, <1>7 DEF Cells
  <2>3. path[r + 1] = Memory(name)[r + 1] /\ path[r + 2] = Memory(name)[r + 2]
    BY <1>3, <2>2
  <2>4. CASE r + 2 <= Len(name)
    <3>1. r + 1 <= Len(name)
      BY <1>1, <1>2, <2>4
    <3>2. path[r + 1] = name[r + 1] /\ path[r + 2] = name[r + 2]
      BY <2>2, <2>3, <2>4, <3>1 DEF Memory
    <3>. QED  BY <2>1, <2>4, <3>2 DEF EscapeAt, EscapedAt
  <2>5. CASE ~(r + 2 <= Len(name))
    <3>1. path[r + 2] = 0
      BY <2>2, <2>3, <2>5 DEF Memory
    <3>2. ~IsXDigit(path[r + 2])
      BY <3>1 DEF IsXDigit, Digits
    <3>. QED  BY <2>1, <2>5, <3>2 DEF EscapeAt, EscapedAt
  <2>. QED  BY <2>4, <2>5
<1>8. EscapedAt(name, r) => r <= Len(name)
  BY <1>1, <1>2 DEF EscapedAt
<1>. QED  BY <1>1, <1>6, <1>7, <1>8

\* A step of decoding writes one character and reads what stands for it.
LEMMA PlaceStep == PlaceInv /\ DecodeInv /\ [Next]_vars => PlaceInv'
<1> SUFFICES ASSUME PlaceInv, DecodeInv, [Next]_vars, ~encoded' PROVE PlaceInv'
  BY DEF PlaceInv
<1>1. CASE EncodeStep
  <2>1. pc = "encode" /\ encoded' = encoded
    BY <1>1 DEF EncodeStep
  <2>. QED  BY <2>1 DEF DecodeInv
<1>2. CASE EncodeDone
  <2>1. pc = "encode" /\ encoded' = encoded
    BY <1>2 DEF EncodeDone
  <2>. QED  BY <2>1 DEF DecodeInv
<1>3. CASE DecodeStep
  <2> DEFINE D == DecodedFrom(name)
             c == CharAt(name, r)
  <2>1. pc = "decode" /\ path[r] # 0 /\ pc' = pc /\ encoded' = encoded /\ name' = name /\ w' = w + 1
    BY <1>3 DEF DecodeStep
  <2>2. ~encoded
    BY <2>1
  <2>3. /\ name \in Seq(1 .. 255) /\ Len(name) <= MaxName /\ name \in Seq(Int)
        /\ path = [k \in Cells |-> path[k]]
        /\ r \in 1 .. Len(name) + 1 /\ w \in 1 .. r
        /\ \A k \in 1 .. w - 1 : path[k] \in Int
        /\ Written \o D[r] = D[1]
    BY <2>2, BytesAreInts DEF PlaceInv
  <2>4. /\ MaxName \in Nat /\ Len(name) \in Nat /\ r <= Len(name) /\ path[r] = name[r]
        /\ EscapeAt(path, r) <=> EscapedAt(name, r)
        /\ EscapedAt(name, r) => path[r + 1] = name[r + 1] /\ path[r + 2] = name[r + 2]
    <3> HIDE DEF D
    <3>1. r # Len(name) + 1
      BY <2>1, <2>2, AheadIsName
    <3>2. MaxName \in Nat /\ Len(name) \in Nat
      BY <2>1, <2>2, AheadIsName
    <3>3. r <= Len(name)
      BY <2>3, <3>1, <3>2
    <3>. QED  BY <2>1, <2>2, <3>2, <3>3, AheadIsName
  <2>5. path' = [path EXCEPT ![w] = c] /\ r' = NextAt(name, r)
    <3>1. CASE EscapedAt(name, r)
      <4>1. /\ path' = [path EXCEPT ![w] = hexit(path[r + 1]) * 16 + hexit(path[r + 2])]
            /\ r' = r + 3
        BY <1>3, <2>4, <3>1 DEF DecodeStep
      <4>. QED  BY <2>4, <3>1, <4>1 DEF CharAt, NextAt
    <3>2. CASE ~EscapedAt(name, r)
      <4>1. path' = [path EXCEPT ![w] = path[r]] /\ r' = r + 1
        BY <1>3, <2>4, <3>2 DEF DecodeStep
      <4>. QED  BY <2>4, <3>2, <4>1 DEF CharAt, NextAt
    <3>. QED  BY <3>1, <3>2
  <2>6. c \in Int /\ r' \in r + 1 .. Len(name) + 1
    <3>1. r \in 1 .. Len(name)
      BY <2>3, <2>4
    <3>. QED  BY <2>3, <2>5, <3>1, CharType
  <2>7. r' \in 1 .. Len(name) + 1 /\ w' \in 1 .. r' /\ w \in Cells /\ w \in Nat \ {0}
    <3>1. r \in Nat /\ w \in Nat /\ r >= 1 /\ w >= 1 /\ w <= r /\ r <= Len(name)
      BY <2>3, <2>4
    <3>2. r' \in Nat /\ r' >= r + 1 /\ r' <= Len(name) + 1
      BY <2>4, <2>6, <3>1
    <3>3. w' = w + 1
      BY <2>1
    <3>4. r' \in 1 .. Len(name) + 1 /\ w' \in 1 .. r'
      BY <2>4, <3>1, <3>2, <3>3
    <3>5. w <= MaxName /\ w \in Nat \ {0}
      BY <2>3, <2>4, <3>1
    <3>6. w \in Cells
      BY <2>4, <3>5 DEF Cells
    <3>. QED  BY <3>4, <3>5, <3>6
  <2> HIDE DEF c, D
  <2>8. path'[w] = c /\ (\A k \in Cells : k # w => path'[k] = path[k]) /\ path' = [k \in Cells |-> path'[k]]
    BY <2>3, <2>5, <2>7
  <2>9. \A k \in 1 .. w - 1 : k \in Cells /\ k # w
    <3>1. w <= MaxName + 1
      BY <2>3, <2>4
    <3>. QED  BY <2>4, <2>7, <3>1 DEF Cells
  <2>10. \A k \in 1 .. w' - 1 : k = w \/ k \in 1 .. w - 1
    BY <2>1, <2>7
  <2>11. \A k \in 1 .. w' - 1 : path'[k] \in Int
    BY <2>3, <2>6, <2>8, <2>9, <2>10
  <2>12. Written \in Seq(Int) /\ Len(Written) = w - 1
    BY <2>3, <2>7, WrittenType
  <2>13. Written' = Written \o <<c>>
    <3>1. Written' \in Seq(Int) /\ Len(Written') = w
      <4>1. w' \in Nat \ {0} /\ w' - 1 = w
        BY <2>1, <2>7
      <4>2. Written' \in [1 .. w -> Int]
        BY <2>11, <4>1 DEF Written
      <4>. QED  BY <2>7, <4>2, SeqDef
    <3>2. <<c>> \in Seq(Int) /\ Len(<<c>>) = 1
      BY <2>6
    <3>3. Written \o <<c>> \in Seq(Int) /\ Len(Written \o <<c>>) = w
      BY <2>7, <2>12, <3>2, ConcatProperties
    <3>4. ASSUME NEW k \in 1 .. w PROVE Written'[k] = (Written \o <<c>>)[k]
      <4>1. Written'[k] = path'[k]
        BY <2>1, <2>7, <3>4 DEF Written
      <4>2. CASE k = w
        <5>1. (Written \o <<c>>)[k] = c
          BY <2>7, <2>12, <3>2, <4>2
        <5>. QED  BY <2>8, <4>1, <4>2, <5>1
      <4>3. CASE k # w
        <5>1. k \in 1 .. w - 1
          BY <2>7, <3>4, <4>3
        <5>2. (Written \o <<c>>)[k] = Written[k]
          BY <2>7, <2>12, <3>2, <5>1
        <5>. QED  BY <2>8, <2>9, <4>1, <5>1, <5>2 DEF Written
      <4>. QED  BY <4>2, <4>3
    <3>. QED  BY <3>1, <3>3, <3>4, SeqEqual
  <2>14. Written' \o D[r'] = D[1]
    <3>1. D[r] = <<c>> \o D[r'] /\ D[r'] \in Seq(Int)
      <4>1. D \in [1 .. Len(name) + 1 -> Seq(Int)] /\ D[r] = StepOf(name, D, r)
        BY <2>3, DecodedFromStep DEF D
      <4>2. ~(r > Len(name))
        BY <2>3, <2>4
      <4>. QED  BY <2>5, <2>7, <4>1, <4>2 DEF StepOf, c
    <3>2. <<c>> \in Seq(Int)
      BY <2>6
    <3>3. (Written \o <<c>>) \o D[r'] = Written \o (<<c>> \o D[r'])
      BY <2>12, <3>1, <3>2, JoinAssociative
    <3>. QED  BY <2>3, <2>13, <3>1, <3>3
  <2>. QED  BY <2>1, <2>3, <2>7, <2>8, <2>11, <2>14 DEF PlaceInv, D
<1>4. CASE DecodeDone
  <2>1. /\ pc = "decode" /\ path[r] = 0 /\ path' = [path EXCEPT ![w] = 0] /\ pc' = "done"
        /\ UNCHANGED <<name, encoded, r, w>>
    BY <1>4 DEF DecodeDone
  <2>2. ~encoded
    BY <2>1
  <2>3. /\ name \in Seq(1 .. 255) /\ Len(name) <= MaxName
        /\ path = [k \in Cells |-> path[k]]
        /\ r \in 1 .. Len(name) + 1 /\ w \in 1 .. r
        /\ \A k \in 1 .. w - 1 : path[k] \in Int
        /\ Written \o DecodedFrom(name)[r] = DecodedFrom(name)[1]
    BY <2>2 DEF PlaceInv
  <2>4. r = Len(name) + 1 /\ MaxName \in Nat /\ Len(name) \in Nat
    BY <2>1, <2>2, AheadIsName
  <2>5. \A k \in 1 .. w - 1 : k \in Cells /\ k # w
    BY <2>3, <2>4 DEF Cells
  <2>6. path' = [k \in Cells |-> path'[k]] /\ \A k \in Cells : k # w => path'[k] = path[k]
    BY <2>1, <2>3
  <2>7. Written' = Written
    BY <2>1, <2>5, <2>6 DEF Written
  <2>8. \A k \in 1 .. w - 1 : path'[k] \in Int
    BY <2>3, <2>5, <2>6
  <2>. QED  BY <2>1, <2>3, <2>4, <2>6, <2>7, <2>8 DEF PlaceInv
<1>5. CASE UNCHANGED vars
  <2>1. UNCHANGED <<pc, name, encoded, path, r, w>>
    BY <1>5 DEF vars
  <2>2. Written' = Written
    BY <2>1 DEF Written
  <2>. QED  BY <2>1, <2>2 DEF PlaceInv
<1>. QED  BY <1>1, <1>2, <1>3, <1>4, <1>5 DEF Next

\* Decoding any path in place gives what decoding it into a copy would give.
THEOREM DecodingInPlace == Spec => []DecodesInPlace
<1>1. PlaceInv => DecodesInPlace
  <2> SUFFICES ASSUME PlaceInv, pc = "done", ~encoded PROVE Written = Decoded(name)
    BY DEF DecodesInPlace
  <2>1. /\ name \in Seq(1 .. 255) /\ r = Len(name) + 1 /\ w \in 1 .. r
        /\ \A k \in 1 .. w - 1 : path[k] \in Int
        /\ Written \o DecodedFrom(name)[r] = DecodedFrom(name)[1]
    BY DEF PlaceInv
  <2>2. Len(name) \in Nat
    BY <2>1, LenProperties
  <2>3. Written \in Seq(Int)
    <3>1. w \in Nat \ {0}
      BY <2>1, <2>2
    <3>. QED  BY <2>1, <3>1, WrittenType
  <2>4. DecodedFrom(name)[r] = <<>>
    <3>1. DecodedFrom(name)[r] = StepOf(name, DecodedFrom(name), r)
      <4>1. r \in 1 .. Len(name) + 1 /\ name \in Seq(Int)
        BY <2>1, <2>2, BytesAreInts
      <4>. QED  BY <4>1, DecodedFromStep
    <3>2. r > Len(name)
      BY <2>1, <2>2
    <3>. QED  BY <3>1, <3>2 DEF StepOf
  <2>. QED  BY <2>1, <2>3, <2>4, ConcatEmptySeq DEF Decoded
<1>. QED  BY PlaceInit, PlaceStep, DecodeInvInit, DecodeInvStep, <1>1, PTL DEF Spec

-----------------------------------------------------------------------------
(* A link leads back to the name it was made of *)

\* What encode_str writes for a character.
Piece(c) ==
  IF c \in Safe THEN <<c>> ELSE <<Percent, HexDigit(c \div 16), HexDigit(c % 16)>>

\* A nibble is read back from the digit that was written for it.
LEMMA HexDigitReads ==
  ASSUME NEW v \in 0 .. 15
  PROVE  HexDigit(v) \in Int /\ IsXDigit(HexDigit(v)) /\ hexit(HexDigit(v)) = v
<1>1. CASE v < 10
  <2>1. HexDigit(v) = 48 + v /\ 48 + v \in Digits
    BY <1>1 DEF HexDigit, Digits
  <2>. QED  BY <2>1 DEF IsXDigit, hexit
<1>2. CASE ~(v < 10)
  <2>1. HexDigit(v) = 97 + v - 10 /\ 97 + v - 10 \in 97 .. 102 /\ 97 + v - 10 \notin Digits
    BY <1>2 DEF HexDigit, Digits
  <2>. QED  BY <2>1 DEF IsXDigit, hexit
<1>. QED  BY <1>1, <1>2

\* A piece is read back as its character; it has no 0 in it.
LEMMA PieceType ==
  ASSUME NEW c \in 1 .. 255
  PROVE  /\ Piece(c) \in Seq(Int) /\ Len(Piece(c)) \in {1, 3} /\ Piece(c)[1] # 0
         /\ c \in Safe => Piece(c) = <<c>> /\ c # Percent
         /\ c \notin Safe =>
              /\ Len(Piece(c)) = 3 /\ Piece(c)[1] = Percent
              /\ IsXDigit(Piece(c)[2]) /\ IsXDigit(Piece(c)[3])
              /\ hexit(Piece(c)[2]) * 16 + hexit(Piece(c)[3]) = c
<1>1. CASE c \in Safe
  <2>1. Piece(c) = <<c>>
    BY <1>1 DEF Piece
  <2>2. c # Percent
    BY <1>1 DEF Safe, Percent, Digits, Upper, Lower
  <2>. QED  BY <1>1, <2>1, <2>2
<1>2. CASE c \notin Safe
  <2> DEFINE a == c \div 16
             b == c % 16
  <2>1. a \in 0 .. 15 /\ b \in 0 .. 15 /\ a * 16 + b = c
    OBVIOUS
  <2> HIDE DEF a, b
  <2>2. /\ HexDigit(a) \in Int /\ IsXDigit(HexDigit(a)) /\ hexit(HexDigit(a)) = a
        /\ HexDigit(b) \in Int /\ IsXDigit(HexDigit(b)) /\ hexit(HexDigit(b)) = b
    BY <2>1, HexDigitReads
  <2>3. Piece(c) = <<Percent, HexDigit(a), HexDigit(b)>>
    BY <1>2 DEF Piece, a, b
  <2> DEFINE x == HexDigit(a)
             y == HexDigit(b)
  <2>4. x \in Int /\ y \in Int /\ hexit(x) * 16 + hexit(y) = c
    BY <2>1, <2>2
  <2> HIDE DEF x, y
  <2>5. Piece(c) = <<Percent, x, y>>
    BY <2>3 DEF x, y
  <2>6. Percent \in Int /\ Percent # 0
    BY DEF Percent
  <2>7. /\ Piece(c) \in Seq(Int) /\ Len(Piece(c)) = 3
        /\ Piece(c)[1] = Percent /\ Piece(c)[2] = x /\ Piece(c)[3] = y
    BY <2>4, <2>5, <2>6
  <2>. QED  BY <1>2, <2>2, <2>4, <2>6, <2>7 DEF x, y
<1>. QED  BY <1>1, <1>2

\* start[j] is where the j-th character of the name begins in the link.
Starts(start) ==
  /\ start \in [1 .. i + 1 -> 1 .. Len(to) + 1]
  /\ start[1] = 1 /\ start[i + 1] = Len(to) + 1
  /\ \A j \in 1 .. i :
       /\ start[j + 1] = start[j] + Len(Piece(name[j]))
       /\ \A k \in 1 .. Len(Piece(name[j])) : to[start[j] + k - 1] = Piece(name[j])[k]

\* A link: it is the name's characters, one piece after the other, and
\* decoding stands at the beginning of a piece, the characters before it written.
LinkInv ==
  encoded =>
    /\ name \in Seq(1 .. 255) /\ Len(name) <= MaxName /\ i \in 0 .. Len(name)
    /\ to \in Seq(Int) /\ Len(to) <= 3 * i
    /\ path = [k \in Cells |-> path[k]]
    /\ w \in 1 .. i + 1
    /\ \E start : Starts(start) /\ r = start[w]
    /\ \A k \in 1 .. w - 1 : path[k] = name[k]
    /\ pc = "done" => w = i + 1

\* At the start the link is empty.
LEMMA LinkInit == Init => LinkInv
<1> SUFFICES ASSUME Init, encoded PROVE LinkInv
  BY DEF LinkInv
<1>1. name \in Seq(1 .. 255) /\ Len(name) <= MaxName /\ Len(name) \in Nat
  BY NamesAreBytes, LenProperties
<1>2. i = 0 /\ to = <<>> /\ pc # "done" /\ path = Memory(name) /\ r = 1 /\ w = 1
  BY Zenon DEF Init
<1> DEFINE start == [j \in 1 .. 1 |-> 1]
<1>3. Starts(start) /\ r = start[w]
  BY <1>2 DEF Starts
<1>4. path = [k \in Cells |-> path[k]]
  BY <1>2 DEF Memory
<1>5. to \in Seq(Int) /\ Len(to) = 0
  BY <1>2
<1> HIDE DEF start
<1>. QED  BY <1>1, <1>2, <1>3, <1>4, <1>5 DEF LinkInv

\* One more character is encoded.
LEMMA LinkGrows ==
  ASSUME LinkInv, DecodeInv, EncodeStep, encoded PROVE LinkInv'
<1> DEFINE c == name[i + 1]
           p == Piece(c)
<1>1. /\ pc = "encode" /\ i < Len(name) /\ to' = to \o p /\ i' = i + 1
      /\ UNCHANGED <<pc, name, encoded, path, r, w>>
  BY DEF EncodeStep, Piece
<1>2. /\ name \in Seq(1 .. 255) /\ Len(name) <= MaxName /\ i \in 0 .. Len(name)
      /\ to \in Seq(Int) /\ Len(to) <= 3 * i
      /\ path = [k \in Cells |-> path[k]]
  BY DEF LinkInv
<1>3. PICK start : Starts(start) /\ r = start[w]
  BY DEF LinkInv
<1>4. r = 1 /\ w = 1
  BY <1>1 DEF DecodeInv
<1>5. Len(name) \in Nat /\ Len(to) \in Nat /\ i \in Nat
  BY <1>2, LenProperties
<1>6. c \in 1 .. 255
  <2>1. i + 1 \in 1 .. Len(name)
    BY <1>1, <1>5
  <2>. QED  BY <1>2, <2>1, ElementOfSeq
<1> HIDE DEF c
<1>7. p \in Seq(Int) /\ Len(p) \in {1, 3}
  BY <1>6, PieceType
<1> HIDE DEF p
<1>8. to' \in Seq(Int) /\ Len(to') = Len(to) + Len(p)
  BY <1>1, <1>2, <1>7, ConcatProperties
<1>9. Len(to') <= 3 * i' /\ i' \in 0 .. Len(name) /\ Len(to') \in Nat /\ Len(to) + 1 <= Len(to')
  <2>0. Len(p) = 1 \/ Len(p) = 3
    BY <1>7
  <2>1. Len(to') \in Nat /\ Len(p) \in Nat /\ Len(p) >= 1 /\ Len(p) <= 3
    <3>1. CASE Len(p) = 1
      BY <1>5, <1>8, <3>1
    <3>2. CASE Len(p) = 3
      BY <1>5, <1>8, <3>2
    <3>. QED  BY <2>0, <3>1, <3>2
  <2>2. i' \in 0 .. Len(name)
    BY <1>1, <1>5
  <2>. QED  BY <1>1, <1>2, <1>5, <1>8, <2>1, <2>2
<1>s. PICK s : s = [j \in 1 .. i' + 1 |-> IF j = i + 2 THEN Len(to') + 1 ELSE start[j]]
  OBVIOUS
<1>10. start \in [1 .. i + 1 -> 1 .. Len(to) + 1] /\ start[1] = 1 /\ start[i + 1] = Len(to) + 1
  BY <1>3 DEF Starts
<1>11. s[i + 2] = Len(to') + 1 /\ \A j \in 1 .. i + 1 : s[j] = start[j]
  BY <1>1, <1>5, <1>s
<1>12. s \in [1 .. i' + 1 -> 1 .. Len(to') + 1]
  <2>1. ASSUME NEW j \in 1 .. i' + 1 PROVE s[j] \in 1 .. Len(to') + 1
    <3>1. j = i + 2 \/ j \in 1 .. i + 1
      BY <1>1, <1>5
    <3>2. CASE j = i + 2
      BY <1>9, <1>11, <3>2
    <3>3. CASE j \in 1 .. i + 1
      <4>1. s[j] = start[j] /\ start[j] \in 1 .. Len(to) + 1
        BY <1>10, <1>11, <3>3
      <4>. QED  BY <1>5, <1>9, <4>1
    <3>. QED  BY <3>1, <3>2, <3>3
  <2>. QED  BY <2>1, <1>s
<1>13. s[1] = 1 /\ s[i' + 1] = Len(to') + 1
  <2>1. i' + 1 = i + 2 /\ 1 \in 1 .. i + 1
    BY <1>1, <1>5
  <2>. QED  BY <1>10, <1>11, <2>1
<1>14. ASSUME NEW j \in 1 .. i'
       PROVE  /\ s[j + 1] = s[j] + Len(Piece(name'[j]))
              /\ \A k \in 1 .. Len(Piece(name'[j])) : to'[s[j] + k - 1] = Piece(name'[j])[k]
  <2>1. j \in 1 .. i \/ j = i + 1
    BY <1>1, <1>5
  <2>2. CASE j \in 1 .. i
    <3> DEFINE q == Piece(name[j])
    <3>1. start[j + 1] = start[j] + Len(q) /\ \A k \in 1 .. Len(q) : to[start[j] + k - 1] = q[k]
      BY <1>3, <2>2 DEF Starts
    <3>2. Len(q) \in {1, 3}
      <4>1. name[j] \in 1 .. 255
        <5>1. j \in 1 .. Len(name)
          BY <1>2, <1>5, <2>2
        <5>. QED  BY <1>2, <5>1, ElementOfSeq
      <4>. QED  BY <4>1, PieceType
    <3> HIDE DEF q
    <3>3. j \in 1 .. i + 1 /\ j + 1 \in 1 .. i + 1
      BY <1>5, <2>2
    <3>4. s[j] = start[j] /\ s[j + 1] = start[j + 1] /\ start[j] \in 1 .. Len(to) + 1 /\ start[j + 1] \in 1 .. Len(to) + 1
      BY <1>10, <1>11, <3>3
    <3>5. ASSUME NEW k \in 1 .. Len(q) PROVE to'[s[j] + k - 1] = q[k]
      <4>1. start[j] + k - 1 \in 1 .. Len(to)
        BY <1>5, <3>1, <3>2, <3>4
      <4>2. to'[start[j] + k - 1] = to[start[j] + k - 1]
        BY <1>1, <1>2, <1>7, <4>1, ConcatProperties
      <4>. QED  BY <3>1, <3>4, <4>2
    <3>. QED  BY <1>1, <3>1, <3>4, <3>5 DEF q
  <2>3. CASE j = i + 1
    <3>1. s[j] = Len(to) + 1 /\ s[j + 1] = Len(to') + 1 /\ Piece(name'[j]) = p
      <4>1. i + 1 \in 1 .. i + 1 /\ j + 1 = i + 2
        BY <1>5, <2>3
      <4>. QED  BY <1>1, <1>10, <1>11, <2>3, <4>1 DEF p, c
    <3>2. ASSUME NEW k \in 1 .. Len(p) PROVE to'[s[j] + k - 1] = p[k]
      <4>1. s[j] + k - 1 = Len(to) + k /\ Len(to) + k \in 1 .. Len(to) + Len(p) /\ Len(to) + k > Len(to)
            /\ Len(to) + k - Len(to) = k
        BY <1>5, <1>7, <3>1
      <4>2. to'[Len(to) + k] = p[Len(to) + k - Len(to)]
        <5>1. \A m \in 1 .. Len(to) + Len(p) : m > Len(to) => (to \o p)[m] = p[m - Len(to)]
          BY <1>2, <1>5, <1>7, ConcatProperties
        <5>. QED  BY <1>1, <4>1, <5>1
      <4>. QED  BY <4>1, <4>2
    <3>3. s[j + 1] = s[j] + Len(p)
      BY <1>5, <1>7, <1>8, <3>1
    <3>. QED  BY <3>1, <3>2, <3>3
  <2>. QED  BY <2>1, <2>2, <2>3
<1>15. Starts(s)'
  BY <1>12, <1>13, <1>14 DEF Starts
<1>16. r' = s[w'] /\ w' \in 1 .. i' + 1
  BY <1>1, <1>4, <1>5, <1>13
<1>17. \A k \in 1 .. w' - 1 : path'[k] = name'[k]
  BY <1>1, <1>4
<1>. QED  BY <1>1, <1>2, <1>8, <1>9, <1>15, <1>16, <1>17 DEF LinkInv

\* Decoding stands at the beginning of a piece, or at the end of the link.
LEMMA LinkAhead ==
  ASSUME LinkInv, DecodeInv, encoded, pc = "decode", NEW start, Starts(start), r = start[w]
  PROVE  /\ MaxName \in Nat /\ r \in Cells /\ w \in Cells /\ w <= r /\ w \in 1 .. i + 1 /\ i \in Nat
         /\ w = i + 1 => path[r] = 0
         /\ w # i + 1 =>
              /\ w \in 1 .. i /\ name[w] \in 1 .. 255
              /\ start[w + 1] = r + Len(Piece(name[w]))
              /\ \A k \in 1 .. Len(Piece(name[w])) : path[r + k - 1] = Piece(name[w])[k]
<1>1. /\ name \in Seq(1 .. 255) /\ Len(name) <= MaxName /\ i \in 0 .. Len(name)
      /\ to \in Seq(Int) /\ Len(to) <= 3 * i /\ w \in 1 .. i + 1
  BY DEF LinkInv
<1>2. Len(name) \in Nat /\ Len(to) \in Nat /\ i \in Nat /\ MaxName \in Nat
  BY <1>1, LenProperties, TextAssumption
<1>3. w <= r /\ \A k \in Cells : k >= r => path[k] = Memory(to)[k]
  BY DEF DecodeInv, NeverOvertakes
<1>4. /\ start \in [1 .. i + 1 -> 1 .. Len(to) + 1] /\ start[i + 1] = Len(to) + 1
      /\ \A j \in 1 .. i :
           /\ start[j + 1] = start[j] + Len(Piece(name[j]))
           /\ \A k \in 1 .. Len(Piece(name[j])) : to[start[j] + k - 1] = Piece(name[j])[k]
  BY DEF Starts
<1>5. Len(to) <= 3 * MaxName
  <2>1. i <= MaxName
    BY <1>1, <1>2
  <2>. QED  BY <1>1, <1>2, <2>1
<1>6. r \in 1 .. Len(to) + 1 /\ \A k \in 1 .. Len(to) + 1 : k \in Cells
  <2>1. r \in 1 .. Len(to) + 1
    BY <1>1, <1>4
  <2>. QED  BY <1>2, <1>5, <2>1 DEF Cells
<1>7. w \in Cells
  <2>1. w \in 1 .. Len(to) + 1
    BY <1>1, <1>2, <1>3, <1>6
  <2>. QED  BY <1>6, <2>1
<1>8. ASSUME w = i + 1 PROVE path[r] = 0
  <2>1. r = Len(to) + 1 /\ r >= r
    BY <1>2, <1>4, <1>8
  <2>2. path[r] = Memory(to)[r]
    BY <1>3, <1>6, <2>1
  <2>3. ~(r <= Len(to))
    BY <1>2, <2>1
  <2>. QED  BY <1>6, <2>2, <2>3 DEF Memory
<1>9. ASSUME w # i + 1
      PROVE  /\ w \in 1 .. i /\ name[w] \in 1 .. 255
             /\ start[w + 1] = r + Len(Piece(name[w]))
             /\ \A k \in 1 .. Len(Piece(name[w])) : path[r + k - 1] = Piece(name[w])[k]
  <2> DEFINE p == Piece(name[w])
  <2>1. w \in 1 .. i
    BY <1>1, <1>2, <1>9
  <2>2. name[w] \in 1 .. 255
    <3>1. w \in 1 .. Len(name)
      BY <1>1, <1>2, <2>1
    <3>. QED  BY <1>1, <3>1, ElementOfSeq
  <2>3. start[w + 1] = r + Len(p) /\ \A k \in 1 .. Len(p) : to[r + k - 1] = p[k]
    BY <1>4, <2>1
  <2>4. start[w + 1] \in 1 .. Len(to) + 1
    <3>1. w + 1 \in 1 .. i + 1
      BY <1>2, <2>1
    <3>. QED  BY <1>4, <3>1
  <2>5. Len(p) \in {1, 3}
    BY <2>2, PieceType
  <2> HIDE DEF p
  <2>6. ASSUME NEW k \in 1 .. Len(p) PROVE path[r + k - 1] = p[k]
    <3>1. r + k - 1 \in 1 .. Len(to) /\ r + k - 1 \in 1 .. Len(to) + 1 /\ r + k - 1 >= r /\ r + k - 1 <= Len(to)
      BY <1>2, <1>6, <2>3, <2>4, <2>5
    <3>2. path[r + k - 1] = Memory(to)[r + k - 1] /\ r + k - 1 \in Cells
      BY <1>3, <1>6, <3>1
    <3>3. Memory(to)[r + k - 1] = to[r + k - 1]
      BY <3>1, <3>2 DEF Memory
    <3>. QED  BY <2>3, <3>2, <3>3
  <2>. QED  BY <2>1, <2>2, <2>3, <2>6 DEF p
<1>. QED  BY <1>1, <1>2, <1>3, <1>6, <1>7, <1>8, <1>9

\* One more piece is decoded.
LEMMA LinkShrinks ==
  ASSUME LinkInv, DecodeInv, DecodeStep, encoded PROVE LinkInv'
<1>1. /\ pc = "decode" /\ path[r] # 0 /\ w' = w + 1
      /\ UNCHANGED <<pc, name, encoded, i, to>>
  BY DEF DecodeStep
<1>2. /\ name \in Seq(1 .. 255) /\ Len(name) <= MaxName /\ i \in 0 .. Len(name)
      /\ to \in Seq(Int) /\ Len(to) <= 3 * i
      /\ path = [k \in Cells |-> path[k]]
      /\ \A k \in 1 .. w - 1 : path[k] = name[k]
  BY DEF LinkInv
<1>3. PICK start : Starts(start) /\ r = start[w]
  BY DEF LinkInv
<1> DEFINE c == name[w]
           p == Piece(c)
<1>4. /\ MaxName \in Nat /\ r \in Cells /\ w \in Cells /\ w <= r /\ w \in 1 .. i + 1 /\ i \in Nat
      /\ w # i + 1 /\ w \in 1 .. i /\ c \in 1 .. 255 /\ start[w + 1] = r + Len(p)
      /\ \A k \in 1 .. Len(p) : path[r + k - 1] = p[k]
  <2>1. w # i + 1
    BY <1>1, <1>3, LinkAhead
  <2>. QED  BY <1>1, <1>3, <2>1, LinkAhead
<1> HIDE DEF c
<1>5. /\ p \in Seq(Int) /\ Len(p) \in {1, 3} /\ p[1] # 0
      /\ c \in Safe => p = <<c>> /\ c # Percent
      /\ c \notin Safe =>
           /\ Len(p) = 3 /\ p[1] = Percent /\ IsXDigit(p[2]) /\ IsXDigit(p[3])
           /\ hexit(p[2]) * 16 + hexit(p[3]) = c
  BY <1>4, PieceType
<1> HIDE DEF p
<1>6. r \in Nat
  BY <1>4 DEF Cells
<1>7. path' = [path EXCEPT ![w] = c] /\ r' = start[w + 1]
  <2>1. CASE c \in Safe
    <3>1. p = <<c>> /\ c # Percent
      BY <1>5, <2>1
    <3>2. Len(p) = 1 /\ p[1] = c
      BY <3>1
    <3>3. path[r] = c
      <4>1. path[r + 1 - 1] = p[1] /\ r + 1 - 1 = r
        BY <1>4, <1>6, <3>2
      <4>. QED  BY <3>2, <4>1
    <3>4. ~EscapeAt(path, r)
      BY <3>1, <3>3 DEF EscapeAt
    <3>5. path' = [path EXCEPT ![w] = path[r]] /\ r' = r + 1
      BY <3>4 DEF DecodeStep
    <3>. QED  BY <1>4, <3>2, <3>3, <3>5
  <2>2. CASE c \notin Safe
    <3>1. /\ Len(p) = 3 /\ p[1] = Percent /\ IsXDigit(p[2]) /\ IsXDigit(p[3])
          /\ hexit(p[2]) * 16 + hexit(p[3]) = c
      BY <1>5, <2>2
    <3>2. path[r] = p[1] /\ path[r + 1] = p[2] /\ path[r + 2] = p[3]
      <4>1. path[r + 1 - 1] = p[1] /\ path[r + 2 - 1] = p[2] /\ path[r + 3 - 1] = p[3]
        <5>1. 1 \in 1 .. Len(p) /\ 2 \in 1 .. Len(p) /\ 3 \in 1 .. Len(p)
          BY <3>1
        <5>. QED  BY <1>4, <5>1
      <4>2. r + 1 - 1 = r /\ r + 2 - 1 = r + 1 /\ r + 3 - 1 = r + 2
        BY <1>6
      <4>. QED  BY <4>1, <4>2
    <3>3. EscapeAt(path, r)
      BY <3>1, <3>2 DEF EscapeAt
    <3>4. path' = [path EXCEPT ![w] = hexit(path[r + 1]) * 16 + hexit(path[r + 2])] /\ r' = r + 3
      BY <3>3 DEF DecodeStep
    <3>. QED  BY <1>4, <3>1, <3>2, <3>4
  <2>. QED  BY <2>1, <2>2
<1>8. path' = [k \in Cells |-> path'[k]] /\ path'[w] = c /\ \A k \in Cells : k # w => path'[k] = path[k]
  BY <1>2, <1>4, <1>7
<1>9. w' \in 1 .. i' + 1
  BY <1>1, <1>4
<1>10. Starts(start)' /\ r' = start[w']
  BY <1>1, <1>3, <1>7 DEF Starts
<1>11. ASSUME NEW k \in 1 .. w' - 1 PROVE path'[k] = name'[k]
  <2>1. CASE k = w
    BY <1>1, <1>8, <2>1 DEF c
  <2>2. CASE k # w
    <3>1. k \in 1 .. w - 1 /\ k \in Cells
      BY <1>1, <1>4, <2>2 DEF Cells
    <3>. QED  BY <1>1, <1>2, <1>8, <2>2, <3>1
  <2>. QED  BY <2>1, <2>2
<1>12. pc' # "done"
  BY <1>1
<1>. QED  BY <1>1, <1>2, <1>8, <1>9, <1>10, <1>11, <1>12 DEF LinkInv

\* The steps of both functions keep the link and what was read of it.
LEMMA LinkStep == LinkInv /\ DecodeInv /\ [Next]_vars => LinkInv'
<1> SUFFICES ASSUME LinkInv, DecodeInv, [Next]_vars, encoded' PROVE LinkInv'
  BY DEF LinkInv
<1>1. CASE EncodeStep
  <2>1. encoded
    BY <1>1 DEF EncodeStep
  <2>. QED  BY <1>1, <2>1, LinkGrows
<1>2. CASE EncodeDone
  <2>1. encoded /\ pc = "encode" /\ pc' = "decode" /\ path' = Memory(to) /\ UNCHANGED <<name, i, to, r, w>>
    BY <1>2 DEF EncodeDone
  <2>2. w = 1
    BY <2>1 DEF DecodeInv
  <2>3. /\ name \in Seq(1 .. 255) /\ Len(name) <= MaxName /\ i \in 0 .. Len(name)
        /\ to \in Seq(Int) /\ Len(to) <= 3 * i /\ w \in 1 .. i + 1
        /\ \E start : Starts(start) /\ r = start[w]
    BY <2>1 DEF LinkInv
  <2>4. (\E start : Starts(start) /\ r = start[w])'
    BY <2>1, <2>3 DEF Starts
  <2>5. path' = [k \in Cells |-> path'[k]]
    BY <2>1 DEF Memory
  <2>6. \A k \in 1 .. w' - 1 : path'[k] = name'[k]
    BY <2>1, <2>2
  <2>. QED  BY <2>1, <2>3, <2>4, <2>5, <2>6 DEF LinkInv
<1>3. CASE DecodeStep
  <2>1. encoded
    BY <1>3 DEF DecodeStep
  <2>. QED  BY <1>3, <2>1, LinkShrinks
<1>4. CASE DecodeDone
  <2>1. /\ encoded /\ pc = "decode" /\ path[r] = 0 /\ path' = [path EXCEPT ![w] = 0]
        /\ UNCHANGED <<name, i, to, r, w>>
    BY <1>4 DEF DecodeDone
  <2>2. /\ name \in Seq(1 .. 255) /\ Len(name) <= MaxName /\ i \in 0 .. Len(name)
        /\ to \in Seq(Int) /\ Len(to) <= 3 * i /\ w \in 1 .. i + 1
        /\ path = [k \in Cells |-> path[k]]
        /\ \A k \in 1 .. w - 1 : path[k] = name[k]
    BY <2>1 DEF LinkInv
  <2>3. PICK start : Starts(start) /\ r = start[w]
    BY <2>1 DEF LinkInv
  <2>4. MaxName \in Nat /\ w \in Cells /\ i \in Nat
    BY <2>1, <2>3, LinkAhead
  <2>5. w = i + 1
    <3> SUFFICES ASSUME w # i + 1 PROVE FALSE
      OBVIOUS
    <3>1. /\ name[w] \in 1 .. 255 /\ r \in Cells
          /\ \A k \in 1 .. Len(Piece(name[w])) : path[r + k - 1] = Piece(name[w])[k]
      BY <2>1, <2>3, LinkAhead
    <3>2. 1 \in 1 .. Len(Piece(name[w])) /\ Piece(name[w])[1] # 0
      <4>1. Len(Piece(name[w])) \in {1, 3} /\ Piece(name[w])[1] # 0
        BY <3>1, PieceType
      <4>. QED  BY <4>1
    <3>3. r + 1 - 1 = r
      BY <3>1 DEF Cells
    <3>. QED  BY <2>1, <3>1, <3>2, <3>3
  <2>6. path' = [k \in Cells |-> path'[k]] /\ \A k \in Cells : k # w => path'[k] = path[k]
    BY <2>1, <2>2
  <2>7. \A k \in 1 .. w - 1 : path'[k] = name[k]
    <3>1. \A k \in 1 .. w - 1 : k \in Cells /\ k # w
      BY <2>4 DEF Cells
    <3>. QED  BY <2>2, <2>6, <3>1
  <2>8. (\E start_1 : Starts(start_1) /\ r = start_1[w])'
    BY <2>1, <2>3 DEF Starts
  <2>. QED  BY <2>1, <2>2, <2>5, <2>6, <2>7, <2>8 DEF LinkInv
<1>5. CASE UNCHANGED vars
  <2>1. UNCHANGED <<pc, name, encoded, i, to, path, r, w>>
    BY <1>5 DEF vars
  <2>. QED  BY <2>1 DEF LinkInv, Starts
<1>. QED  BY <1>1, <1>2, <1>3, <1>4, <1>5 DEF Next

\* Every link leads back to the name it was made of, or to its beginning.
THEOREM LinksLeadBack == Spec => []RoundTrip
<1>1. LinkInv => RoundTrip
  <2> SUFFICES ASSUME LinkInv, pc = "done", encoded PROVE Written = SubSeq(name, 1, i)
    BY DEF RoundTrip
  <2>1. /\ w = i + 1 /\ i \in 0 .. Len(name) /\ name \in Seq(1 .. 255)
        /\ \A k \in 1 .. w - 1 : path[k] = name[k]
    BY DEF LinkInv
  <2>2. i \in Nat /\ Len(name) \in Nat
    BY <2>1, LenProperties
  <2>t. ASSUME NEW k \in 1 .. i PROVE name[k] \in 1 .. 255
    <3>1. k \in 1 .. Len(name)
      BY <2>1, <2>2
    <3>. QED  BY <2>1, <3>1, ElementOfSeq
  <2>3. Written = [k \in 1 .. i |-> name[k]]
    <3>1. w - 1 = i
      BY <2>1, <2>2
    <3>. QED  BY <2>1, <3>1 DEF Written
  <2>4. SubSeq(name, 1, i) = [k \in 1 .. i |-> name[k]]
    <3> DEFINE s == SubSeq(name, 1, i)
               f == [k \in 1 .. i |-> name[k]]
    <3>1. s \in Seq(1 .. 255) /\ Len(s) = i /\ \A k \in 1 .. i : s[k] = name[k]
      <4>2. \A k \in 1 .. i : name[k] \in 1 .. 255
        BY <2>t
      <4>3. i - 1 + 1 = i /\ (IF 1 <= i THEN i - 1 + 1 ELSE 0) = i /\ i \in Int /\ 1 \in Int
        BY <2>2
      <4>4. /\ s \in Seq(1 .. 255) /\ Len(s) = IF 1 <= i THEN i - 1 + 1 ELSE 0
            /\ \A k \in 1 .. i - 1 + 1 : s[k] = name[1 + k - 1]
        <5> HIDE DEF f
        <5>. QED  BY <4>2, <4>3, SubSeqProperties
      <4>5. \A k \in 1 .. i : 1 + k - 1 = k
        BY <2>2
      <4> HIDE DEF s, f
      <4>. QED  BY <4>3, <4>4, <4>5
    <3>2. f \in Seq(1 .. 255) /\ Len(f) = i
      <4>1. f \in [1 .. i -> 1 .. 255]
        BY <2>t
      <4> HIDE DEF f
      <4>. QED  BY <2>2, <4>1, SeqDef
    <3>3. \A k \in 1 .. i : s[k] = f[k]
      BY <3>1
    <3> HIDE DEF s, f
    <3>. QED  BY <3>1, <3>2, <3>3, SeqEqual DEF s, f
  <2>. QED  BY <2>3, <2>4
<1>. QED  BY LinkInit, LinkStep, DecodeInvInit, DecodeInvStep, <1>1, PTL DEF Spec
=============================================================================

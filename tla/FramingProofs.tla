---------------------------- MODULE FramingProofs ----------------------------
(***************************************************************************)
(* Theorems about one connection (Framing), for any limit, any first       *)
(* buffer, any lengths and any number of lines: each line is answered once *)
(* and in order, and nothing of it stays behind.                           *)
(*                                                                         *)
(* They rest on a layout of the bytes the peer has sent: where each line   *)
(* begins.  What the handler has not consumed, in the buffer and then in   *)
(* the pipe, is the stream from where the next line begins, however it has *)
(* been cut up on its way.                                                 *)
(***************************************************************************)
EXTENDS Framing, SequenceTheorems, TLAPS

USE LimitAssumption, LengthAssumption

-----------------------------------------------------------------------------
(* The inductive invariant *)

\* The stream that is left: the bytes in use, and those still in the pipe.
Avail == n + Len(pipe)
At(i) == IF i <= n THEN buf[i] ELSE pipe[i - n]

Size(line) == line.len + IF line.whole THEN 1 ELSE 0
Byte(k, j) == IF j <= lines[k].len THEN k ELSE -k

Bounds ==
    /\ Len(lines) \in 0 .. MaxLines
    /\ Len(taken) \in 0 .. Len(lines)

\* Only the last line is unfinished, and only when the peer has gone; no
\* unfinished or valid line is empty.
Lines ==
    \A k \in 1 .. Len(lines) :
        /\ ~lines[k].whole => k = Len(lines) /\ hungUp /\ lines[k].len > 0
        /\ lines[k].kind # "not_json" => lines[k].len > 0

\* at[k] bytes precede the k-th line.
Places(at) ==
    /\ at \in [1 .. Len(lines) + 1 -> Nat]
    /\ \A k \in 1 .. Len(lines) : at[k + 1] = at[k] + Size(lines[k])
    /\ \A k, l \in 1 .. Len(lines) + 1 : k <= l => at[k] <= at[l]

\* The i-th byte that is left is the j-th of the k-th line.
Is(at, i, k, j) ==
    i = at[k] - at[Len(taken) + 1] + j /\ At(i) = Byte(k, j)

Layout(at) ==
    /\ Places(at)
    /\ Avail = at[Len(lines) + 1] - at[Len(taken) + 1]
    /\ \A i \in 1 .. Avail :
           \E k \in Len(taken) + 1 .. Len(lines) : \E j \in 1 .. Size(lines[k]) : Is(at, i, k, j)

Stream == \E at : Layout(at)

Clean ==
    /\ \A i \in n + 1 .. Len(buf) : buf[i] = 0
    /\ freed = {}

\* What has been consumed is a line, whole and of legal length.
Taken ==
    \A k \in 1 .. Len(taken) :
        /\ taken[k] = Content(k, lines[k].len)
        /\ lines[k].whole /\ Fits(k)

\* A line is refused when it is next and too long.
Refused == pc = "refuse" => Len(taken) < Len(lines) /\ ~Fits(Len(taken) + 1)

Counted ==
    /\ Len(answers) <= Len(lines)
    /\ pc \in {"read", "refuse"} => Len(answers) = Len(taken)
    /\ pc \in {"dispatch", "answer"} => Len(answers) = Len(taken) - 1
    /\ pc = "dispatch" => lines[Len(taken)].kind = "request"

\* Params are decoded from lines that have been consumed, and held no longer
\* than until the request is decided.
Copies == copies \subseteq 1 .. Len(taken) /\ copies \cap ToSet(decided) = {}

\* The two parts of AnsweredInOrder.
AnswersDue ==
    \A j \in DOMAIN answers : answers[j] = Due(j) /\ (lines[j].whole \/ ~Fits(j))
DecidedInTurn ==
    /\ \A i, j \in DOMAIN decided : i < j => decided[i] < decided[j]
    /\ ToSet(decided) = {j \in DOMAIN taken : /\ lines[j].kind = "request"
                                              /\ pc = "dispatch" => j < Len(taken)}

Handled ==
    Bounds /\ Lines /\ Taken /\ Refused /\ Counted /\ Copies /\ AnswersDue /\ DecidedInTurn
IInv == TypeOK /\ Stream /\ Clean /\ Handled

-----------------------------------------------------------------------------
(* Lemmas about sequences *)

LEMMA ContentIsSeq ==
  ASSUME NEW len \in Nat, NEW k
  PROVE  /\ Content(k, len) \in Seq({k})
         /\ Len(Content(k, len)) = len
         /\ \A i \in 1 .. len : Content(k, len)[i] = k
BY DEF Content

LEMMA ContentIsBytes ==
  ASSUME NEW len \in Nat, NEW k \in Bytes
  PROVE  /\ Content(k, len) \in Seq(Bytes)
         /\ Len(Content(k, len)) = len
         /\ \A i \in 1 .. len : Content(k, len)[i] = k
BY DEF Content

LEMMA ZerosIsSeq ==
  ASSUME NEW len \in Nat
  PROVE  /\ Zeros(len) \in Seq({0})
         /\ Len(Zeros(len)) = len
         /\ \A i \in 1 .. len : Zeros(len)[i] = 0
BY DEF Zeros

LEMMA LineData ==
  ASSUME TypeOK, NEW k \in 1 .. Len(lines)
  PROVE  /\ lines[k].len \in Nat
         /\ lines[k].whole \in BOOLEAN
         /\ lines[k].kind \in Kinds
         /\ Size(lines[k]) \in Nat
         /\ lines[k].whole => Size(lines[k]) = lines[k].len + 1
         /\ ~lines[k].whole => Size(lines[k]) = lines[k].len
<1>1. lines[k] \in [len: Lengths, kind: Kinds, whole: BOOLEAN]
  BY ElementOfSeq DEF TypeOK
<1>2. lines[k].len \in Nat /\ lines[k].whole \in BOOLEAN /\ lines[k].kind \in Kinds
  BY <1>1
<1> QED
  BY <1>2 DEF Size

-----------------------------------------------------------------------------
(* The next line *)

\* The bytes that are left begin with the next line.
LEMMA NextLine ==
  ASSUME TypeOK, Bounds, NEW at, Layout(at), Avail > 0,
         NEW f, f = Len(taken) + 1
  PROVE  /\ f \in 1 .. Len(lines)
         /\ Size(lines[f]) <= Avail
         /\ at[f + 1] = at[f] + Size(lines[f])
         /\ \A i \in 1 .. Size(lines[f]) : At(i) = Byte(f, i)
         /\ f = Len(lines) => Avail = Size(lines[f])
<1>1. Avail \in Nat /\ Len(lines) \in Nat /\ Len(taken) \in Nat
  BY DEF Avail, TypeOK
<1>2. PICK k \in f .. Len(lines) : \E j \in 1 .. Size(lines[k]) : Is(at, 1, k, j)
  BY <1>1 DEF Layout
<1>3. f \in 1 .. Len(lines)
  BY <1>1, <1>2 DEF Bounds
<1>4. Size(lines[f]) \in Nat
  BY <1>3, LineData
<1>5. /\ at[f + 1] = at[f] + Size(lines[f])
      /\ at \in [1 .. Len(lines) + 1 -> Nat]
      /\ at[f + 1] <= at[Len(lines) + 1]
      /\ \A l \in 1 .. Len(lines) + 1 : f + 1 <= l => at[f + 1] <= at[l]
  BY <1>1, <1>3 DEF Layout, Places
<1>5a. /\ at[f] \in Nat /\ at[f + 1] \in Nat /\ at[Len(lines) + 1] \in Nat
       /\ Avail = at[Len(lines) + 1] - at[f]
  <2>1. Avail = at[Len(lines) + 1] - at[f]
    BY DEF Layout
  <2>2. f + 1 \in 1 .. Len(lines) + 1 /\ Len(lines) + 1 \in 1 .. Len(lines) + 1
        /\ f \in 1 .. Len(lines) + 1
    BY <1>1, <1>3
  <2> QED
    BY <1>5, <2>1, <2>2
<1>6. Size(lines[f]) <= Avail
  BY <1>1, <1>4, <1>5, <1>5a
<1>7. ASSUME NEW i \in 1 .. Size(lines[f]) PROVE At(i) = Byte(f, i)
  <2>1. PICK l \in f .. Len(lines) : \E j \in 1 .. Size(lines[l]) : Is(at, i, l, j)
    BY <1>1, <1>4, <1>6, <1>7 DEF Layout
  <2>2. PICK j \in 1 .. Size(lines[l]) : Is(at, i, l, j)
    BY <2>1
  <2>3. Size(lines[l]) \in Nat /\ l \in 1 .. Len(lines)
    BY <1>1, <1>3, <2>1, LineData
  <2>4. i = at[l] - at[f] + j /\ At(i) = Byte(l, j)
    BY <2>2 DEF Is
  <2>5. l = f
    <3>1. SUFFICES ASSUME f + 1 <= l PROVE FALSE
      BY <1>1, <2>1
    <3>2. at[f + 1] <= at[l] /\ at[l] \in Nat
      BY <1>1, <1>3, <1>5, <2>3, <3>1
    <3>3. at[l] - at[f] >= Size(lines[f])
      <4>1. at[f + 1] = at[f] + Size(lines[f])
        BY <1>5
      <4>2. at[f] \in Nat /\ at[f + 1] \in Nat
        BY <1>5a
      <4> QED
        BY <1>4, <3>2, <4>1, <4>2, SMTT(30)
    <3>4. i > Size(lines[f])
      BY <1>4, <1>5a, <2>4, <3>2, <3>3
    <3> QED
      BY <1>4, <3>4
  <2> QED
    BY <1>4, <1>5a, <2>3, <2>4, <2>5
<1>8. f = Len(lines) => Avail = Size(lines[f])
  BY <1>4, <1>5, <1>5a
<1> QED
  BY <1>3, <1>5, <1>6, <1>7, <1>8

\* A newline in the buffer is that of the next line, which is whole and of
\* legal length.
LEMMA Frame ==
  ASSUME TypeOK, Bounds, Lines, Stream, Newlines # {},
         NEW f, f = Len(taken) + 1
  PROVE  /\ f \in 1 .. Len(lines)
         /\ lines[f].whole /\ Fits(f)
         /\ End = lines[f].len + 1 /\ End <= n
         /\ Line = Content(f, lines[f].len)
<1> PICK at : Layout(at)
  BY DEF Stream
<1>1. n \in Nat /\ Len(pipe) \in Nat /\ Len(buf) \in Nat /\ n <= Len(buf) /\ Len(buf) <= Limit + 1
      /\ \A i \in 1 .. Len(buf) : buf[i] \in Int
  <2>1. buf \in Seq(Bytes) /\ pipe \in Seq(Bytes) /\ n \in Nat /\ n <= Len(buf) /\ Len(buf) <= Limit + 1
    BY DEF TypeOK
  <2>2. \A i \in 1 .. Len(buf) : buf[i] \in Bytes
    BY <2>1, ElementOfSeq
  <2>3. \A i \in 1 .. Len(buf) : buf[i] \in Int
    BY <2>2 DEF Bytes
  <2>4. Len(buf) \in Nat /\ Len(pipe) \in Nat
    BY <2>1
  <2> QED
    BY <2>1, <2>3, <2>4
<1>2. PICK e \in 1 .. n : buf[e] < 0
  BY DEF Newlines
<1>3. Avail > 0
  BY <1>1, <1>2 DEF Avail
<1>4. /\ f \in 1 .. Len(lines)
      /\ Size(lines[f]) <= Avail
      /\ \A i \in 1 .. Size(lines[f]) : At(i) = Byte(f, i)
      /\ f = Len(lines) => Avail = Size(lines[f])
  BY <1>3, NextLine
<1>5. /\ lines[f].len \in Nat /\ lines[f].whole \in BOOLEAN
      /\ lines[f].whole => Size(lines[f]) = lines[f].len + 1
      /\ ~lines[f].whole => Size(lines[f]) = lines[f].len
  BY <1>4, LineData
<1>6. \A i \in 1 .. lines[f].len : i <= n => buf[i] = f
  BY <1>1, <1>4, <1>5 DEF At, Byte
<1>7. e > lines[f].len
  <2>1. f > 0 /\ e \in Nat /\ e > 0 /\ e <= n
    BY <1>1, <1>2, <1>4
  <2>2. e <= lines[f].len => buf[e] = f
    BY <1>5, <1>6, <2>1
  <2>3. ~(e <= lines[f].len)
    BY <1>2, <2>1, <2>2
  <2> QED
    BY <1>5, <2>1, <2>3
<1>8. lines[f].whole
  <2>1. ~lines[f].whole => f = Len(lines)
    BY <1>4 DEF Lines
  <2>2. ~lines[f].whole => n + Len(pipe) = lines[f].len
    BY <1>4, <1>5, <2>1 DEF Avail
  <2> QED
    BY <1>1, <1>2, <1>5, <1>7, <2>2
<1>9. buf[lines[f].len + 1] = -f
  <2>1. At(lines[f].len + 1) = Byte(f, lines[f].len + 1)
    BY <1>4, <1>5, <1>8
  <2>2. lines[f].len + 1 <= n
    BY <1>1, <1>2, <1>5, <1>7
  <2> QED
    BY <1>1, <1>5, <2>1, <2>2 DEF At, Byte
<1>10. End = lines[f].len + 1
  <2>1. lines[f].len + 1 \in Newlines
    BY <1>1, <1>2, <1>4, <1>5, <1>7, <1>9 DEF Newlines
  <2>2. \A j \in Newlines : lines[f].len + 1 <= j
    BY <1>1, <1>4, <1>5, <1>6 DEF Newlines
  <2>3. Newlines \subseteq Int
    BY <1>1 DEF Newlines
  <2>4. ASSUME NEW j \in Newlines, \A l \in Newlines : j <= l
        PROVE  j = lines[f].len + 1
    <3>1. j <= lines[f].len + 1 /\ lines[f].len + 1 <= j
      BY <2>1, <2>2, <2>4
    <3> QED
      BY <1>5, <2>3, <3>1
  <2> QED
    BY <2>1, <2>2, <2>4 DEF End
<1>11. End <= n /\ Fits(f)
  BY <1>1, <1>2, <1>5, <1>7, <1>10 DEF Fits
<1>12. Line = Content(f, lines[f].len)
  <2>1. End - 1 = lines[f].len
    BY <1>5, <1>10
  <2>2. \A i \in 1 .. lines[f].len : buf[i] = f
    BY <1>1, <1>5, <1>6, <1>10, <1>11
  <2>3. Line \in Seq({f}) /\ Len(Line) = lines[f].len
        /\ \A i \in 1 .. lines[f].len : Line[i] = f
    BY <1>5, <2>1, <2>2, SubSeqProperties DEF Line
  <2> QED
    BY <1>5, <2>3, ContentIsSeq, SeqEqual
<1> QED
  BY <1>4, <1>8, <1>10, <1>11, <1>12

\* A buffer that is full without a newline is too short for the next line.
LEMMA TooLong ==
  ASSUME TypeOK, Bounds, Lines, Stream, Newlines = {}, n > Limit,
         NEW f, f = Len(taken) + 1
  PROVE  f <= Len(lines) /\ ~Fits(f)
<1> PICK at : Layout(at)
  BY DEF Stream
<1>1. n \in Nat /\ Len(pipe) \in Nat
  BY DEF TypeOK
<1>2. Avail > 0
  BY <1>1 DEF Avail
<1>3. /\ f \in 1 .. Len(lines)
      /\ Size(lines[f]) <= Avail
      /\ \A i \in 1 .. Size(lines[f]) : At(i) = Byte(f, i)
      /\ f = Len(lines) => Avail = Size(lines[f])
  BY <1>2, NextLine
<1>4. /\ lines[f].len \in Nat /\ lines[f].whole \in BOOLEAN
      /\ lines[f].whole => Size(lines[f]) = lines[f].len + 1
      /\ ~lines[f].whole => Size(lines[f]) = lines[f].len
  BY <1>3, LineData
<1>5. CASE lines[f].whole
  <2>1. SUFFICES ASSUME lines[f].len <= Limit PROVE FALSE
    BY <1>3, <1>4 DEF Fits
  <2>2. buf[lines[f].len + 1] = -f
    BY <1>1, <1>3, <1>4, <1>5, <2>1 DEF At, Byte
  <2> QED
    BY <1>1, <1>3, <1>4, <2>1, <2>2 DEF Newlines
<1>6. CASE ~lines[f].whole
  <2>1. f = Len(lines)
    BY <1>3, <1>6 DEF Lines
  <2>2. n + Len(pipe) = lines[f].len
    BY <1>3, <1>4, <1>6, <2>1 DEF Avail
  <2> QED
    BY <1>1, <1>3, <1>4, <2>2 DEF Fits
<1> QED
  BY <1>3, <1>5, <1>6

-----------------------------------------------------------------------------
(* What a line says *)

LEMMA KindOfLine ==
  ASSUME TypeOK, Lines, NEW k \in 1 .. Len(lines),
         NEW frame, frame = Content(k, lines[k].len)
  PROVE  /\ lines[k].len > 0 => LineOf(frame) = k
         /\ KindOf(frame) = lines[k].kind
<1>1. lines[k].len \in Nat /\ Len(frame) = lines[k].len /\ \A i \in 1 .. lines[k].len : frame[i] = k
  BY LineData, ContentIsSeq
<1>2. CASE lines[k].len > 0
  <2>1. frame # <<>> /\ frame[1] = k
    BY <1>1, <1>2
  <2>2. LineOf(frame) = k /\ k # 0
    BY <2>1 DEF LineOf
  <2> QED
    BY <2>2 DEF KindOf
<1>3. CASE ~(lines[k].len > 0)
  <2>1. frame = <<>>
    BY <1>1, <1>3, ContentIsSeq, EmptySeq
  <2>2. LineOf(frame) = 0 /\ lines[k].kind = "not_json"
    BY <1>3, <2>1 DEF LineOf, Lines
  <2> QED
    BY <1>3, <2>2 DEF KindOf
<1> QED
  BY <1>2, <1>3

-----------------------------------------------------------------------------
(* The stream *)

\* What a step does to the stream: nothing, takes e bytes from its beginning,
\* or adds a line, the last one, at its end.
Untouched == Avail' = Avail /\ \A i \in 1 .. Avail : At(i)' = At(i)
ShortenedBy(e) == Avail' = Avail - e /\ \A i \in 1 .. Avail - e : At(i)' = At(i + e)
Adds(line, last) == last = Len(lines) + 1 /\ lines' = Append(lines, line)
Takes(f, e) == f = Len(taken) + 1 /\ Len(taken') = f /\ e = Size(lines[f])
ExtendedBy(line, last) ==
    /\ Avail' = Avail + Size(line)
    /\ \A i \in 1 .. Avail : At(i)' = At(i)
    /\ \A i \in Avail + 1 .. Avail + Size(line) :
           At(i)' = IF i - Avail <= line.len THEN last ELSE -last

LEMMA PlaceIsNat ==
  ASSUME TypeOK, NEW at, Places(at), NEW k \in 1 .. Len(lines) + 1
  PROVE  at[k] \in Nat
BY DEF Places

LEMMA AvailIsNat == TypeOK => Avail \in Nat
BY DEF TypeOK, Avail

\* Bytes on their way from the pipe to the buffer, or a buffer that grows,
\* do not disturb the stream.
LEMMA StreamKept ==
  ASSUME TypeOK, Stream, UNCHANGED <<lines, taken>>, Untouched
  PROVE  Stream'
<1> PICK at : Layout(at)
  BY DEF Stream
<1>1. Places(at)'
  BY DEF Layout, Places
<1>2. Layout(at)'
  BY <1>1 DEF Layout, Is, Byte, Untouched
<1> QED
  BY <1>2 DEF Stream

\* The next line is consumed, and the stream goes on behind it.
LEMMA StreamConsumed ==
  ASSUME TypeOK, Bounds, Stream, UNCHANGED lines,
         NEW f \in 1 .. Len(lines), NEW e \in Nat, Takes(f, e), ShortenedBy(e)
  PROVE  Stream'
<1> PICK at : Layout(at)
  BY DEF Stream
<1>1. Len(lines) \in Nat /\ Len(taken) \in Nat /\ Avail \in Nat /\ Avail' = Avail - e
  BY AvailIsNat DEF TypeOK, ShortenedBy
<1>2. Places(at) /\ Places(at)'
  BY DEF Layout, Places
<1>3. Len(taken) + 1 = f /\ Len(taken') + 1 = f + 1 /\ Size(lines[f]) = e
  BY <1>1 DEF Takes
<1> PICK top \in Nat : top = Len(lines) + 1
  BY <1>1
<1>4. /\ at \in [1 .. top -> Nat]
      /\ f \in 1 .. top /\ f + 1 \in 1 .. top
      /\ at[f + 1] = at[f] + e
      /\ Avail = at[top] - at[f]
  <2>1. at \in [1 .. top -> Nat] /\ Avail = at[top] - at[f]
    BY <1>3 DEF Layout, Places
  <2>2. f \in 1 .. top /\ f + 1 \in 1 .. top
    BY <1>1
  <2>3. at[f + 1] = at[f] + e
    BY <1>2, <1>3 DEF Places
  <2> QED
    BY <2>1, <2>2, <2>3
<1>5. Avail' = at[Len(lines') + 1] - at[Len(taken') + 1]
  <2>1. Avail' = at[top] - at[f + 1]
    BY <1>1, <1>4
  <2> QED
    BY <1>3, <2>1
<1>6. ASSUME NEW i \in 1 .. Avail'
      PROVE  \E k \in Len(taken') + 1 .. Len(lines') :
                 \E j \in 1 .. Size(lines'[k]) : Is(at, i, k, j)'
  <2>1. i \in Nat /\ i > 0 /\ i + e \in 1 .. Avail
    BY <1>1, <1>6
  <2>2. PICK k \in f .. Len(lines) : \E j \in 1 .. Size(lines[k]) : Is(at, i + e, k, j)
    BY <1>3, <2>1 DEF Layout
  <2>3. PICK j \in 1 .. Size(lines[k]) : Is(at, i + e, k, j)
    BY <2>2
  <2>4. k \in 1 .. Len(lines) /\ k \in 1 .. top /\ k >= f /\ k \in Nat
    BY <1>1, <2>2
  <2>5. j \in Nat /\ (k = f => j <= e)
    <3>1. Size(lines[k]) \in Nat
      BY <2>4, LineData
    <3> QED
      BY <1>3, <2>3, <3>1
  <2>6. i + e = at[k] - at[f] + j /\ At(i + e) = Byte(k, j)
    BY <1>3, <2>3 DEF Is
  <2>7. k # f
    <3>1. SUFFICES ASSUME k = f PROVE FALSE
      OBVIOUS
    <3>2. i + e = j
      BY <1>4, <2>1, <2>5, <2>6, <3>1
    <3> QED
      BY <2>1, <2>5, <3>1, <3>2
  <2>8. i = at[k] - at[f + 1] + j
    <3>1. at[k] \in Nat /\ at[f] \in Nat
      BY <1>4, <2>4
    <3>2. PICK x, y \in Nat : x = at[k] /\ y = at[f]
      BY <3>1
    <3>3. i + e = x - y + j /\ at[f + 1] = y + e
      BY <1>4, <2>6, <3>2
    <3>4. i = x - (y + e) + j
      BY <2>1, <2>5, <3>3
    <3> QED
      BY <3>2, <3>3, <3>4
  <2>9. At(i)' = Byte(k, j)'
    <3>1. At(i)' = At(i + e)
      BY <1>1, <1>6 DEF ShortenedBy
    <3> QED
      BY <2>6, <3>1 DEF Byte
  <2>10. k \in Len(taken') + 1 .. Len(lines')
    BY <1>1, <1>3, <2>4, <2>7
  <2>11. Is(at, i, k, j)'
    BY <1>3, <2>8, <2>9 DEF Is
  <2> QED
    BY <2>3, <2>10, <2>11
<1>7. Layout(at)'
  BY <1>2, <1>5, <1>6 DEF Layout
<1> QED
  BY <1>7 DEF Stream

Ascending(at, last) ==
    /\ at \in [1 .. last -> Nat]
    /\ \A k, l \in 1 .. last : k <= l => at[k] <= at[l]
Room(at, last, size) == Ascending(at, last) /\ last \in Nat /\ last > 0 /\ size \in Nat
Longer(to, at, last, size) ==
    /\ Ascending(to, last + 1)
    /\ to[last + 1] = at[last] + size
    /\ \A k \in 1 .. last : to[k] = at[k]

LEMMA OnePlaceMore ==
  ASSUME NEW at, NEW last, NEW size, Room(at, last, size)
  PROVE  \E to : Longer(to, at, last, size)
<1> DEFINE to == [k \in 1 .. last + 1 |-> IF k = last + 1 THEN at[last] + size ELSE at[k]]
<1>0. /\ at \in [1 .. last -> Nat] /\ last \in Nat /\ last > 0 /\ size \in Nat
      /\ \A k, l \in 1 .. last : k <= l => at[k] <= at[l]
  BY DEF Room, Ascending
<1>1. /\ to \in [1 .. last + 1 -> Nat]
      /\ to[last + 1] = at[last] + size
      /\ \A k \in 1 .. last : to[k] = at[k]
  BY <1>0
<1> HIDE DEF to
<1>2. ASSUME NEW k \in 1 .. last + 1, NEW l \in 1 .. last + 1, k <= l
      PROVE  to[k] <= to[l]
  <2>1. CASE l \in 1 .. last
    BY <1>0, <1>1, <1>2, <2>1
  <2>2. CASE l = last + 1 /\ k \in 1 .. last
    <3>1. at[k] <= at[last] /\ at[k] \in Nat /\ at[last] \in Nat
      BY <1>0, <2>2
    <3> QED
      BY <1>0, <1>1, <2>2, <3>1
  <2>3. CASE l = last + 1 /\ k = last + 1
    <3>1. to[k] \in Nat
      BY <1>1
    <3> QED
      BY <2>3, <3>1
  <2> QED
    BY <1>0, <1>2, <2>1, <2>2, <2>3
<1>3. Longer(to, at, last, size)
  BY <1>1, <1>2 DEF Longer, Ascending
<1> QED
  BY <1>3

\* A line is added at the end of it.
LEMMA StreamExtended ==
  ASSUME TypeOK, Bounds, Stream, UNCHANGED taken,
         NEW last \in Nat, last > 0, NEW line, Size(line) \in Nat,
         Adds(line, last), ExtendedBy(line, last)
  PROVE  Stream'
<1> PICK at : Layout(at)
  BY DEF Stream
<1> PICK size \in Nat : size = Size(line)
  OBVIOUS
<1>1. /\ Len(lines) \in Nat /\ Len(taken) \in Nat /\ Avail \in Nat /\ last = Len(lines) + 1
      /\ Len(taken) + 1 \in 1 .. last
  BY AvailIsNat DEF TypeOK, Bounds, Adds
<1>2. /\ Len(lines') = last /\ lines'[last] = line
      /\ \A k \in 1 .. Len(lines) : lines'[k] = lines[k]
  BY DEF TypeOK, Adds
<1>3. Ascending(at, last)
  BY <1>1 DEF Layout, Places, Ascending
<1>3a. /\ at \in [1 .. last -> Nat]
       /\ \A k \in 1 .. Len(lines) : at[k + 1] = at[k] + Size(lines[k])
  BY <1>1 DEF Layout, Places
<1>4a. Room(at, last, size)
  BY <1>3 DEF Room
<1> PICK to : Longer(to, at, last, size)
  BY <1>4a, OnePlaceMore
<1>4. /\ to \in [1 .. last + 1 -> Nat]
      /\ to[last + 1] = at[last] + size
      /\ \A k \in 1 .. last : to[k] = at[k]
      /\ \A k, l \in 1 .. last + 1 : k <= l => to[k] <= to[l]
  BY DEF Ascending, Longer
<1>5. ASSUME NEW k \in 1 .. last PROVE to[k + 1] = to[k] + Size(lines'[k])
  <2>1. CASE k = last
    <3>1. to[last] = at[last]
      BY <1>1, <1>4
    <3> QED
      BY <1>2, <1>4, <2>1, <3>1
  <2>2. CASE k # last
    <3>1. k \in 1 .. Len(lines) /\ k + 1 \in 1 .. last
      BY <1>1, <2>2
    <3>2. at[k + 1] = at[k] + Size(lines[k]) /\ lines'[k] = lines[k]
      BY <1>2, <1>3a, <3>1
    <3> QED
      BY <1>4, <1>5, <3>1, <3>2
  <2> QED
    BY <2>1, <2>2
<1>7. Places(to)'
  BY <1>2, <1>4, <1>5 DEF Places
<1>8. /\ Avail = at[last] - at[Len(taken) + 1]
      /\ at[Len(taken) + 1] \in Nat /\ at[last] \in Nat
      /\ to[last] = at[last] /\ to[Len(taken) + 1] = at[Len(taken) + 1]
  <2>1. last \in 1 .. last
    BY <1>1
  <2>2. Avail = at[last] - at[Len(taken) + 1]
    BY <1>1 DEF Layout
  <2> QED
    BY <1>1, <1>3a, <1>4, <2>1, <2>2
<1>9. Avail' = to[Len(lines') + 1] - to[Len(taken') + 1]
  BY <1>1, <1>2, <1>4, <1>8 DEF ExtendedBy
<1>10. ASSUME NEW i \in 1 .. Avail'
       PROVE  \E k \in Len(taken') + 1 .. Len(lines') :
                  \E j \in 1 .. Size(lines'[k]) : Is(to, i, k, j)'
  <2>1. CASE i <= Avail
    <3>0. i \in 1 .. Avail
      BY <1>1, <1>10, <2>1
    <3>1. PICK k \in Len(taken) + 1 .. Len(lines) :
                   \E j \in 1 .. Size(lines[k]) : Is(at, i, k, j)
      BY <3>0 DEF Layout
    <3>2. PICK j \in 1 .. Size(lines[k]) : Is(at, i, k, j)
      BY <3>1
    <3>3. k \in 1 .. Len(lines) /\ k \in 1 .. last /\ k \in Len(taken') + 1 .. Len(lines')
      BY <1>1, <1>2, <3>1
    <3>4. lines'[k] = lines[k]
      BY <1>2, <3>3
    <3>5. i = to[k] - to[Len(taken') + 1] + j
      BY <1>1, <1>4, <3>2, <3>3 DEF Is
    <3>6. At(i)' = Byte(k, j)'
      BY <3>0, <3>2, <3>4 DEF Is, Byte, ExtendedBy
    <3>7. Is(to, i, k, j)'
      BY <3>5, <3>6 DEF Is
    <3> QED
      BY <3>2, <3>3, <3>4, <3>7
  <2>2. CASE ~(i <= Avail)
    <3>0. i - Avail \in 1 .. Size(line) /\ i = Avail + (i - Avail)
      BY <1>1, <1>10, <2>2 DEF ExtendedBy
    <3>1. PICK j \in 1 .. Size(line) : i = Avail + j
      BY <3>0
    <3>2. At(i)' = Byte(last, j)'
      <4>1. i \in Avail + 1 .. Avail + Size(line) /\ i - Avail = j
        BY <1>1, <3>1
      <4>2. At(i)' = IF j <= line.len THEN last ELSE -last
        BY <4>1 DEF ExtendedBy
      <4> QED
        BY <1>2, <4>2 DEF Byte
    <3>3. i = to[last] - to[Len(taken') + 1] + j
      BY <1>1, <1>8, <3>1
    <3>4. last \in Len(taken') + 1 .. Len(lines')
      BY <1>1, <1>2
    <3>5. Is(to, i, last, j)'
      BY <3>2, <3>3 DEF Is
    <3> QED
      BY <1>2, <3>1, <3>4, <3>5
  <2> QED
    BY <2>1, <2>2
<1>11. Layout(to)'
  BY <1>7, <1>9, <1>10 DEF Layout
<1> QED
  BY <1>11 DEF Stream

-----------------------------------------------------------------------------
(* The buffer and the pipe *)

Joined(u, s, t, S) == u = s \o t /\ s \in Seq(S) /\ t \in Seq(S)

LEMMA ConcatIs ==
  ASSUME NEW S, NEW s, NEW t, NEW u, Joined(u, s, t, S)
  PROVE  /\ u \in Seq(S) /\ Len(u) = Len(s) + Len(t)
         /\ \A i \in 1 .. Len(s) : u[i] = s[i]
         /\ \A i \in Len(s) + 1 .. Len(s) + Len(t) : u[i] = t[i - Len(s)]
         /\ \A i \in 1 .. Len(t) : u[Len(s) + i] = t[i]
<1>0. u = s \o t /\ s \in Seq(S) /\ t \in Seq(S)
  BY DEF Joined
<1>1. Len(s) \in Nat /\ Len(t) \in Nat
  BY <1>0
<1>2. /\ u \in Seq(S) /\ Len(u) = Len(s) + Len(t)
      /\ \A i \in 1 .. Len(s) + Len(t) : u[i] = IF i <= Len(s) THEN s[i] ELSE t[i - Len(s)]
  BY <1>0, ConcatProperties
<1>3. \A i \in 1 .. Len(t) : u[Len(s) + i] = t[i]
  <2> TAKE i \in 1 .. Len(t)
  <2>1. Len(s) + i \in 1 .. Len(s) + Len(t) /\ ~(Len(s) + i <= Len(s)) /\ (Len(s) + i) - Len(s) = i
    BY <1>1
  <2> QED
    BY <1>2, <2>1
<1> QED
  BY <1>1, <1>2, <1>3

LEMMA Numbers ==
  ASSUME TypeOK
  PROVE  /\ Len(lines) \in Nat /\ Len(taken) \in Nat /\ Len(pipe) \in Nat /\ Len(buf) \in Nat
         /\ Len(answers) \in Nat /\ Len(decided) \in Nat
         /\ n \in 0 .. Len(buf) /\ Len(buf) \in StartLen .. Limit + 1
         /\ Avail \in Nat /\ 0 \in Bytes /\ Limit \in Nat /\ StartLen \in Nat
BY DEF TypeOK, Avail, Bytes

LEMMA GrowStep ==
  ASSUME TypeOK, Clean, Grow
  PROVE  /\ buf' \in Seq(Bytes) /\ Len(buf') \in StartLen .. Limit + 1
         /\ n' \in 0 .. Len(buf') /\ Clean'
         /\ Untouched
<1>1. /\ n <= Limit /\ n = Len(buf) /\ n' = n /\ pipe' = pipe
      /\ buf' = buf \o Zeros(Grown(Len(buf)) - Len(buf))
      /\ freed' = freed \cup (ToSet(Cleared(buf)) \ {0})
  BY DEF Grow
<1>2. PICK more \in Nat : more = Grown(Len(buf)) - Len(buf) /\ Len(buf) + more <= Limit + 1
  <2>1. /\ Grown(Len(buf)) \in Nat
        /\ Len(buf) <= Grown(Len(buf)) /\ Grown(Len(buf)) <= Limit + 1
    BY <1>1, Numbers DEF Grown, MinOf
  <2>2. /\ Grown(Len(buf)) - Len(buf) \in Nat
        /\ Len(buf) + (Grown(Len(buf)) - Len(buf)) <= Limit + 1
    BY <2>1, Numbers
  <2> QED
    BY <2>2
<1>2a. more \in Nat
  BY <1>2
<1>3. Zeros(more) \in Seq(Bytes) /\ Len(Zeros(more)) = more /\ \A i \in 1 .. more : Zeros(more)[i] = 0
  BY <1>2a, ZerosIsSeq, Numbers, SeqMonotonic
<1>4. /\ buf' \in Seq(Bytes) /\ Len(buf') = Len(buf) + more
      /\ \A i \in 1 .. Len(buf) : buf'[i] = buf[i]
      /\ \A i \in Len(buf) + 1 .. Len(buf) + more : buf'[i] = 0
  <2>1. Joined(buf', buf, Zeros(more), Bytes)
    BY <1>1, <1>2, <1>3 DEF TypeOK, Joined
  <2> QED
    BY <1>3, <2>1, ConcatIs
<1>5. ToSet(Cleared(buf)) \subseteq {0}
  BY ZerosIsSeq, Numbers, LenProperties DEF ToSet, Cleared
<1>6. Clean'
  BY <1>1, <1>2, <1>4, <1>5, Numbers DEF Clean
<1>7. \A i \in 1 .. Avail : At(i)' = At(i)
  BY <1>1, <1>4, Numbers DEF At
<1>8. Avail' = Avail
  BY <1>1 DEF Avail
<1> QED
  BY <1>1, <1>2, <1>4, <1>6, <1>7, <1>8, Numbers DEF Untouched

LEMMA ReadStep ==
  ASSUME TypeOK, Clean, NEW m, Read(m)
  PROVE  /\ buf' \in Seq(Bytes) /\ Len(buf') = Len(buf) /\ pipe' \in Seq(Bytes)
         /\ n' \in 0 .. Len(buf') /\ Clean'
         /\ Untouched
<1>1. /\ n < Len(buf) /\ n' = n + m /\ freed' = freed
      /\ m \in 1 .. MinOf(Len(buf) - n, Len(pipe))
      /\ buf' = [i \in DOMAIN buf |-> IF i \in n + 1 .. n + m THEN pipe[i - n] ELSE buf[i]]
      /\ pipe' = SubSeq(pipe, m + 1, Len(pipe))
  BY DEF Read
<1>2. m \in Nat /\ n + m <= Len(buf) /\ m <= Len(pipe)
  BY <1>1, Numbers DEF MinOf
<1>3. DOMAIN buf = 1 .. Len(buf) /\ \A i \in 1 .. Len(buf) : buf[i] \in Bytes
  BY ElementOfSeq, LenProperties DEF TypeOK
<1>4. \A i \in 1 .. Len(pipe) : pipe[i] \in Bytes
  BY ElementOfSeq DEF TypeOK
<1>5. \A i \in 1 .. Len(buf) : i \in n + 1 .. n + m => i - n \in 1 .. Len(pipe)
  BY <1>2, Numbers
<1>6. /\ buf' \in [1 .. Len(buf) -> Bytes]
      /\ \A i \in 1 .. Len(buf) : buf'[i] = IF i \in n + 1 .. n + m THEN pipe[i - n] ELSE buf[i]
  BY <1>1, <1>3, <1>4, <1>5
<1>7. buf' \in Seq(Bytes) /\ Len(buf') = Len(buf)
  BY <1>6, Numbers
<1>8. /\ pipe' \in Seq(Bytes) /\ Len(pipe') = Len(pipe) - m
      /\ \A i \in 1 .. Len(pipe) - m : pipe'[i] = pipe[i + m]
  <2>1. \A i \in m + 1 .. Len(pipe) : pipe[i] \in Bytes
    BY <1>2, <1>4, Numbers
  <2> QED
    BY <1>1, <1>2, <2>1, Numbers, SubSeqProperties
<1>9. Avail' = Avail
  BY <1>1, <1>2, <1>8, Numbers DEF Avail
<1>10. ASSUME NEW i \in 1 .. Avail PROVE At(i)' = At(i)
  <2>1. CASE i <= n
    BY <1>1, <1>2, <1>6, <1>10, <2>1, Numbers DEF At
  <2>2. CASE i \in n + 1 .. n + m
    BY <1>1, <1>2, <1>6, <1>10, <2>2, Numbers DEF At
  <2>3. CASE i > n + m
    <3>1. i - (n + m) \in 1 .. Len(pipe) - m /\ (i - (n + m)) + m = i - n
      BY <1>2, <1>10, <2>3, Numbers DEF Avail
    <3>2. At(i) = pipe[i - n] /\ At(i)' = pipe'[i - (n + m)]
      <4>1. ~(i <= n) /\ ~(i <= n')
        BY <1>1, <1>2, <1>10, <2>3, Numbers
      <4> QED
        BY <1>1, <4>1 DEF At
    <3> QED
      BY <1>8, <3>1, <3>2
  <2> QED
    BY <1>2, <1>10, <2>1, <2>2, <2>3, Numbers
<1>11. Clean'
  <2>1. ASSUME NEW i \in n + m + 1 .. Len(buf) PROVE buf'[i] = 0
    <3>1. i \in 1 .. Len(buf) /\ i \notin n + 1 .. n + m /\ i \in n + 1 .. Len(buf)
      BY <1>2, <2>1, Numbers
    <3>2. buf[i] = 0
      BY <3>1 DEF Clean
    <3> QED
      BY <1>6, <3>1, <3>2
  <2>2. n' + 1 = n + m + 1 /\ Len(buf') = Len(buf) /\ freed' = {}
    BY <1>1, <1>7 DEF Clean
  <2> QED
    BY <2>1, <2>2 DEF Clean
<1>12. n' \in 0 .. Len(buf')
  BY <1>1, <1>2, <1>7, Numbers
<1>13. Untouched
  BY <1>9, <1>10 DEF Untouched
<1> QED
  BY <1>7, <1>8, <1>11, <1>12, <1>13

\* Consume, for a line that ends at e.
Shifts(e) == buf' = SubSeq(buf, e + 1, n) \o Zeros(Len(buf) - (n - e)) /\ n' = n - e

LEMMA ConsumeStep ==
  ASSUME TypeOK, Clean, UNCHANGED <<pipe, freed>>, NEW e \in Nat, e <= n, Shifts(e)
  PROVE  /\ buf' \in Seq(Bytes) /\ Len(buf') = Len(buf)
         /\ n' \in 0 .. Len(buf') /\ Clean'
         /\ ShortenedBy(e)
<1>1. /\ buf' = SubSeq(buf, e + 1, n) \o Zeros(Len(buf) - (n - e))
      /\ n' = n - e
  BY DEF Shifts
<1>2. \A i \in 1 .. Len(buf) : buf[i] \in Bytes
  BY ElementOfSeq DEF TypeOK
<1>3. /\ SubSeq(buf, e + 1, n) \in Seq(Bytes) /\ Len(SubSeq(buf, e + 1, n)) = n - e
      /\ \A i \in 1 .. n - e : SubSeq(buf, e + 1, n)[i] = buf[i + e]
  <2>1. \A i \in e + 1 .. n : buf[i] \in Bytes
    BY <1>2, Numbers
  <2> QED
    BY <2>1, Numbers, SubSeqProperties
<1>4. PICK more \in Nat : more = Len(buf) - (n - e)
  BY Numbers
<1>4a. more \in Nat
  BY <1>4
<1>5. Zeros(more) \in Seq(Bytes) /\ Len(Zeros(more)) = more /\ \A i \in 1 .. more : Zeros(more)[i] = 0
  BY ZerosIsSeq, Numbers, SeqMonotonic
<1>6. /\ buf' \in Seq(Bytes) /\ Len(buf') = Len(buf)
      /\ \A i \in 1 .. n - e : buf'[i] = buf[i + e]
      /\ \A i \in n - e + 1 .. Len(buf) : buf'[i] = 0
  <2>1. \E s, t : /\ Joined(buf', s, t, Bytes) /\ Len(s) = n - e /\ Len(t) = more
                  /\ \A i \in 1 .. n - e : s[i] = buf[i + e]
                  /\ \A i \in 1 .. more : t[i] = 0
    <3>1. Joined(buf', SubSeq(buf, e + 1, n), Zeros(more), Bytes)
      BY <1>1, <1>3, <1>4, <1>5 DEF Joined
    <3> QED
      BY <1>3, <1>5, <3>1
  <2>2. PICK s, t : /\ Joined(buf', s, t, Bytes) /\ Len(s) = n - e /\ Len(t) = more
                    /\ \A i \in 1 .. n - e : s[i] = buf[i + e]
                    /\ \A i \in 1 .. more : t[i] = 0
    BY <2>1
  <2>2a. Joined(buf', s, t, Bytes)
    BY <2>2
  <2>3. /\ buf' \in Seq(Bytes) /\ Len(buf') = Len(s) + Len(t)
        /\ \A i \in 1 .. Len(s) : buf'[i] = s[i]
        /\ \A i \in Len(s) + 1 .. Len(s) + Len(t) : buf'[i] = t[i - Len(s)]
    BY <2>2a, ConcatIs
  <2>4. \A i \in n - e + 1 .. Len(buf) : i - (n - e) \in 1 .. more
    BY <1>4, Numbers
  <2>5. (n - e) + more = Len(buf)
    BY <1>4, Numbers
  <2> QED
    BY <1>5, <2>2, <2>3, <2>4, <2>5, SMTT(30)
<1>7. Clean'
  BY <1>1, <1>6, Numbers DEF Clean
<1>8. Avail' = Avail - e
  BY <1>1, Numbers DEF Avail
<1>9. ASSUME NEW i \in 1 .. Avail - e PROVE At(i)' = At(i + e)
  <2>1. i \in Nat /\ i > 0 /\ n' = n - e
    BY <1>1, <1>9, Numbers
  <2>2. CASE i <= n - e
    <3>1. i \in 1 .. n - e /\ i + e <= n /\ i <= n'
      BY <2>1, <2>2, Numbers
    <3> QED
      BY <1>6, <3>1 DEF At
  <2>3. CASE ~(i <= n - e)
    <3>1. ~(i + e <= n) /\ ~(i <= n') /\ i - (n - e) = (i + e) - n
      BY <2>1, <2>3, Numbers
    <3> QED
      BY <2>1, <3>1 DEF At
  <2> QED
    BY <2>2, <2>3
<1>10. n' \in 0 .. Len(buf')
  <2>1. n' = n - e /\ Len(buf') = Len(buf)
    BY <1>1, <1>6
  <2> QED
    BY <2>1, Numbers
<1> QED
  BY <1>6, <1>7, <1>8, <1>9, <1>10 DEF ShortenedBy

-----------------------------------------------------------------------------
(* Initial states *)

LEMMA InitIInv == Init => IInv
<1> SUFFICES ASSUME Init PROVE IInv
  OBVIOUS
<1>0. buf = Zeros(StartLen)
  BY DEF Init
<1>1. /\ lines = <<>> /\ pipe = <<>> /\ hungUp = FALSE /\ n = 0
      /\ freed = {} /\ taken = <<>> /\ copies = {} /\ decided = <<>> /\ answers = <<>>
      /\ pc = "read" /\ StartLen \in Nat /\ Limit \in Nat
  BY DEF Init
<1>2. buf \in Seq(Bytes) /\ Len(buf) = StartLen /\ \A i \in 1 .. Len(buf) : buf[i] = 0
  <2>1. 0 \in Bytes
    BY DEF Bytes
  <2> QED
    BY <1>0, <1>1, <2>1, ZerosIsSeq, SeqMonotonic
<1>3. TypeOK
  <2>1. Len(buf) \in StartLen .. Limit + 1
    <3>1. StartLen \in Int /\ Limit \in Int /\ StartLen <= Limit
      OBVIOUS
    <3> QED
      BY <1>2, <3>1
  <2>2. /\ lines \in Seq([len: Lengths, kind: Kinds, whole: BOOLEAN]) /\ pipe \in Seq(Bytes)
        /\ taken \in Seq(Seq(Bytes)) /\ decided \in Seq(1 .. MaxLines)
        /\ answers \in Seq([id: Ids, code: {"decided", "PROTOCOL"}])
    BY <1>1, EmptySeq
  <2>3. /\ hungUp \in BOOLEAN /\ freed \subseteq Bytes /\ copies \subseteq 1 .. MaxLines
        /\ pc \in {"read", "dispatch", "answer", "refuse", "closed"}
    BY <1>1
  <2>4. n \in 0 .. Len(buf)
    <3>1. Len(buf) \in Nat
      BY <1>2
    <3> QED
      BY <1>1, <3>1
  <2> QED
    BY <1>2, <2>1, <2>2, <2>3, <2>4 DEF TypeOK
<1>4. Stream
  <2>1. Places([k \in 1 .. 1 |-> 0]) /\ Avail = 0
    BY <1>1 DEF Places, Avail
  <2>2. Layout([k \in 1 .. 1 |-> 0])
    BY <1>1, <2>1 DEF Layout
  <2> QED
    BY <2>2 DEF Stream
<1>5. Clean
  BY <1>1, <1>2 DEF Clean
<1>6. Handled
  BY <1>1 DEF Handled, Bounds, Lines, Taken, Refused, Counted, Copies, AnswersDue, DecidedInTurn,
     ToSet
<1> QED
  BY <1>3, <1>4, <1>5, <1>6 DEF IInv

-----------------------------------------------------------------------------
(* The peer's steps *)

\* What a line has to be answered stays what it is.
LEMMA ResponseKept ==
  ASSUME NEW k, lines'[k] = lines[k], NEW frame, frame # <<>> => frame[1] = k
  PROVE  Response(frame)' = Response(frame)
<1>1. LineOf(frame)' = LineOf(frame) /\ (LineOf(frame) # 0 => LineOf(frame) = k)
  BY DEF LineOf
<1>2. KindOf(frame)' = KindOf(frame)
  BY <1>1 DEF KindOf
<1> QED
  BY <1>1, <1>2 DEF Response

LEMMA DueKept ==
  ASSUME TypeOK, NEW k \in 1 .. Len(lines), lines'[k] = lines[k]
  PROVE  Due(k)' = Due(k) /\ Fits(k)' = Fits(k)
<1>1. PICK len \in Nat : len = lines[k].len
  BY LineData
<1>2. Content(k, len) # <<>> => Content(k, len)[1] = k
  <2>1. /\ Len(Content(k, len)) = len /\ Content(k, len) \in Seq({k})
        /\ \A i \in 1 .. len : Content(k, len)[i] = k
    BY ContentIsSeq
  <2>2. Content(k, len) # <<>> => len > 0
    BY <2>1, EmptySeq
  <2> QED
    BY <2>1, <2>2
<1>3. Response(Content(k, len))' = Response(Content(k, len))
  BY <1>2, ResponseKept DEF Content
<1>4. Fits(k)' = Fits(k)
  BY DEF Fits
<1>5. Due(k) = IF Fits(k) THEN Response(Content(k, len)) ELSE [id |-> 0, code |-> "PROTOCOL"]
  BY <1>1 DEF Due
<1>6. Due(k)' = IF Fits(k)' THEN Response(Content(k, len))' ELSE [id |-> 0, code |-> "PROTOCOL"]
  BY <1>1 DEF Due
<1> QED
  BY <1>3, <1>4, <1>5, <1>6

\* What is written comes to stand at the end of the stream.
LEMMA PipeExtended ==
  ASSUME TypeOK, NEW bytes, Joined(pipe', pipe, bytes, Bytes), UNCHANGED <<buf, n>>
  PROVE  /\ Avail' = Avail + Len(bytes) /\ Len(bytes) \in Nat
         /\ \A i \in 1 .. Avail : At(i)' = At(i)
         /\ \A i \in Avail + 1 .. Avail + Len(bytes) :
                At(i)' = bytes[i - Avail] /\ i - Avail \in 1 .. Len(bytes)
<1>1. bytes \in Seq(Bytes)
  BY DEF Joined
<1>2. Len(bytes) \in Nat
  BY <1>1
<1>3. /\ Len(pipe') = Len(pipe) + Len(bytes)
      /\ \A i \in 1 .. Len(pipe) : pipe'[i] = pipe[i]
      /\ \A i \in Len(pipe) + 1 .. Len(pipe) + Len(bytes) : pipe'[i] = bytes[i - Len(pipe)]
  BY ConcatIs
<1>4. Avail' = Avail + Len(bytes)
  BY <1>2, <1>3, Numbers DEF Avail
<1>5. ASSUME NEW i \in 1 .. Avail PROVE At(i)' = At(i)
  <2>1. ~(i <= n) => i - n \in 1 .. Len(pipe)
    BY <1>5, Numbers DEF Avail
  <2> QED
    BY <1>3, <2>1 DEF At
<1>6. ASSUME NEW i \in Avail + 1 .. Avail + Len(bytes)
      PROVE  At(i)' = bytes[i - Avail] /\ i - Avail \in 1 .. Len(bytes)
  <2>1. /\ ~(i <= n) /\ i - n \in Len(pipe) + 1 .. Len(pipe) + Len(bytes)
        /\ (i - n) - Len(pipe) = i - Avail /\ i - Avail \in 1 .. Len(bytes)
    <3>1. /\ n \in Nat /\ Len(pipe) \in Nat /\ Len(bytes) \in Nat
          /\ i \in n + Len(pipe) + 1 .. n + Len(pipe) + Len(bytes)
      BY <1>2, <1>6, Numbers DEF Avail
    <3>2. i \in Nat /\ i > n + Len(pipe) /\ i <= n + Len(pipe) + Len(bytes)
      BY <3>1
    <3> QED
      BY <3>1, <3>2 DEF Avail
  <2>2. At(i)' = pipe'[i - n]
    BY <2>1 DEF At
  <2> QED
    BY <1>3, <2>1, <2>2
<1> QED
  BY <1>2, <1>4, <1>5, <1>6

\* The peer writes a line, or a part of one.
Writes(line, bytes, last) ==
    /\ last = Len(lines) + 1 /\ last <= MaxLines
    /\ line \in [len: Lengths, kind: Kinds, whole: BOOLEAN]
    /\ line.kind # "not_json" => line.len > 0
    /\ ~line.whole => hungUp' /\ line.len > 0
    /\ bytes \in Seq(Bytes) /\ Len(bytes) = Size(line)
    /\ \A j \in 1 .. Size(line) : bytes[j] = IF j <= line.len THEN last ELSE -last
    /\ lines' = Append(lines, line)
    /\ pipe' = pipe \o bytes
    /\ ~hungUp /\ hungUp' \in BOOLEAN

LEMMA LineAdded ==
  ASSUME IInv, NEW line, NEW bytes, NEW last, Writes(line, bytes, last),
         UNCHANGED <<reader, handler, pc>>
  PROVE  IInv'
<1> USE DEF reader, handler
<1>0. TypeOK /\ Stream /\ Clean /\ Handled /\ Bounds
  BY DEF IInv, Handled
<1>w. /\ last = Len(lines) + 1 /\ last <= MaxLines
      /\ line \in [len: Lengths, kind: Kinds, whole: BOOLEAN]
      /\ line.kind # "not_json" => line.len > 0
      /\ ~line.whole => hungUp' /\ line.len > 0
      /\ bytes \in Seq(Bytes) /\ Len(bytes) = Size(line)
      /\ \A j \in 1 .. Size(line) : bytes[j] = IF j <= line.len THEN last ELSE -last
      /\ lines' = Append(lines, line)
      /\ pipe' = pipe \o bytes
      /\ ~hungUp /\ hungUp' \in BOOLEAN
  BY DEF Writes
<1>1. TypeOK'
  BY <1>0, <1>w, ConcatProperties DEF TypeOK
<1>2. /\ Len(lines') = last /\ lines'[last] = line
      /\ \A k \in 1 .. Len(lines) : lines'[k] = lines[k]
      /\ Size(line) \in Nat
  BY <1>0, <1>w DEF TypeOK
<1>2a. Len(lines') = Len(lines) + 1
  BY <1>0, <1>w DEF TypeOK
<1>2b. Len(lines) < Len(lines') /\ Len(lines) \in Nat /\ Len(lines') \in Nat /\ Len(taken) \in Nat
  BY <1>0, <1>2a, Numbers
<1>2c. \A k \in 1 .. Len(lines) : lines'[k] = lines[k]
  BY <1>2
<1>3. Clean'
  BY <1>0 DEF Clean
<1>4. Stream'
  <2>1. Joined(pipe', pipe, bytes, Bytes)
    BY <1>0, <1>w DEF TypeOK, Joined
  <2>2. /\ Avail' = Avail + Len(bytes) /\ Avail \in Nat /\ Len(bytes) \in Nat
        /\ \A i \in 1 .. Avail : At(i)' = At(i)
        /\ \A i \in Avail + 1 .. Avail + Len(bytes) :
               At(i)' = bytes[i - Avail] /\ i - Avail \in 1 .. Len(bytes)
    BY <1>0, <2>1, PipeExtended, AvailIsNat
  <2>3. ExtendedBy(line, last)
    BY <1>w, <2>2 DEF ExtendedBy
  <2>4. Adds(line, last) /\ last \in Nat /\ last > 0
    BY <1>0, <1>w, Numbers DEF Adds
  <2> QED
    BY <1>0, <1>2, <2>3, <2>4, StreamExtended
<1>5. Bounds' /\ Lines'
  <2>1. \A k \in 1 .. Len(lines) : lines[k].whole /\ (lines[k].kind # "not_json" => lines[k].len > 0)
    BY <1>0, <1>w DEF Handled, Lines
  <2>2. Lines'
    BY <1>0, <1>w, <1>2, <2>1, Numbers DEF Lines
  <2> QED
    BY <1>0, <1>w, <1>2, <2>2, Numbers DEF Bounds
<1>6. /\ Len(taken) <= Len(lines) /\ Len(answers) <= Len(lines)
      /\ DOMAIN taken = 1 .. Len(taken) /\ DOMAIN answers = 1 .. Len(answers)
      /\ \A k \in 1 .. Len(lines) : Due(k)' = Due(k) /\ Fits(k)' = Fits(k)
  BY <1>0, <1>2, DueKept, LenProperties DEF TypeOK, Handled, Bounds, Counted
<1>6a. \A k \in 1 .. Len(taken) : k \in 1 .. Len(lines) /\ lines'[k] = lines[k]
  BY <1>0, <1>2, <1>6, Numbers
<1>7. Taken' /\ Refused'
  <2>1. Taken'
    BY <1>0, <1>6, <1>6a DEF Handled, Taken
  <2>2. Refused'
    <3>1. SUFFICES ASSUME pc = "refuse" PROVE Len(taken) < Len(lines') /\ ~Fits(Len(taken) + 1)'
      BY DEF Refused
    <3>2. Len(taken) < Len(lines) /\ ~Fits(Len(taken) + 1)
      BY <1>0, <3>1 DEF Handled, Refused
    <3>3. Len(taken) + 1 \in 1 .. Len(lines) /\ Len(taken) < Len(lines')
      BY <1>2b, <3>2
    <3>4. lines'[Len(taken) + 1] = lines[Len(taken) + 1]
      BY <1>2c, <3>3
    <3> QED
      BY <3>2, <3>3, <3>4 DEF Fits
  <2> QED
    BY <2>1, <2>2
<1>8. Counted'
  <2>1. pc = "dispatch" => Len(taken) \in 1 .. Len(lines)
    BY <1>0, <1>6, Numbers DEF Handled, Counted
  <2>2. Len(answers) <= Len(lines')
    <3>1. Len(answers) <= Len(lines) /\ Len(answers) \in Nat
      BY <1>0, <1>6, Numbers
    <3> QED
      BY <1>2b, <3>1
  <2>3. pc = "dispatch" => lines'[Len(taken)].kind = "request"
    BY <1>0, <1>2, <2>1 DEF Handled, Counted
  <2> QED
    BY <1>0, <2>2, <2>3 DEF Handled, Counted
<1>9. AnswersDue'
  BY <1>0, <1>2, <1>6, Numbers DEF Handled, AnswersDue
<1>10. DecidedInTurn'
  <2>1. \A j \in DOMAIN taken : lines'[j] = lines[j]
    BY <1>6, <1>6a
  <2>2. DecidedInTurn /\ UNCHANGED <<taken, decided, pc>>
    BY <1>0 DEF Handled
  <2> QED
    BY <2>1, <2>2 DEF DecidedInTurn
<1>11. Copies'
  BY <1>0 DEF Handled, Copies
<1> QED
  BY <1>1, <1>3, <1>4, <1>5, <1>7, <1>8, <1>9, <1>10, <1>11 DEF IInv, Handled

LEMMA PeerStep ==
  ASSUME IInv, Peer
  PROVE  IInv'
<1>0. TypeOK
  BY DEF IInv
<1> DEFINE last == Len(lines) + 1
<1>1. ASSUME NEW len \in Lengths, NEW kind \in Kinds, PeerWrites(len, kind)
      PROVE  IInv'
  <2> DEFINE line == [len |-> len, kind |-> kind, whole |-> TRUE]
             bytes == Append(Content(last, len), -last)
  <2>1. /\ ~hungUp /\ hungUp' = hungUp /\ last <= MaxLines
        /\ lines' = Append(lines, line) /\ pipe' = pipe \o bytes
        /\ kind # "not_json" => len # 0
        /\ UNCHANGED <<reader, handler, pc>>
    BY <1>1 DEF PeerWrites
  <2>2. last \in Bytes /\ -last \in Bytes
    BY <1>0, <2>1, Numbers DEF Bytes
  <2>3. /\ bytes \in Seq(Bytes) /\ Len(bytes) = len + 1
        /\ \A j \in 1 .. len + 1 : bytes[j] = IF j <= len THEN last ELSE -last
    <3>1. len \in Nat /\ {last} \subseteq Bytes
      BY <2>2
    <3>2. /\ Content(last, len) \in Seq(Bytes) /\ Len(Content(last, len)) = len
          /\ \A j \in 1 .. len : Content(last, len)[j] = last
      BY <2>2, <3>1, ContentIsBytes
    <3> QED
      BY <2>2, <3>1, <3>2, AppendProperties
  <2>4. Size(line) = len + 1 /\ line.len = len /\ line.kind = kind /\ line.whole /\ len \in Nat
    BY DEF Size
  <2>5. line \in [len: Lengths, kind: Kinds, whole: BOOLEAN] /\ hungUp' \in BOOLEAN
    BY <1>0, <2>1 DEF TypeOK
  <2>6. Writes(line, bytes, last)
    <3>1. /\ last = Len(lines) + 1 /\ last <= MaxLines /\ ~hungUp
          /\ (line.kind # "not_json" => line.len > 0)
          /\ (~line.whole => hungUp' /\ line.len > 0)
      BY <2>1, <2>4
    <3>2. /\ Len(bytes) = Size(line)
          /\ \A j \in 1 .. Size(line) : bytes[j] = IF j <= line.len THEN last ELSE -last
      BY <2>3, <2>4
    <3> HIDE DEF line, bytes, last
    <3> QED
      BY <2>1, <2>3, <2>5, <3>1, <3>2 DEF Writes
  <2> HIDE DEF last, line, bytes
  <2> QED
    BY <2>1, <2>6, LineAdded
<1>2. ASSUME HangUp PROVE IInv'
  <2>1. /\ ~hungUp /\ hungUp' = TRUE
        /\ UNCHANGED <<lines, pipe, buf, n, freed, taken, copies, decided, answers, pc>>
    BY <1>2 DEF HangUp, reader, handler
  <2>2. TypeOK'
    BY <1>0, <2>1 DEF TypeOK
  <2>3. Stream'
    BY <1>0, <2>1, StreamKept DEF IInv, Untouched, Avail, At
  <2>4. Clean'
    BY <2>1 DEF IInv, Clean
  <2>5. Bounds' /\ Lines' /\ Refused' /\ Counted' /\ Copies'
    BY <2>1 DEF IInv, Handled, Bounds, Lines, Refused, Counted, Copies, Fits
  <2>6. Taken' /\ AnswersDue' /\ DecidedInTurn'
    BY <2>1 DEF IInv, Handled, Taken, AnswersDue, DecidedInTurn, Due, Fits, Response, KindOf, LineOf
  <2> QED
    BY <2>2, <2>3, <2>4, <2>5, <2>6 DEF IInv, Handled
<1>3. ASSUME NEW len \in Lengths, HangUpInLine(len)
      PROVE  IInv'
  <2> DEFINE line == [len |-> len, kind |-> "request", whole |-> FALSE]
             bytes == Content(last, len)
  <2>1. /\ ~hungUp /\ hungUp' = TRUE /\ last <= MaxLines /\ len > 0
        /\ lines' = Append(lines, line) /\ pipe' = pipe \o bytes
        /\ UNCHANGED <<reader, handler, pc>>
    BY <1>3 DEF HangUpInLine
  <2>2. last \in Bytes
    BY <1>0, <2>1, Numbers DEF Bytes
  <2>3. /\ bytes \in Seq(Bytes) /\ Len(bytes) = len
        /\ \A j \in 1 .. len : bytes[j] = IF j <= len THEN last ELSE -last
    <3>1. len \in Nat
      OBVIOUS
    <3>2. /\ bytes \in Seq(Bytes) /\ Len(bytes) = len
          /\ \A j \in 1 .. len : bytes[j] = last
      BY <2>2, <3>1, ContentIsBytes
    <3> QED
      BY <3>2
  <2>4. Size(line) = len /\ line.len = len /\ ~line.whole
    BY DEF Size
  <2>5. line \in [len: Lengths, kind: Kinds, whole: BOOLEAN] /\ hungUp' \in BOOLEAN
    BY <2>1 DEF Kinds
  <2>6. Writes(line, bytes, last)
    <3>1. /\ last = Len(lines) + 1 /\ last <= MaxLines /\ ~hungUp
          /\ (line.kind # "not_json" => line.len > 0)
          /\ (~line.whole => hungUp' /\ line.len > 0)
      BY <2>1, <2>4
    <3>2. /\ Len(bytes) = Size(line)
          /\ \A j \in 1 .. Size(line) : bytes[j] = IF j <= line.len THEN last ELSE -last
      BY <2>3, <2>4
    <3> HIDE DEF line, bytes, last
    <3> QED
      BY <2>1, <2>3, <2>5, <3>1, <3>2 DEF Writes
  <2> HIDE DEF last, line, bytes
  <2> QED
    BY <2>1, <2>6, LineAdded
<1> QED
  BY <1>1, <1>2, <1>3 DEF Peer
-----------------------------------------------------------------------------
(* The handler's steps *)

LEMMA HandledKept ==
  ASSUME Handled, UNCHANGED <<lines, hungUp, handler, pc>>
  PROVE  Handled'
BY DEF handler, Handled, Bounds, Lines, Taken, Refused, Counted, Copies, AnswersDue, DecidedInTurn,
   Due, Fits, Response, KindOf, LineOf

LEMMA StreamStays ==
  ASSUME TypeOK, Stream, UNCHANGED <<lines, taken, pipe, reader>>
  PROVE  Stream'
<1>1. Untouched
  BY DEF reader, Untouched, Avail, At
<1> QED
  BY <1>1, StreamKept

LEMMA GrowKeeps ==
  ASSUME IInv, Grow
  PROVE  IInv'
<1>0. TypeOK /\ Stream /\ Clean /\ Handled
  BY DEF IInv
<1>1. /\ buf' \in Seq(Bytes) /\ Len(buf') \in StartLen .. Limit + 1
      /\ n' \in 0 .. Len(buf') /\ Clean' /\ Untouched
  BY <1>0, GrowStep
<1>2. UNCHANGED <<lines, pipe, hungUp, handler, pc>> /\ UNCHANGED <<taken, copies, decided, answers>>
  BY DEF Grow, handler
<1>3. Stream'
  BY <1>0, <1>1, <1>2, StreamKept
<1>4. TypeOK'
  BY <1>0, <1>1, <1>2 DEF TypeOK, Clean
<1> QED
  BY <1>0, <1>1, <1>2, <1>3, <1>4, HandledKept DEF IInv

LEMMA ReadKeeps ==
  ASSUME IInv, NEW m, Read(m)
  PROVE  IInv'
<1>0. TypeOK /\ Stream /\ Clean /\ Handled
  BY DEF IInv
<1>1. /\ buf' \in Seq(Bytes) /\ Len(buf') = Len(buf) /\ pipe' \in Seq(Bytes)
      /\ n' \in 0 .. Len(buf') /\ Clean' /\ Untouched
  BY <1>0, ReadStep
<1>2. UNCHANGED <<lines, hungUp, handler, pc>> /\ UNCHANGED <<freed, taken, copies, decided, answers>>
  BY DEF Read, handler
<1>3. Stream'
  BY <1>0, <1>1, <1>2, StreamKept
<1>4. TypeOK'
  BY <1>0, <1>1, <1>2 DEF TypeOK
<1> QED
  BY <1>0, <1>1, <1>2, <1>3, <1>4, HandledKept DEF IInv

\* The handler returns, other than in the middle of a dispatch.
LEMMA ClosingKeeps ==
  ASSUME IInv, pc # "dispatch", pc' = "closed", UNCHANGED <<lines, pipe, hungUp, reader, handler>>
  PROVE  IInv'
<1> USE DEF reader, handler
<1>0. TypeOK /\ Stream /\ Clean /\ Handled
  BY DEF IInv
<1>1. TypeOK'
  BY <1>0 DEF TypeOK
<1>2. Stream' /\ Clean'
  BY <1>0, StreamStays DEF Clean
<1>3. Handled'
  BY <1>0 DEF Handled, Bounds, Lines, Taken, Refused, Counted, Copies, AnswersDue, DecidedInTurn,
     Due, Fits, Response, KindOf, LineOf
<1> QED
  BY <1>1, <1>2, <1>3 DEF IInv

LEMMA LineTooLongKeeps ==
  ASSUME IInv, LineTooLong
  PROVE  IInv'
<1> USE DEF reader, handler
<1>0. TypeOK /\ Stream /\ Clean /\ Handled /\ Bounds /\ Lines
  BY DEF IInv, Handled
<1>1. /\ pc = "read" /\ pc' = "refuse" /\ Newlines = {} /\ n > Limit
      /\ UNCHANGED <<lines, pipe, hungUp, reader, handler>>
  BY DEF LineTooLong
<1>2. TypeOK'
  BY <1>0, <1>1 DEF TypeOK
<1>3. Stream' /\ Clean'
  BY <1>0, <1>1, StreamStays DEF Clean
<1>4. Len(taken) < Len(lines) /\ ~Fits(Len(taken) + 1)
  BY <1>0, <1>1, TooLong, Numbers
<1>5. Refused'
  BY <1>1, <1>4 DEF Refused, Fits
<1>6. (Bounds /\ Lines /\ Taken /\ Counted /\ Copies /\ AnswersDue /\ DecidedInTurn)'
  BY <1>0, <1>1 DEF Handled, Bounds, Lines, Taken, Counted, Copies, AnswersDue, DecidedInTurn,
     Due, Fits, Response, KindOf, LineOf
<1> QED
  BY <1>2, <1>3, <1>5, <1>6 DEF IInv, Handled

\* The next line, the f-th, is in the buffer and ends at e.
Framed(f, e) ==
    /\ f = Len(taken) + 1 /\ f \in 1 .. Len(lines)
    /\ lines[f].whole /\ Fits(f)
    /\ e = End /\ e = lines[f].len + 1 /\ e <= n /\ e \in Nat /\ e = Size(lines[f])
    /\ Line = Content(f, lines[f].len)

LEMMA AFrame ==
  ASSUME TypeOK, Bounds, Lines, Stream, Newlines # {}
  PROVE  \E f, e : Framed(f, e)
<1> DEFINE f == Len(taken) + 1
<1>1. /\ f \in 1 .. Len(lines)
      /\ lines[f].whole /\ Fits(f)
      /\ End = lines[f].len + 1 /\ End <= n
      /\ Line = Content(f, lines[f].len)
  BY Frame
<1>2. End \in Nat /\ End = Size(lines[f])
  BY <1>1, LineData
<1>3. Framed(f, End)
  BY <1>1, <1>2 DEF Framed
<1> QED
  BY <1>3

\* What the handler makes of the line it has just read.
Reads(f) ==
    /\ taken' = Append(taken, Content(f, lines[f].len))
    /\ copies' = copies \cup IF lines[f].kind = "not_json" THEN {} ELSE {f}
    /\ pc' = IF lines[f].kind = "request" THEN "dispatch" ELSE "answer"
    /\ pc = "read"
    /\ UNCHANGED <<lines, hungUp, decided, answers>>

LEMMA HandledByReading ==
  ASSUME TypeOK, Handled, NEW f, NEW e, Framed(f, e), Reads(f)
  PROVE  Handled'
<1>0. Bounds /\ Lines /\ Taken /\ Refused /\ Counted /\ Copies /\ AnswersDue /\ DecidedInTurn
  BY DEF Handled
<1>1. /\ taken' = Append(taken, Content(f, lines[f].len))
      /\ copies' = copies \cup IF lines[f].kind = "not_json" THEN {} ELSE {f}
      /\ pc' = IF lines[f].kind = "request" THEN "dispatch" ELSE "answer"
      /\ pc = "read" /\ UNCHANGED <<lines, hungUp, decided, answers>>
  BY DEF Reads
<1>2. f \in 1 .. Len(lines) /\ f \in Nat /\ lines[f].whole /\ Fits(f)
  BY Numbers DEF Framed
<1>3. /\ Len(taken') = f /\ taken'[f] = Content(f, lines[f].len)
      /\ \A k \in 1 .. Len(taken) : taken'[k] = taken[k]
      /\ DOMAIN taken = 1 .. Len(taken) /\ DOMAIN taken' = 1 .. f
  BY <1>1 DEF TypeOK, Framed
<1>4. /\ \A k : k \in 1 .. f <=> k \in 1 .. Len(taken) \/ k = f
      /\ f \notin 1 .. Len(taken) /\ Len(taken) = f - 1
      /\ \A k \in 1 .. Len(taken) : k < f
  BY Numbers DEF Framed
<1>5. (Bounds /\ Lines /\ Refused /\ AnswersDue)'
  <2>1. Bounds'
    BY <1>0, <1>1, <1>2, <1>3 DEF Bounds
  <2>2. (Lines /\ Refused /\ AnswersDue)'
    BY <1>0, <1>1 DEF Lines, Refused, AnswersDue, Due, Fits, Response, KindOf, LineOf
  <2> QED
    BY <2>1, <2>2
<1>6. Taken'
  <2>1. SUFFICES ASSUME NEW k \in 1 .. f
                 PROVE  taken'[k] = Content(k, lines[k].len) /\ lines[k].whole /\ Fits(k)
    BY <1>1, <1>3 DEF Taken, Fits
  <2> QED
    BY <1>0, <1>2, <1>3, <1>4, <2>1 DEF Taken
<1>7. Counted'
  BY <1>0, <1>1, <1>3, <1>4 DEF Counted
<1>8. ToSet(decided) \subseteq 1 .. Len(taken)
  BY <1>0, <1>3 DEF DecidedInTurn
<1>9. Copies'
  <2>1. copies' \subseteq 1 .. f
    BY <1>0, <1>1, <1>4 DEF Copies
  <2>2. copies' \cap ToSet(decided) = {}
    BY <1>0, <1>1, <1>4, <1>8 DEF Copies
  <2> QED
    BY <1>1, <1>3, <2>1, <2>2 DEF Copies
<1>10. DecidedInTurn'
  <2>1. ToSet(decided) = {j \in 1 .. Len(taken) : lines[j].kind = "request"}
    BY <1>0, <1>1, <1>3 DEF DecidedInTurn
  <2>2. ToSet(decided) = {j \in 1 .. f : /\ lines[j].kind = "request"
                                         /\ pc' = "dispatch" => j < f}
    BY <1>1, <1>2, <1>4, <2>1
  <2> QED
    BY <1>0, <1>1, <1>3, <2>2 DEF DecidedInTurn
<1> QED
  BY <1>5, <1>6, <1>7, <1>9, <1>10 DEF Handled

LEMMA ReadRequestKeeps ==
  ASSUME IInv, ReadRequest
  PROVE  IInv'
<1>0. TypeOK /\ Stream /\ Clean /\ Handled /\ Bounds /\ Lines
  BY DEF IInv, Handled
<1>1. /\ pc = "read" /\ Newlines # {}
      /\ taken' = Append(taken, Line)
      /\ copies' = copies \cup IF KindOf(Line) = "not_json" THEN {} ELSE {LineOf(Line)}
      /\ pc' = IF KindOf(Line) = "request" THEN "dispatch" ELSE "answer"
      /\ Consume
      /\ UNCHANGED <<lines, pipe, hungUp, freed, decided, answers>>
  BY DEF ReadRequest
<1> PICK f, e : Framed(f, e)
  BY <1>0, <1>1, AFrame
<1>2. /\ f \in 1 .. Len(lines) /\ e \in Nat /\ e <= n
      /\ Line = Content(f, lines[f].len)
  BY DEF Framed
<1>3. Shifts(e)
  BY <1>1 DEF Consume, Shifts, Framed
<1>4. /\ buf' \in Seq(Bytes) /\ Len(buf') = Len(buf)
      /\ n' \in 0 .. Len(buf') /\ Clean' /\ ShortenedBy(e)
  BY <1>0, <1>1, <1>2, <1>3, ConsumeStep
<1>5. Takes(f, e)
  BY <1>0, <1>1 DEF Framed, Takes, TypeOK
<1>6. Stream'
  BY <1>0, <1>1, <1>2, <1>4, <1>5, StreamConsumed
<1>7. Reads(f)
  <2>1. /\ lines[f].len > 0 => LineOf(Line) = f
        /\ KindOf(Line) = lines[f].kind
    BY <1>0, <1>2, KindOfLine
  <2>2. lines[f].kind # "not_json" => lines[f].len > 0
    BY <1>0, <1>2 DEF Lines
  <2> QED
    BY <1>1, <1>2, <2>1, <2>2 DEF Reads
<1>8. Handled'
  BY <1>0, <1>7, HandledByReading
<1>9. TypeOK'
  <2>1. f \in 1 .. MaxLines /\ f \in Bytes
    BY <1>0, <1>2, Numbers DEF Bounds, Bytes
  <2>2. taken' \in Seq(Seq(Bytes))
    <3>1. lines[f].len \in Nat
      BY <1>0, <1>2, LineData
    <3>2. Content(f, lines[f].len) \in Seq(Bytes)
      BY <2>1, <3>1, ContentIsBytes
    <3> QED
      BY <1>0, <1>1, <1>2, <3>2 DEF TypeOK
  <2>3. copies' \subseteq 1 .. MaxLines
    BY <1>0, <1>7, <2>1 DEF Reads, TypeOK
  <2> QED
    BY <1>0, <1>1, <1>4, <2>2, <2>3 DEF TypeOK
<1> QED
  BY <1>4, <1>6, <1>8, <1>9 DEF IInv
\* The handler is busy with the k-th line, the last it has read.
Handles(k) ==
    /\ k = Len(taken) /\ k = Len(answers) + 1 /\ k \in 1 .. Len(lines) /\ k \in 1 .. MaxLines
    /\ lines[k].whole /\ Fits(k)
    /\ Current = Content(k, lines[k].len)
    /\ KindOf(Current) = lines[k].kind
    /\ lines[k].kind # "not_json" => LineOf(Current) = k
    /\ pc = "dispatch" => lines[k].kind = "request"

LEMMA ItHandles ==
  ASSUME TypeOK, Handled, pc \in {"dispatch", "answer"}
  PROVE  \E k : Handles(k)
<1> DEFINE k == Len(taken)
<1>0. Bounds /\ Lines /\ Taken /\ Counted
  BY DEF Handled
<1>1. /\ k \in 1 .. Len(lines) /\ k = Len(answers) + 1 /\ k \in 1 .. MaxLines
      /\ pc = "dispatch" => lines[k].kind = "request"
  BY <1>0, Numbers DEF Bounds, Counted
<1>2. Current = Content(k, lines[k].len) /\ lines[k].whole /\ Fits(k)
  <2>1. Current = taken[k]
    BY DEF Current, Last
  <2> QED
    BY <1>0, <1>1, <2>1 DEF Taken
<1>3. /\ lines[k].len > 0 => LineOf(Current) = k
      /\ KindOf(Current) = lines[k].kind
  BY <1>0, <1>1, <1>2, KindOfLine
<1>4. lines[k].kind # "not_json" => LineOf(Current) = k
  BY <1>0, <1>1, <1>3 DEF Lines
<1>5. Handles(k)
  BY <1>1, <1>2, <1>3, <1>4 DEF Handles
<1> QED
  BY <1>5

\* The k-th line's request is decided.
Decides(k) ==
    /\ decided' = Append(decided, k) /\ copies' = copies \ {k}
    /\ pc = "dispatch" /\ pc' = "answer"
    /\ UNCHANGED <<lines, pipe, hungUp, reader, taken, answers>>

LEMMA DecidedInTurnKept ==
  ASSUME TypeOK, Handled, NEW k, Handles(k), Decides(k)
  PROVE  DecidedInTurn' /\ ToSet(decided') = ToSet(decided) \cup {k}
<1>0. DecidedInTurn
  BY DEF Handled
<1>1. /\ decided' = Append(decided, k) /\ pc = "dispatch" /\ pc' = "answer"
      /\ UNCHANGED <<lines, taken>> /\ lines[k].kind = "request"
  BY DEF Decides, Handles
<1>2. DOMAIN taken = 1 .. k /\ k \in Nat /\ k \in 1 .. k
  <2>1. DOMAIN taken = 1 .. Len(taken)
    BY LenProperties DEF TypeOK
  <2>2. k = Len(taken) /\ k \in 1 .. MaxLines
    BY DEF Handles
  <2> QED
    BY <2>1, <2>2
<1>3. DOMAIN decided = 1 .. Len(decided)
  BY LenProperties DEF TypeOK
<1>3a. k \in 1 .. MaxLines
  BY DEF Handles
<1>4. /\ DOMAIN decided' = 1 .. Len(decided) + 1
      /\ decided'[Len(decided) + 1] = k
      /\ \A i \in 1 .. Len(decided) : decided'[i] = decided[i]
  BY <1>1, <1>3a, AppendProperties, LenProperties DEF TypeOK
<1>5. \A j : j \in 1 .. Len(decided) + 1 <=> j \in 1 .. Len(decided) \/ j = Len(decided) + 1
  BY Numbers
<1>6. ToSet(decided') = ToSet(decided) \cup {k}
  BY <1>3, <1>4, <1>5 DEF ToSet
<1>7. ToSet(decided) = {j \in 1 .. k : lines[j].kind = "request" /\ j < k}
  <2>1. \A j : (pc = "dispatch" => j < Len(taken)) <=> j < k
    BY <1>1 DEF Handles
  <2> QED
    BY <1>0, <1>2, <2>1 DEF DecidedInTurn
<1>8. ToSet(decided') = {j \in 1 .. k : lines[j].kind = "request"}
  <2>1. \A j \in 1 .. k : j < k \/ j = k
    BY <1>2
  <2> QED
    BY <1>1, <1>2, <1>6, <1>7, <2>1
<1>9. \A i, j \in DOMAIN decided' : i < j => decided'[i] < decided'[j]
  <2>1. SUFFICES ASSUME NEW i \in DOMAIN decided', NEW j \in DOMAIN decided', i < j
                 PROVE  decided'[i] < decided'[j]
    OBVIOUS
  <2>2. i \in 1 .. Len(decided)
    BY <1>4, <2>1, Numbers
  <2>3. CASE j \in 1 .. Len(decided)
    BY <1>0, <1>3, <1>4, <2>1, <2>2, <2>3 DEF DecidedInTurn
  <2>4. CASE j = Len(decided) + 1
    <3>1. decided[i] \in ToSet(decided)
      BY <1>3, <2>2 DEF ToSet
    <3>2. decided[i] < k
      BY <1>7, <3>1
    <3> QED
      BY <1>4, <2>2, <2>4, <3>2
  <2> QED
    BY <1>4, <1>5, <2>3, <2>4
<1> QED
  BY <1>1, <1>2, <1>6, <1>8, <1>9 DEF DecidedInTurn

LEMMA DispatchKeeps ==
  ASSUME IInv, Dispatch
  PROVE  IInv'
<1> USE DEF reader
<1>0. TypeOK /\ Stream /\ Clean /\ Handled /\ Bounds /\ Lines /\ Counted /\ Copies
  BY DEF IInv, Handled
<1>1. pc = "dispatch"
  BY DEF Dispatch
<1> PICK k : Handles(k)
  BY <1>0, <1>1, ItHandles
<1>2. k \in 1 .. MaxLines /\ lines[k].kind = "request" /\ LineOf(Current) = k
  BY <1>1 DEF Handles
<1>3. Decides(k)
  BY <1>2 DEF Dispatch, Decides
<1>4. /\ decided' = Append(decided, k) /\ copies' = copies \ {k} /\ pc' = "answer"
      /\ UNCHANGED <<lines, pipe, hungUp, reader, taken, answers>>
  BY <1>3 DEF Decides
<1>5. TypeOK'
  <2>1. decided' \in Seq(1 .. MaxLines) /\ copies' \subseteq 1 .. MaxLines
    BY <1>0, <1>2, <1>4, AppendProperties DEF TypeOK
  <2> QED
    BY <1>0, <1>4, <2>1 DEF TypeOK
<1>6. Stream' /\ Clean'
  BY <1>0, <1>4, StreamStays DEF Clean
<1>7. DecidedInTurn' /\ ToSet(decided') = ToSet(decided) \cup {k}
  BY <1>0, <1>3, DecidedInTurnKept
<1>8. Copies'
  BY <1>0, <1>4, <1>7 DEF Copies
<1>9. (Bounds /\ Lines /\ Taken /\ Refused /\ Counted /\ AnswersDue)'
  BY <1>0, <1>1, <1>4 DEF Handled, Bounds, Lines, Taken, Refused, Counted, AnswersDue,
     Due, Fits, Response, KindOf, LineOf
<1> QED
  BY <1>5, <1>6, <1>7, <1>8, <1>9 DEF IInv, Handled

\* The next line is answered with what it is due.
Answers(k, response) ==
    /\ answers' = Append(answers, response)
    /\ response = Due(k) /\ response \in [id: Ids, code: {"decided", "PROTOCOL"}]
    /\ lines[k].whole \/ ~Fits(k)
    /\ UNCHANGED lines

LEMMA AnswersDueKept ==
  ASSUME TypeOK, AnswersDue, NEW k, NEW response, Answers(k, response), k = Len(answers) + 1
  PROVE  /\ AnswersDue' /\ Len(answers') = Len(answers) + 1
         /\ answers' \in Seq([id: Ids, code: {"decided", "PROTOCOL"}])
<1>1. /\ DOMAIN answers = 1 .. Len(answers) /\ DOMAIN answers' = 1 .. Len(answers) + 1
      /\ answers'[Len(answers) + 1] = response /\ Len(answers') = Len(answers) + 1
      /\ \A j \in 1 .. Len(answers) : answers'[j] = answers[j]
      /\ answers' \in Seq([id: Ids, code: {"decided", "PROTOCOL"}])
  <2>1. answers \in Seq([id: Ids, code: {"decided", "PROTOCOL"}])
    BY DEF TypeOK
  <2>2. answers' = Append(answers, response) /\ response \in [id: Ids, code: {"decided", "PROTOCOL"}]
    BY DEF Answers
  <2>3. /\ answers' \in Seq([id: Ids, code: {"decided", "PROTOCOL"}])
        /\ Len(answers') = Len(answers) + 1
        /\ answers'[Len(answers) + 1] = response
        /\ \A j \in 1 .. Len(answers) : answers'[j] = answers[j]
    BY <2>1, <2>2, AppendProperties
  <2>4. DOMAIN answers = 1 .. Len(answers) /\ DOMAIN answers' = 1 .. Len(answers')
    BY <2>1, <2>3, LenProperties
  <2>5. DOMAIN answers' = 1 .. Len(answers) + 1
    BY <2>3, <2>4
  <2>6. DOMAIN answers = 1 .. Len(answers)
    BY <2>4
  <2> QED
    BY <2>3, <2>5, <2>6
<1>2. \A j : j \in 1 .. Len(answers) + 1 <=> j \in 1 .. Len(answers) \/ j = Len(answers) + 1
  BY Numbers
<1>3. \A j : Due(j)' = Due(j) /\ Fits(j)' = Fits(j)
  BY DEF Answers, Due, Fits, Response, KindOf, LineOf
<1>4. response = Due(Len(answers) + 1)
      /\ (lines[Len(answers) + 1].whole \/ ~Fits(Len(answers) + 1)) /\ lines' = lines
  BY DEF Answers
<1>5. AnswersDue'
  BY <1>1, <1>2, <1>3, <1>4 DEF AnswersDue
<1> QED
  BY <1>1, <1>5

LEMMA AnswerKeeps ==
  ASSUME IInv, Answer
  PROVE  IInv'
<1> USE DEF reader
<1>0. TypeOK /\ Stream /\ Clean /\ Handled /\ Bounds /\ Lines /\ Counted /\ Copies /\ AnswersDue
  BY DEF IInv, Handled
<1>1. /\ pc = "answer" /\ pc' = "read" /\ answers' = Append(answers, Response(Current))
      /\ UNCHANGED <<lines, pipe, hungUp, reader, taken, copies, decided>>
  BY DEF Answer
<1> PICK k : Handles(k)
  BY <1>0, <1>1, ItHandles
<1>2. /\ k = Len(taken) /\ k = Len(answers) + 1 /\ k \in 1 .. Len(lines) /\ k \in 1 .. MaxLines
      /\ lines[k].whole
  BY DEF Handles
<1>3. Response(Current) = Due(k)
  BY DEF Handles, Due
<1>4. Response(Current) \in [id: Ids, code: {"decided", "PROTOCOL"}]
  <2>1. 0 \in Ids /\ k \in Ids
    BY <1>2 DEF Ids
  <2>2. KindOf(Current) \in {"request", "no_method"} => LineOf(Current) = k
    BY DEF Handles
  <2> QED
    BY <2>1, <2>2 DEF Response
<1>5. Answers(k, Response(Current))
  BY <1>1, <1>2, <1>3, <1>4 DEF Answers
<1>6. /\ AnswersDue' /\ Len(answers') = Len(answers) + 1
      /\ answers' \in Seq([id: Ids, code: {"decided", "PROTOCOL"}])
  BY <1>0, <1>2, <1>5, AnswersDueKept
<1>7. TypeOK'
  BY <1>0, <1>1, <1>6 DEF TypeOK
<1>8. Stream' /\ Clean'
  BY <1>0, <1>1, StreamStays DEF Clean
<1>9. Counted'
  BY <1>0, <1>1, <1>2, <1>6, Numbers DEF Counted
<1>10. (Bounds /\ Lines /\ Taken /\ Refused /\ Copies /\ DecidedInTurn)'
  BY <1>0, <1>1 DEF Handled, Bounds, Lines, Taken, Refused, Copies, DecidedInTurn, Fits
<1> QED
  BY <1>6, <1>7, <1>8, <1>9, <1>10 DEF IInv, Handled

LEMMA RefuseKeeps ==
  ASSUME IInv, Refuse
  PROVE  IInv'
<1> USE DEF reader
<1> DEFINE refusal == [id |-> 0, code |-> "PROTOCOL"]
<1>0. TypeOK /\ Stream /\ Clean /\ Handled /\ Bounds /\ Counted /\ AnswersDue
  BY DEF IInv, Handled
<1>1. /\ pc = "refuse" /\ pc' = "closed" /\ answers' = Append(answers, refusal)
      /\ UNCHANGED <<lines, pipe, hungUp, reader, taken, copies, decided>>
  BY DEF Refuse
<1>2. Len(answers) = Len(taken) /\ Len(taken) < Len(lines) /\ ~Fits(Len(answers) + 1)
  BY <1>0, <1>1 DEF Handled, Counted, Refused
<1>3. refusal = Due(Len(answers) + 1)
  BY <1>2 DEF Due
<1>4. refusal \in [id: Ids, code: {"decided", "PROTOCOL"}]
  BY DEF Ids
<1>5. Answers(Len(answers) + 1, refusal)
  BY <1>1, <1>2, <1>3, <1>4 DEF Answers
<1>6. /\ AnswersDue' /\ Len(answers') = Len(answers) + 1
      /\ answers' \in Seq([id: Ids, code: {"decided", "PROTOCOL"}])
  BY <1>0, <1>5, AnswersDueKept
<1>7. TypeOK'
  BY <1>0, <1>1, <1>6 DEF TypeOK
<1>8. Stream' /\ Clean'
  BY <1>0, <1>1, StreamStays DEF Clean
<1>9. Counted'
  BY <1>0, <1>1, <1>2, <1>6, Numbers DEF Counted
<1>10. (Bounds /\ Lines /\ Taken /\ Refused /\ Copies /\ DecidedInTurn)'
  BY <1>0, <1>1 DEF Handled, Bounds, Lines, Taken, Refused, Copies, DecidedInTurn, Fits
<1> QED
  BY <1>6, <1>7, <1>8, <1>9, <1>10 DEF IInv, Handled

-----------------------------------------------------------------------------
(* The invariant, and what follows from it *)

LEMMA NextIInv == IInv /\ [Next]_vars => IInv'
<1> SUFFICES ASSUME IInv, [Next]_vars PROVE IInv'
  OBVIOUS
<1>1. CASE Peer
  BY <1>1, PeerStep
<1>2. CASE Grow
  BY <1>2, GrowKeeps
<1>3. ASSUME NEW m \in 1 .. Limit + 1, Read(m) PROVE IInv'
  BY <1>3, ReadKeeps
<1>4. CASE ReadFails \/ AnswerFails
  BY <1>4, ClosingKeeps DEF ReadFails, AnswerFails
<1>5. CASE ReadRequest
  BY <1>5, ReadRequestKeeps
<1>6. CASE LineTooLong
  BY <1>6, LineTooLongKeeps
<1>7. CASE Dispatch
  BY <1>7, DispatchKeeps
<1>8. CASE Answer
  BY <1>8, AnswerKeeps
<1>9. CASE Refuse
  BY <1>9, RefuseKeeps
<1>10. CASE UNCHANGED vars
  <2>1. UNCHANGED <<lines, hungUp, handler, pc, taken, pipe, reader, buf, n, freed>>
        /\ UNCHANGED <<copies, decided, answers>>
    BY <1>10 DEF vars, handler, reader
  <2>2. TypeOK' /\ Clean'
    BY <2>1 DEF IInv, TypeOK, Clean
  <2>3. Stream' /\ Handled'
    BY <2>1, StreamStays, HandledKept DEF IInv
  <2> QED
    BY <2>2, <2>3 DEF IInv
<1> QED
  BY <1>1, <1>2, <1>3, <1>4, <1>5, <1>6, <1>7, <1>8, <1>9, <1>10 DEF Next, Serve

THEOREM InvariantHolds == Spec => []IInv
<1>1. Init => IInv
  BY InitIInv
<1>2. IInv /\ [Next]_vars => IInv'
  BY NextIInv
<1> QED
  BY <1>1, <1>2, PTL DEF Spec

\* However the bytes arrive, the lines are answered one by one and in order, a
\* line is rejected if and only if it is longer than the limit, and requests
\* are decided once, in turn, and never from a part of their line.
THEOREM AnsweredInTurn == Spec => []AnsweredInOrder
<1>1. IInv => AnsweredInOrder
  BY DEF IInv, Handled, AnswersDue, DecidedInTurn, AnsweredInOrder
<1> QED
  BY <1>1, InvariantHolds, PTL

\* The Reader's memory, what it has given up included, has bytes of lines it
\* has not consumed and no others, and the params of a request that has been
\* decided are gone.
THEOREM NothingStays == Spec => []NothingLingers
<1>1. ASSUME IInv PROVE NothingLingers
  <2>0. TypeOK /\ Stream /\ Clean /\ Bounds /\ Copies
    BY <1>1 DEF IInv, Handled
  <2> PICK at : Layout(at)
    BY <2>0 DEF Stream
  <2>1. ASSUME NEW i \in 1 .. n PROVE buf[i] \notin -Len(taken) .. Len(taken)
    <3>1. i \in 1 .. Avail /\ i <= n
      BY <2>0, <2>1, Numbers DEF Avail
    <3>2. PICK k \in Len(taken) + 1 .. Len(lines) : \E j \in 1 .. Size(lines[k]) : Is(at, i, k, j)
      BY <3>1 DEF Layout
    <3>3. buf[i] = k \/ buf[i] = -k
      BY <3>1, <3>2 DEF Is, At, Byte
    <3> QED
      BY <2>0, <3>2, <3>3, Numbers
  <2>2. \A i \in DOMAIN buf : i \in 1 .. Len(buf) /\ (i <= n => i \in 1 .. n)
                              /\ (~(i <= n) => i \in n + 1 .. Len(buf))
    BY <2>0, LenProperties, Numbers DEF TypeOK
  <2> QED
    BY <2>0, <2>1, <2>2 DEF NothingLingers, Clean, Copies
<1> QED
  BY <1>1, InvariantHolds, PTL
=============================================================================

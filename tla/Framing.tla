------------------------------- MODULE Framing -------------------------------
(***************************************************************************)
(* One connection of the daemon: the bytes a peer sends, the Reader that   *)
(* cuts them into lines (internal/protocol/codec.go), and the handler that *)
(* answers them (Server.handle).                                           *)
(*                                                                         *)
(* A byte of the k-th line is k, its newline -k, and a zeroed byte 0.  What*)
(* a line says is abstracted to whether it is a request.  The peer writes  *)
(* ahead as far as it likes, hangs up whenever it likes, in the middle of  *)
(* a line too, and the kernel hands out its bytes in pieces of any size.   *)
(***************************************************************************)
EXTENDS Integers, Sequences, SequencesExt

CONSTANTS StartLen,     \* NewReader's first buffer
          Limit,        \* MaxLineLen
          Lengths,      \* lengths of lines, without the newline
          MaxLines      \* bound: lines the peer sends

ASSUME LimitAssumption  == Limit \in Nat /\ StartLen \in 1 .. Limit
ASSUME LengthAssumption == Lengths \subseteq Nat /\ MaxLines \in Nat

VARIABLES lines,        \* what the peer has sent
          pipe,         \* bytes sent and not read
          hungUp,       \* the peer has closed the connection
          buf, n,       \* the Reader's buffer and the bytes in use
          freed,        \* bytes left in buffers it has given up
          taken,        \* the lines ReadRequest has consumed
          copies,       \* decoded params that nobody has cleared
          decided,      \* the requests dispatched
          answers,      \* the responses written
          pc            \* where the handler is

vars == <<lines, pipe, hungUp, buf, n, freed, taken, copies, decided, answers, pc>>

Kinds == {"request", "not_json", "no_id", "no_method"}
Ids   == 0 .. MaxLines            \* 0 is null
Bytes == -MaxLines .. MaxLines
Zeros(k) == [i \in 1 .. k |-> 0]
Content(k, len) == [i \in 1 .. len |-> k]

TypeOK ==
    /\ lines \in Seq([len: Lengths, kind: Kinds, whole: BOOLEAN])
    /\ pipe \in Seq(Bytes)
    /\ hungUp \in BOOLEAN
    /\ buf \in Seq(Bytes) /\ Len(buf) \in StartLen .. Limit + 1
    /\ n \in 0 .. Len(buf)
    /\ freed \subseteq Bytes
    /\ taken \in Seq(Seq(Bytes))
    /\ copies \subseteq 1 .. MaxLines
    /\ decided \in Seq(1 .. MaxLines)
    /\ answers \in Seq([id: Ids, code: {"decided", "PROTOCOL"}])
    /\ pc \in {"read", "dispatch", "answer", "refuse", "closed"}

Init ==
    /\ lines = <<>> /\ pipe = <<>> /\ hungUp = FALSE
    /\ buf = Zeros(StartLen) /\ n = 0 /\ freed = {}
    /\ taken = <<>> /\ copies = {}
    /\ decided = <<>> /\ answers = <<>>
    /\ pc = "read"

reader  == <<buf, n, freed>>
handler == <<taken, copies, decided, answers>>

-----------------------------------------------------------------------------
(* The peer *)

PeerWrites(len, kind) ==
    LET k == Len(lines) + 1 IN
    /\ ~hungUp /\ k <= MaxLines
    /\ len = 0 => kind = "not_json"
    /\ lines' = Append(lines, [len |-> len, kind |-> kind, whole |-> TRUE])
    /\ pipe' = pipe \o Append(Content(k, len), -k)
    /\ UNCHANGED <<hungUp, reader, handler, pc>>

\* The peer goes, perhaps leaving a last line unfinished.
HangUp ==
    /\ ~hungUp /\ hungUp' = TRUE
    /\ UNCHANGED <<lines, pipe, reader, handler, pc>>

HangUpInLine(len) ==
    LET k == Len(lines) + 1 IN
    /\ ~hungUp /\ k <= MaxLines /\ len > 0
    /\ hungUp' = TRUE
    /\ lines' = Append(lines, [len |-> len, kind |-> "request", whole |-> FALSE])
    /\ pipe' = pipe \o Content(k, len)
    /\ UNCHANGED <<reader, handler, pc>>

-----------------------------------------------------------------------------
(* readLine and consume *)

Newlines == {i \in 1 .. n : buf[i] < 0}
\* Where the first line in the buffer ends.
End == CHOOSE i \in Newlines : \A j \in Newlines : i <= j
Line == SubSeq(buf, 1, End - 1)

MinOf(a, b) == IF a < b THEN a ELSE b

\* A slip: the last line of legal length has no room for its newline.
GrownToLimit(len) == MinOf(2 * len, Limit)
Grown(len) == MinOf(2 * len, Limit + 1)

\* A slip: the old buffer is left as it is.
LeftAlone(b) == b
Cleared(b) == Zeros(Len(b))

Grow ==
    /\ pc = "read" /\ Newlines = {} /\ n <= Limit /\ n = Len(buf)
    /\ buf' = buf \o Zeros(Grown(Len(buf)) - Len(buf))
    /\ freed' = freed \cup (ToSet(Cleared(buf)) \ {0})
    /\ UNCHANGED <<lines, pipe, hungUp, n, handler, pc>>

Read(m) ==
    /\ pc = "read" /\ Newlines = {} /\ n <= Limit /\ n < Len(buf)
    /\ m \in 1 .. MinOf(Len(buf) - n, Len(pipe))
    /\ buf' = [i \in DOMAIN buf |-> IF i \in n + 1 .. n + m THEN pipe[i - n] ELSE buf[i]]
    /\ n' = n + m
    /\ pipe' = SubSeq(pipe, m + 1, Len(pipe))
    /\ UNCHANGED <<lines, hungUp, freed, handler, pc>>

\* io.EOF between two lines or within one, or a connection that was reset:
\* in any case the handler returns.
ReadFails ==
    /\ pc = "read" /\ Newlines = {} /\ n <= Limit
    /\ hungUp
    /\ pc' = "closed"
    /\ UNCHANGED <<lines, pipe, hungUp, reader, handler>>

\* A slip: what was read ahead of the next line is dropped with this one.
ConsumeAll == buf' = Zeros(Len(buf)) /\ n' = 0
Consume ==
    /\ buf' = SubSeq(buf, End + 1, n) \o Zeros(Len(buf) - (n - End))
    /\ n' = n - End

\* The line that a frame is, or 0: a torn or a mixed one is no JSON.
LineOf(frame) ==
    IF frame # <<>> /\ frame = Content(frame[1], lines[frame[1]].len) THEN frame[1] ELSE 0

KindOf(frame) == IF LineOf(frame) = 0 THEN "not_json" ELSE lines[LineOf(frame)].kind

\* ReadRequest: what json.Unmarshal makes of the line is a copy of its params.
ReadRequest ==
    /\ pc = "read" /\ Newlines # {}
    /\ taken' = Append(taken, Line)
    /\ copies' = copies \cup IF KindOf(Line) = "not_json" THEN {} ELSE {LineOf(Line)}
    /\ pc' = IF KindOf(Line) = "request" THEN "dispatch" ELSE "answer"
    /\ Consume
    /\ UNCHANGED <<lines, pipe, hungUp, freed, decided, answers>>

LineTooLong ==
    /\ pc = "read" /\ Newlines = {} /\ n > Limit
    /\ pc' = "refuse"
    /\ UNCHANGED <<lines, pipe, hungUp, reader, handler>>

-----------------------------------------------------------------------------
(* handle *)

Current == Last(taken)

\* The request is decided, and its params are cleared.
Dispatch ==
    /\ pc = "dispatch"
    /\ decided' = Append(decided, LineOf(Current))
    /\ copies' = copies \ {LineOf(Current)}
    /\ pc' = "answer"
    /\ UNCHANGED <<lines, pipe, hungUp, reader, taken, answers>>

Response(frame) ==
    [id   |-> IF KindOf(frame) \in {"request", "no_method"} THEN LineOf(frame) ELSE 0,
     code |-> IF KindOf(frame) = "request" THEN "decided" ELSE "PROTOCOL"]

Answer ==
    /\ pc = "answer"
    /\ answers' = Append(answers, Response(Current))
    /\ pc' = "read"
    /\ UNCHANGED <<lines, pipe, hungUp, reader, taken, copies, decided>>

\* After a line that is too long the stream is out of step: the handler closes.
Refuse ==
    /\ pc = "refuse"
    /\ answers' = Append(answers, [id |-> 0, code |-> "PROTOCOL"])
    /\ pc' = "closed"
    /\ UNCHANGED <<lines, pipe, hungUp, reader, taken, copies, decided>>

\* The response meets a connection that the peer has closed.
AnswerFails ==
    /\ pc \in {"answer", "refuse"} /\ hungUp
    /\ pc' = "closed"
    /\ UNCHANGED <<lines, pipe, hungUp, reader, handler>>

Peer ==
    \/ \E len \in Lengths, kind \in Kinds : PeerWrites(len, kind)
    \/ HangUp
    \/ \E len \in Lengths : HangUpInLine(len)

Serve ==
    \/ Grow \/ (\E m \in 1 .. Limit + 1 : Read(m)) \/ ReadFails
    \/ ReadRequest \/ LineTooLong
    \/ Dispatch \/ Answer \/ Refuse \/ AnswerFails

Next == Peer \/ Serve

\* The handler is scheduled, calls return, and the peer reads its answers: a
\* write to a peer that does not would block, as it does in the code.
Spec == Init /\ [][Next]_vars /\ WF_vars(Serve)

-----------------------------------------------------------------------------
(* Properties *)

Fits(j) == lines[j].len <= Limit

\* What the j-th line has to be answered.
Due(j) ==
    IF Fits(j) THEN Response(Content(j, lines[j].len))
    ELSE [id |-> 0, code |-> "PROTOCOL"]

\* docs/PROTOCOL.md: "Responses come back in request order", one to each line,
\* and a line is rejected if and only if it is longer than the limit, however
\* its bytes arrive.  A request is decided once, in its turn, and never from a
\* part of its line.
AnsweredInOrder ==
    /\ \A j \in DOMAIN answers : answers[j] = Due(j) /\ (lines[j].whole \/ ~Fits(j))
    /\ \A i, j \in DOMAIN decided : i < j => decided[i] < decided[j]
    /\ ToSet(decided) = {j \in DOMAIN taken : /\ lines[j].kind = "request"
                                              /\ pc = "dispatch" => j < Len(taken)}

\* codec.go:28: no identity or value lingers in the framing layer.  Memory the
\* Reader holds or has given up has bytes of lines it has not consumed and no
\* others, and the params of a request are gone once it is decided.  (Those of a
\* line that is rejected for its id or its method stay: no caller gets them.)
NothingLingers ==
    /\ \A i \in DOMAIN buf : IF i <= n THEN buf[i] \notin -Len(taken) .. Len(taken)
                                       ELSE buf[i] = 0
    /\ freed = {}
    /\ copies \cap ToSet(decided) = {}

\* Every whole line is answered, a line of exactly the limit too, unless the
\* peer hangs up or has sent one before that is too long.
EveryLineAnswered ==
    \A j \in 1 .. MaxLines :
        j \in DOMAIN lines /\ lines[j].whole /\ (\A i \in 1 .. j - 1 : Fits(i))
            ~> Len(answers) >= j \/ hungUp
=============================================================================

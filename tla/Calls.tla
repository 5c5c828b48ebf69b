-------------------------------- MODULE Calls --------------------------------
(***************************************************************************)
(* One call of a Client method (pkg/keycell: keycell.go, transport.go) on  *)
(* its way to a daemon and back.  Every call has a connection of its own;  *)
(* it is dialled, written to, read from and closed, while the context may  *)
(* end, the daemon may stop or be killed, and another one may start.       *)
(*                                                                         *)
(* The daemon's side is what the connection sees of it: Listen and Serve   *)
(* have its start and its shutdown in full, Framing how lines are read,    *)
(* Daemon what a request does.  What is new here is what the caller is     *)
(* told, and what remains in the memory of the two processes.              *)
(***************************************************************************)
EXTENDS Integers

CONSTANTS MaxCalls,     \* bound: calls
          Plans,        \* what a caller may set out to do, call by call
          MaxDaemons    \* bound: daemons that start, one after the other

Call   == 1 .. MaxCalls
Daemon == 1 .. MaxDaemons

\* huge: longer than a line may be; long: a get whose answer is.  A store, an
\* unlock and a huge request carry a secret, a get brings one.
Kinds    == {"nil", "store", "huge", "unlock", "get", "long"}
Carries  == {"store", "huge", "unlock"}
Brings   == {"get", "long"}

ASSUME BoundAssumption == MaxCalls \in Nat /\ MaxDaemons \in Nat
ASSUME PlanAssumption ==
    Plans \subseteq [Call -> [kind: Kinds \cup {"none"}, ctx: {"none", "live"}]]

VARIABLES pc,           \* where the caller is
          kind,         \* what it asks
          ctx,          \* its context: "none" never ends
          told,         \* what the call has returned
          cut,          \* calls whose end of the connection is closed
          sent,         \* how much of the request the connection has
          answer,       \* and of the response
          to,           \* the daemon that was dialled
          srv,          \* the daemon's end of the connection
          h,            \* its handler
          decided,      \* what the daemon has decided
          vault,        \* the vault file, and what handlers have read of it
          life,         \* each daemon
          sock,         \* the daemon that made the socket file; 0 if none
          mem           \* where copies of a secret or an identity are

client  == <<pc, kind, ctx, told, cut>>
wire    == <<sent, answer, to>>
daemons == <<life, sock>>
vars    == <<client, wire, srv, h, decided, vault, daemons, mem>>

Outcomes == {"none", "ok", "code", "invalid", "not running", "dial", "protocol", "context"}

\* The client's: the argument of an unlock, the marshalled params, the Reader's
\* buffer, the result in it.  The handler's: the Reader's buffer, the params,
\* the value a get has cloned from the vault, the marshalled result.
OfClient == {"identity", "params", "line", "result"}
OfServer == {"input", "request", "value", "response"}

TypeOK ==
    /\ pc \in [Call -> {"new", "check", "dial", "write", "read", "decode", "returned"}]
    /\ kind \in [Call -> Kinds \cup {"none"}]
    /\ ctx \in [Call -> {"none", "live", "done"}]
    /\ told \in [Call -> Outcomes]
    /\ cut \subseteq Call
    /\ sent \in [Call -> {"nothing", "part", "whole"}]
    /\ answer \in [Call -> {"nothing", "part", "ok", "code", "too long"}]
    /\ to \in [Call -> 0 .. MaxDaemons]
    /\ srv \in [Call -> {"none", "queued", "open", "closed"}]
    /\ h \in [Call -> {"none", "reading", "dispatch", "stuck", "loaded", "hung", "respond",
                       "answered", "over"}]
    /\ decided \in [Call -> {"none", "ok", "code"}]
    /\ vault \in [file: SUBSET Call, read: [Call -> SUBSET Call]]
    /\ life \in [Daemon -> {"unborn", "serving", "stopping", "closing", "over"}]
    /\ sock \in 0 .. MaxDaemons
    /\ mem \in [Call -> SUBSET (OfClient \cup OfServer)]

Init ==
    /\ \E plan \in Plans : /\ kind = [k \in Call |-> plan[k].kind]
                          /\ ctx = [k \in Call |-> plan[k].ctx]
    /\ pc = [k \in Call |-> "new"] /\ told = [k \in Call |-> "none"]
    /\ cut = {}
    /\ sent = [k \in Call |-> "nothing"] /\ answer = sent
    /\ to = [k \in Call |-> 0]
    /\ srv = [k \in Call |-> "none"] /\ h = srv /\ decided = srv
    /\ vault = [file |-> {}, read |-> [k \in Call |-> {}]]
    /\ life = [d \in Daemon |-> "unborn"] /\ sock = 0
    /\ mem = [k \in Call |-> {}]

Holds(k, places)  == mem' = [mem EXCEPT ![k] = @ \cup places]
Clears(k, places) == mem' = [mem EXCEPT ![k] = @ \ places]
Decodes(k, from, places) == mem' = [mem EXCEPT ![k] = (@ \ {from}) \cup places]
Goes(k, from, at) == pc[k] = from /\ pc' = [pc EXCEPT ![k] = at]

-----------------------------------------------------------------------------
(* The caller *)

\* The calls are made one after the other.  The identity of an unlock is in
\* the caller's buffer.
Begin(k) ==
    /\ kind[k] # "none" /\ \A j \in 1 .. k - 1 : pc[j] = "returned"
    /\ Goes(k, "new", "check")
    /\ Holds(k, IF kind[k] = "unlock" THEN {"identity"} ELSE {})
    /\ UNCHANGED <<kind, ctx, told, cut, wire, srv, h, decided, vault, daemons>>

\* The params are marshalled.
NewRequest(k) ==
    /\ kind[k] # "nil"
    /\ Goes(k, "check", "dial")
    /\ Holds(k, IF kind[k] \in Carries THEN {"params"} ELSE {})
    /\ UNCHANGED <<kind, ctx, told, cut, wire, srv, h, decided, vault, daemons>>

\* A slip: the buffer the identity came in is forgotten.
ForgetsIdentity(k) == Clears(k, {"params", "result"})

\* The deferred clears, on every path.  The Reader's buffer is not among them.
ClearsAll(k) == Clears(k, {"identity", "params", "result"})

\* The call is over; its connection, if any, is closed.
Returns(k, outcome) ==
    /\ pc' = [pc EXCEPT ![k] = "returned"]
    /\ told' = [told EXCEPT ![k] = outcome]
    /\ cut' = cut \cup {k}
    /\ ClearsAll(k)
    /\ UNCHANGED <<kind, ctx, wire, srv, h, decided, vault, daemons>>

\* Store refuses a value that is nil, or destroyed.
RefuseNil(k) == pc[k] = "check" /\ kind[k] = "nil" /\ Returns(k, "invalid")

\* Somebody listens behind the socket file.
Listens == sock \in {d \in Daemon : life[d] = "serving"}

\* No socket file, or one whose daemon is gone.
NotRunning(k) ==
    /\ pc[k] = "dial" /\ ctx[k] # "done"
    /\ ~Listens
    /\ Returns(k, "not running")

DialFails(k) ==
    /\ pc[k] = "dial"
    /\ Returns(k, IF ctx[k] = "done" THEN "context" ELSE "dial")

\* The kernel queues the connection.
Dial(k) ==
    /\ ctx[k] # "done"
    /\ Listens
    /\ Goes(k, "dial", "write")
    /\ to' = [to EXCEPT ![k] = sock]
    /\ srv' = [srv EXCEPT ![k] = "queued"]
    /\ UNCHANGED <<kind, ctx, told, cut, sent, answer, h, decided, vault, daemons, mem>>

\* The context ends, also by its deadline.
Cancel(k) ==
    /\ ctx[k] = "live" /\ pc[k] \notin {"new", "returned"}
    /\ ctx' = [ctx EXCEPT ![k] = "done"]
    /\ UNCHANGED <<pc, kind, told, cut, wire, srv, h, decided, vault, daemons, mem>>

\* A slip: the context is given up when the request has been written.
WatchedWhileWriting(k) == pc[k] = "write"

Watched(k) == pc[k] \in {"write", "read", "decode"}

\* context.AfterFunc closes the connection, in a goroutine of its own.
AfterFunc(k) ==
    /\ ctx[k] = "done" /\ Watched(k) /\ k \notin cut
    /\ cut' = cut \cup {k}
    /\ UNCHANGED <<pc, kind, ctx, told, wire, srv, h, decided, vault, daemons, mem>>

Writable(k) == pc[k] = "write" /\ k \notin cut /\ srv[k] # "closed"

WritePart(k) ==
    /\ Writable(k) /\ sent[k] = "nothing"
    /\ sent' = [sent EXCEPT ![k] = "part"]
    /\ UNCHANGED <<client, answer, to, srv, h, decided, vault, daemons, mem>>

WriteRest(k) ==
    /\ Writable(k)
    /\ Goes(k, "write", "read")
    /\ sent' = [sent EXCEPT ![k] = "whole"]
    /\ UNCHANGED <<kind, ctx, told, cut, answer, to, srv, h, decided, vault, daemons, mem>>

Complete == {"ok", "code", "too long"}

\* A slip: a connection that breaks before its answer counts as no daemon.
BrokenIsNotRunning(k) == IF ctx[k] = "done" THEN "context" ELSE "not running"

\* ioError: the context first, then everything is the protocol's fault.
IOError(k) == IF ctx[k] = "done" THEN "context" ELSE "protocol"

\* The connection is closed, at this end or at the other, before the request
\* has been written or the answer has come; or a line that is too long comes.
IOFails(k) ==
    /\ \/ pc[k] \in {"write", "read"} /\ k \in cut
       \/ pc[k] = "write" /\ srv[k] = "closed"
       \/ pc[k] = "read" /\ srv[k] = "closed" /\ answer[k] \notin Complete
       \/ pc[k] = "read" /\ answer[k] = "too long" /\ "line" \in mem[k]
    /\ Returns(k, IOError(k))

\* The deadline on the connection may be noticed before the context's.
TimesOut(k) ==
    /\ ctx[k] = "live" /\ pc[k] \in {"write", "read"}
    /\ Returns(k, "context")

\* A piece of a response that brings a value is in the Reader's buffer.
ReadPart(k) ==
    /\ pc[k] = "read" /\ k \notin cut
    /\ answer[k] # "nothing" /\ kind[k] \in Brings /\ decided[k] = "ok"
    /\ "line" \notin mem[k] /\ Holds(k, {"line"})
    /\ UNCHANGED <<client, wire, srv, h, decided, vault, daemons>>

\* A line that has come in whole is wiped when it has been decoded.
ReadResponse(k) ==
    /\ answer[k] \in {"ok", "code"} /\ k \notin cut
    /\ Goes(k, "read", "decode")
    /\ Decodes(k, "line", IF kind[k] \in Brings /\ answer[k] = "ok" THEN {"result"} ELSE {})
    /\ UNCHANGED <<kind, ctx, told, cut, wire, srv, h, decided, vault, daemons>>

\* The result or the daemon's code.  A request that was too long to be read
\* is answered PROTOCOL, which is what ErrProtocol stands for, too.
Decode(k) ==
    /\ pc[k] = "decode"
    /\ Returns(k, IF kind[k] = "huge" THEN "protocol" ELSE answer[k])

-----------------------------------------------------------------------------
(* The daemon's end of a connection *)

Moves(k, from, at) == h[k] = from /\ h' = [h EXCEPT ![k] = at]

Accept(k) ==
    /\ srv[k] = "queued" /\ life[to[k]] = "serving"
    /\ Moves(k, "none", "reading")
    /\ srv' = [srv EXCEPT ![k] = "open"]
    /\ UNCHANGED <<client, wire, decided, vault, daemons, mem>>

\* A piece of a request that carries a secret is in the Reader's buffer.
Receive(k) ==
    /\ srv[k] = "open" /\ h[k] = "reading" /\ sent[k] # "nothing"
    /\ kind[k] \in Carries
    /\ "input" \notin mem[k] /\ Holds(k, {"input"})
    /\ UNCHANGED <<client, wire, srv, h, decided, vault, daemons>>

\* Whether or not the client is still there.  The line is wiped.
ReadRequest(k) ==
    /\ srv[k] = "open" /\ sent[k] = "whole" /\ kind[k] # "huge"
    /\ Moves(k, "reading", "dispatch")
    /\ Decodes(k, "input", IF kind[k] \in Carries THEN {"request"} ELSE {})
    /\ UNCHANGED <<client, wire, srv, decided, vault, daemons>>

\* The handler answers and closes; the answer may come too late.  What has been
\* read of the line is left where it is.
TooLong(k) ==
    /\ srv[k] = "open" /\ "input" \in mem[k] /\ kind[k] = "huge"
    /\ Moves(k, "reading", "over")
    /\ answer' = [answer EXCEPT ![k] = IF k \in cut THEN @ ELSE "code"]
    /\ srv' = [srv EXCEPT ![k] = "closed"]
    /\ UNCHANGED <<client, sent, to, decided, vault, daemons, mem>>

\* The client hangs up before its request is there, or after the answer.
EndOfInput(k) ==
    /\ srv[k] = "open" /\ k \in cut
    /\ \/ Moves(k, "reading", "over") /\ sent[k] # "whole"
       \/ Moves(k, "answered", "over")
    /\ srv' = [srv EXCEPT ![k] = "closed"]
    /\ UNCHANGED <<client, wire, decided, vault, daemons, mem>>

\* The disk or the key derivation takes forever, or another request's does that
\* holds the session; a store may be held with the vault read and writeMu taken.
GetsStuck(k) ==
    /\ Moves(k, "dispatch", "stuck") \/ Moves(k, "loaded", "hung")
    /\ UNCHANGED <<client, wire, srv, decided, vault, daemons, mem>>

\* A slip: a write does not wait for the other ones of its daemon.
WritesAtOnce(k) == kind[k] = "store"

\* writeMu: one store of a daemon at a time reads the vault and writes it.
MayLoad(k) ==
    kind[k] = "store" /\ \A j \in Call : to[j] = to[k] => h[j] \notin {"loaded", "hung"}

\* A store reads the vault to add its secret to it.
Load(k) ==
    /\ MayLoad(k)
    /\ Moves(k, "dispatch", "loaded")
    /\ vault' = [vault EXCEPT !.read[k] = vault.file]
    /\ UNCHANGED <<client, wire, srv, decided, daemons, mem>>

\* The params are wiped.  A get has cloned the value from the vault, and it is
\* marshalled into the response.
Decides(k, code) ==
    /\ decided' = [decided EXCEPT ![k] = code]
    /\ Decodes(k, "request",
               IF kind[k] \in Brings /\ code = "ok" THEN {"value", "response"} ELSE {})
    /\ UNCHANGED <<client, wire, srv, daemons>>

\* An INTERNAL store may have been written all the same.
WriteVault(k) ==
    /\ Moves(k, "loaded", "respond")
    /\ \E code \in {"ok", "code"} : Decides(k, code)
    /\ \/ vault' = [vault EXCEPT !.file = vault.read[k] \cup {k}, !.read[k] = {}]
       \/ decided'[k] = "code" /\ vault' = [vault EXCEPT !.read[k] = {}]

\* Any other request, and a store that is refused, which takes writeMu first.
Dispatch(k) ==
    /\ kind[k] = "store" => MayLoad(k)
    /\ Moves(k, "dispatch", "respond")
    /\ \E code \in (IF kind[k] = "store" THEN {"code"} ELSE {"ok", "code"}) : Decides(k, code)
    /\ UNCHANGED vault

\* The marshalled result; the value it was made from is nobody's to clear.
ClearsResult(k) == Clears(k, {"response"})

\* The socket's buffer may take a piece of the response before the rest.
RespondPart(k) ==
    /\ h[k] = "respond" /\ srv[k] = "open" /\ k \notin cut
    /\ answer[k] = "nothing" /\ answer' = [answer EXCEPT ![k] = "part"]
    /\ UNCHANGED <<client, sent, to, srv, h, decided, vault, daemons, mem>>

\* The response is written, or the connection turns out to be closed.
Respond(k) ==
    /\ IF srv[k] = "open" /\ k \notin cut
       THEN /\ Moves(k, "respond", "answered")
            /\ answer' = [answer EXCEPT ![k] =
                             IF kind[k] = "long" /\ decided[k] = "ok" THEN "too long"
                             ELSE decided[k]]
            /\ UNCHANGED srv
       ELSE /\ Moves(k, "respond", "over")
            /\ srv' = [srv EXCEPT ![k] = "closed"]
            /\ UNCHANGED answer
    /\ ClearsResult(k)
    /\ UNCHANGED <<client, sent, to, decided, vault, daemons>>

-----------------------------------------------------------------------------
(* Daemons *)

Of(d) == {k \in Call : to[k] = d}

Start(d) ==
    /\ life[d] = "unborn" /\ \A e \in 1 .. d - 1 : life[e] # "unborn"
    /\ ~Listens
    /\ life' = [life EXCEPT ![d] = "serving"]
    /\ sock' = d
    /\ UNCHANGED <<client, wire, srv, h, decided, vault, mem>>

\* The listener is closed, and with it the connections nobody has accepted.
\* Those that are open are served on.
Stop(d) ==
    /\ life[d] = "serving"
    /\ life' = [life EXCEPT ![d] = "stopping"]
    /\ sock' = 0
    /\ srv' = [k \in Call |-> IF k \in Of(d) /\ srv[k] = "queued" THEN "closed" ELSE srv[k]]
    /\ UNCHANGED <<client, wire, h, decided, vault, mem>>

Closed(d) == [k \in Call |-> IF k \in Of(d) THEN "closed" ELSE srv[k]]

\* No request is in flight, or the grace period is over, which may happen at
\* any time: a decided request may lose its answer.
CloseConns(d) ==
    /\ life[d] = "stopping"
    /\ life' = [life EXCEPT ![d] = "closing"]
    /\ srv' = Closed(d)
    /\ h' = [k \in Call |-> IF k \in Of(d) /\ h[k] \in {"reading", "answered"}
                            THEN "over" ELSE h[k]]
    /\ UNCHANGED <<client, wire, decided, vault, sock, mem>>

\* The memory of a process is gone with it.
Forgotten(d) == [k \in Call |-> IF k \in Of(d) THEN mem[k] \ OfServer ELSE mem[k]]

Exit(d) ==
    /\ life[d] = "closing" /\ \A k \in Of(d) : h[k] \in {"none", "over"}
    /\ life' = [life EXCEPT ![d] = "over"]
    /\ mem' = Forgotten(d)
    /\ UNCHANGED <<client, wire, srv, h, decided, vault, sock>>

\* The process ends at any moment; its socket file stays.
Kill(d) ==
    /\ life[d] \in {"serving", "stopping", "closing"}
    /\ life' = [life EXCEPT ![d] = "over"]
    /\ srv' = Closed(d)
    /\ h' = [k \in Call |-> IF k \in Of(d) THEN "over" ELSE h[k]]
    /\ mem' = Forgotten(d)
    /\ UNCHANGED <<client, wire, decided, vault, sock>>

-----------------------------------------------------------------------------
Caller(k) ==
    \/ RefuseNil(k) \/ NewRequest(k) \/ NotRunning(k) \/ Dial(k) \/ DialFails(k) \/ AfterFunc(k)
    \/ WritePart(k) \/ WriteRest(k) \/ IOFails(k) \/ ReadPart(k) \/ ReadResponse(k) \/ Decode(k)

Handler(k) ==
    \/ Accept(k) \/ Receive(k) \/ ReadRequest(k) \/ TooLong(k) \/ EndOfInput(k)
    \/ Dispatch(k) \/ Load(k) \/ WriteVault(k) \/ RespondPart(k) \/ Respond(k)

Shutdown(d) == CloseConns(d) \/ Exit(d)

Next ==
    \/ \E k \in Call : \/ Begin(k) \/ Caller(k)
                       \/ Cancel(k) \/ TimesOut(k) \/ Handler(k) \/ GetsStuck(k)
    \/ \E d \in Daemon : Start(d) \/ Stop(d) \/ Shutdown(d) \/ Kill(d)

\* Goroutines that can go on do so, the grace period ends.  Nothing is assumed
\* of contexts, of signals, or that there is a daemon.
Fairness ==
    /\ \A k \in Call : WF_vars(Caller(k)) /\ WF_vars(Handler(k))
    /\ \A d \in Daemon : WF_vars(Shutdown(d))

Spec == Init /\ [][Next]_vars /\ Fairness

-----------------------------------------------------------------------------
(* Properties *)

Began == {k \in Call : pc[k] # "new"}

Contract == INSTANCE Promise WITH asked <- Began

\* keycell.go:18: what a call returns is the truth about its request.  It is
\* decided at most once; a result or a code is that decision; "not running"
\* and a refused argument mean that it never will be, whichever daemon dies,
\* stops or starts meanwhile; only ErrProtocol and the context leave a doubt.
TellsTheTruth == Contract!Spec

\* keycell.go:148, transport.go:30: on whatever path a call ends, identity,
\* request and result are wiped when it has returned, and the handler's request
\* and result when it is done with them, sent or not.  Two kinds of copies stay,
\* and no others.  A Reader keeps a line that was not read to its end: the
\* client's, of a call that failed; the daemon's, of a request it never decided.
\* And a handler keeps the value it has fetched for a get.  The plaintext of the
\* vault is not among the copies.
NoSecretLeft ==
    \A k \in Call :
        /\ pc[k] = "returned" => mem[k] \cap OfClient \subseteq {"line"}
        /\ told[k] \in {"ok", "code"} => "line" \notin mem[k]
        /\ h[k] \in {"none", "answered", "over"} =>
              mem[k] \cap OfServer \subseteq {"input", "value"}
        /\ decided[k] # "none" => "input" \notin mem[k]
        /\ kind[k] \notin Brings \/ decided[k] # "ok" => "value" \notin mem[k]

\* store.go:61 says of a get that the caller clears the value after use: no
\* handler that is done with its request holds the value.
ValueIsCleared ==
    \A k \in Call : h[k] \in {"answered", "over"} => "value" \notin mem[k]

\* store.go:45: an answered store stays.  It can be lost only to a daemon other
\* than its own: one that still serves its open connections after its listener
\* is closed, while the next daemon serves already.
LostOnlyToOtherDaemon ==
    \A k \in Call : kind[k] = "store" /\ told[k] = "ok" /\ k \notin vault.file =>
        \E j \in Call : to[j] \notin {0, to[k]} /\ decided[j] # "none"

\* Held by a disk that does not answer, or by the store that holds writeMu.
Held(k) ==
    \/ h[k] \in {"stuck", "hung"}
    \/ h[k] = "dispatch" /\ kind[k] = "store" /\ \E j \in Call : to[j] = to[k] /\ h[j] = "hung"

\* transport.go:60: the context bounds the call, also when the daemon hangs;
\* without one, only a daemon that hangs while it serves can hold it, and it
\* holds it no longer than the connection.
EveryCallReturns ==
    \A k \in Call :
        /\ ctx[k] = "done" ~> pc[k] = "returned"
        /\ pc[k] = "check" ~> pc[k] = "returned" \/ (Held(k) /\ srv[k] = "open")
        /\ srv[k] = "closed" ~> pc[k] = "returned"
=============================================================================

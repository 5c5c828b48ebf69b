-------------------------------- MODULE Serve --------------------------------
(***************************************************************************)
(* The life of one daemon's server (internal/daemon/server.go): the accept *)
(* loop, the handler of each connection, and the shutdown in Serve, which  *)
(* waits for the requests in flight, locks the session, closes the         *)
(* connections and joins the handlers.                                     *)
(*                                                                         *)
(* A call is what Server.call does to the session: a reader (get, list,    *)
(* store and delete alike) holds its read lock, lock and unlock need it    *)
(* exclusively, and unlock verifies as a reader.  Session and Daemon have  *)
(* the details; here only counts who runs while the server shuts down.     *)
(***************************************************************************)
EXTENDS Integers, FiniteSets

CONSTANTS Conn          \* connections clients may open, one handler each

ASSUME ConnAssumption == IsFiniteSet(Conn)

VARIABLES main,         \* where Serve is
          cancelled,    \* the context
          listening,    \* the listener is open
          conns,        \* Server.conns
          shut,         \* connections Serve has closed
          h,            \* where the handler of each connection is
          kind,         \* the request it serves
          inflight,     \* the counter of the WaitGroup ...
          waiter,       \* ... and the goroutine that waits for it
          unlocked,     \* the session holds an identity
          expired,      \* the grace period is over
          early         \* requests that were running when Serve began to wait

vars == <<main, cancelled, listening, conns, shut, h, kind, inflight, waiter,
          unlocked, expired, early>>

Kinds   == {"read", "unlock", "lock"}     \* what clients ask for
InCall  == {"counted", "with", "decided"}
Handler == {"read", "asked", "answer", "ended"} \cup InCall
Over    == {"panicked", "exited"}

TypeOK ==
    /\ main \in {"accept", "wait", "select", "lock", "locking", "close", "join",
                 "returned", "failed"} \cup Over
    /\ cancelled \in BOOLEAN /\ listening \in BOOLEAN
    /\ unlocked \in BOOLEAN /\ expired \in BOOLEAN
    /\ h \in [Conn -> {"away", "pending"} \cup Handler]
    /\ kind \in [Conn -> Kinds \cup {"verify"}]
    /\ conns = {c \in Conn : h[c] \in Handler}
    /\ shut \subseteq conns
    /\ inflight = Cardinality({c \in Conn : h[c] \in InCall})
    /\ waiter \in {"none", "begins", "waits", "woken", "done"}
    /\ early \subseteq Conn

Init ==
    /\ main = "accept" /\ cancelled = FALSE /\ listening = TRUE
    /\ conns = {} /\ shut = {}
    /\ h = [c \in Conn |-> "away"] /\ kind = [c \in Conn |-> "read"]
    /\ inflight = 0 /\ waiter = "none"
    /\ unlocked = FALSE /\ expired = FALSE
    /\ early = {}

Alive == main \notin Over

MainGoes(from, to) == main = from /\ main' = to

Goes(c, from, to) == Alive /\ h[c] = from /\ h' = [h EXCEPT ![c] = to]

\* No handler holds the session's read lock.
NoReaders == \A c \in Conn : h[c] # "with"

serving  == <<cancelled, listening, expired, waiter, early>>
requests == <<kind, inflight, unlocked>>

-----------------------------------------------------------------------------
(* Connections and the accept loop *)

\* A client connects; the kernel queues it.
Connect(c) ==
    /\ listening
    /\ Goes(c, "away", "pending")
    /\ UNCHANGED <<main, serving, requests, conns, shut>>

Accept(c) ==
    /\ main = "accept" /\ listening
    /\ Goes(c, "pending", "read")
    /\ conns' = conns \cup {c}
    /\ UNCHANGED <<main, serving, requests, shut>>

\* A connection whose peer has another UID, or none that can be read.
Reject(c) ==
    /\ main = "accept" /\ listening
    /\ Goes(c, "pending", "away")
    /\ UNCHANGED <<main, serving, requests, conns, shut>>

Cancel ==
    /\ Alive /\ ~cancelled
    /\ cancelled' = TRUE
    /\ UNCHANGED <<main, listening, expired, waiter, early, requests, conns, shut, h>>

\* The listener is closed; what it had queued is gone.
Unlisten ==
    /\ listening' = FALSE
    /\ h' = [c \in Conn |-> IF h[c] = "pending" THEN "away" ELSE h[c]]

\* The goroutine that waits for the context.
CloseListener ==
    /\ Alive /\ cancelled /\ listening
    /\ Unlisten
    /\ UNCHANGED <<main, cancelled, expired, waiter, early, requests, conns, shut>>

\* AcceptUnix fails because the listener is closed, or by itself.
AcceptFails ==
    /\ main = "accept"
    /\ IF cancelled
       THEN main' = "wait" /\ UNCHANGED <<listening, h>>
       ELSE main' = "failed" /\ Unlisten
    /\ UNCHANGED <<cancelled, expired, waiter, early, requests, conns, shut>>

-----------------------------------------------------------------------------
(* One handler *)

\* ReadRequest: maybe one of several requests that were read in one go, so a
\* closed connection does not prevent it.
ReadRequest(c) ==
    /\ Goes(c, "read", "asked")
    /\ \E k \in Kinds : kind' = [kind EXCEPT ![c] = k]
    /\ UNCHANGED <<main, serving, inflight, unlocked, conns, shut>>

\* A line that is no request is answered without dispatch.
ReadGarbage(c) ==
    /\ Goes(c, "read", "answer")
    /\ UNCHANGED <<main, serving, requests, conns, shut>>

\* The client hangs up, or Serve has closed the connection.
ReadFails(c) ==
    /\ Goes(c, "read", "ended")
    /\ UNCHANGED <<main, serving, requests, conns, shut>>

\* inflight.Add(1).
Count(c) ==
    /\ Goes(c, "asked", "counted")
    /\ inflight' = inflight + 1
    /\ UNCHANGED <<main, serving, kind, unlocked, conns, shut>>

\* RLock: not while the lock of the shutdown is announced.
With(c) ==
    /\ kind[c] \in {"read", "verify"} /\ main # "locking" /\ unlocked
    /\ Goes(c, "counted", "with")
    /\ UNCHANGED <<main, serving, requests, conns, shut>>

Locked(c) ==
    /\ kind[c] = "read" /\ main # "locking" /\ ~unlocked
    /\ Goes(c, "counted", "decided")
    /\ UNCHANGED <<main, serving, requests, conns, shut>>

EndWith(c) ==
    /\ Goes(c, "with", "decided")
    /\ UNCHANGED <<main, serving, requests, conns, shut>>

\* Session.Unlock, and then verifyIdentity, which is a reader ...
Unlock(c) ==
    /\ kind[c] = "unlock" /\ NoReaders
    /\ Goes(c, "counted", "counted")
    /\ unlocked' = TRUE
    /\ kind' = [kind EXCEPT ![c] = "verify"]
    /\ UNCHANGED <<main, serving, inflight, conns, shut>>

\* ... and on an error (locked by now, or a wrong identity) Session.Lock.
VerifyFails(c) ==
    /\ kind[c] = "verify"
    /\ \/ main # "locking" /\ ~unlocked /\ Goes(c, "counted", "counted")
       \/ Goes(c, "with", "counted")
    /\ kind' = [kind EXCEPT ![c] = "lock"]
    /\ UNCHANGED <<main, serving, inflight, unlocked, conns, shut>>

Lock(c) ==
    /\ kind[c] = "lock" /\ NoReaders
    /\ Goes(c, "counted", "decided")
    /\ unlocked' = FALSE
    /\ UNCHANGED <<main, serving, kind, inflight, conns, shut>>

\* inflight.Done(), which wakes the waiter when it was the last one.
Dispatched(c) ==
    /\ Goes(c, "decided", "answer")
    /\ inflight' = inflight - 1
    /\ waiter' = IF waiter = "waits" /\ inflight = 1 THEN "woken" ELSE waiter
    /\ UNCHANGED <<main, cancelled, listening, expired, early, kind, unlocked,
                   conns, shut>>

\* WriteResponse.  After an error the handler is done with its connection;
\* a response to garbage may be the last one, too.
WriteResponse(c) ==
    /\ \/ c \notin shut /\ Goes(c, "answer", "read")
       \/ Goes(c, "answer", "ended")
    /\ early' = early \ {c}
    /\ UNCHANGED <<main, cancelled, listening, expired, waiter, kind, inflight,
                   unlocked, conns, shut>>

\* The deferred conn.Close and track(conn, false).
EndHandler(c) ==
    /\ Goes(c, "ended", "away")
    /\ conns' = conns \ {c}
    /\ shut' = shut \ {c}
    /\ UNCHANGED <<main, serving, requests>>

Handle(c) ==
    \/ ReadRequest(c) \/ ReadGarbage(c) \/ ReadFails(c)
    \/ Count(c) \/ With(c) \/ Locked(c) \/ EndWith(c) \/ Unlock(c) \/ VerifyFails(c) \/ Lock(c)
    \/ Dispatched(c) \/ WriteResponse(c) \/ EndHandler(c)

-----------------------------------------------------------------------------
(* The shutdown *)

BeginWait ==
    /\ MainGoes("wait", "select")
    /\ waiter' = "begins"
    /\ early' = {c \in Conn : h[c] \in InCall}
    /\ UNCHANGED <<cancelled, listening, expired, requests, conns, shut, h>>

\* inflight.Wait(): the counter is looked at ...
WaitBegins ==
    /\ Alive /\ waiter = "begins"
    /\ waiter' = IF inflight = 0 THEN "done" ELSE "waits"
    /\ UNCHANGED <<main, cancelled, listening, expired, early, requests, conns, shut, h>>

\* ... and once more after it has been woken: the WaitGroup panics when the
\* counter has left zero before Wait returns.
WaitReturns ==
    /\ Alive /\ waiter = "woken"
    /\ waiter' = "done"
    /\ main' = IF inflight = 0 THEN main ELSE "panicked"
    /\ UNCHANGED <<cancelled, listening, expired, early, requests, conns, shut, h>>

\* A slip: nobody is waited for.
DrainNothing ==
    /\ MainGoes("select", "lock")
    /\ UNCHANGED <<serving, requests, conns, shut, h>>

Drained ==
    /\ MainGoes("select", "lock")
    /\ waiter = "done"
    /\ UNCHANGED <<serving, requests, conns, shut, h>>

GraceExpires ==
    /\ MainGoes("select", "lock")
    /\ expired' = TRUE
    /\ UNCHANGED <<cancelled, listening, waiter, early, requests, conns, shut, h>>

\* session.Lock(LockShutdown): announced, then alone.
AnnounceLock ==
    /\ MainGoes("lock", "locking")
    /\ UNCHANGED <<serving, requests, conns, shut, h>>

LockSession ==
    /\ MainGoes("locking", "close")
    /\ NoReaders
    /\ unlocked' = FALSE
    /\ UNCHANGED <<serving, kind, inflight, conns, shut, h>>

\* A slip: connections on which nothing happens are left alone.
CloseBusyConns ==
    /\ MainGoes("close", "join")
    /\ shut' = {c \in conns : h[c] # "read"}
    /\ UNCHANGED <<serving, requests, conns, h>>

CloseConns ==
    /\ MainGoes("close", "join")
    /\ shut' = conns
    /\ UNCHANGED <<serving, requests, conns, h>>

\* wg.Wait(), and the deferred ln.Close().
Join ==
    /\ MainGoes("join", "returned")
    /\ \A c \in Conn : h[c] \notin Handler
    /\ Unlisten
    /\ UNCHANGED <<cancelled, expired, waiter, early, requests, conns, shut>>

\* cmd/keycelld: the process ends with Serve.
Exit ==
    /\ main \in {"returned", "failed"}
    /\ main' = "exited"
    /\ UNCHANGED <<serving, requests, conns, shut, h>>

Shutdown ==
    \/ CloseListener \/ BeginWait \/ WaitBegins \/ WaitReturns \/ Drained
    \/ GraceExpires \/ AnnounceLock \/ LockSession \/ CloseConns \/ Join \/ Exit

Next ==
    \/ \E c \in Conn : Connect(c) \/ Accept(c) \/ Reject(c) \/ Handle(c)
    \/ Cancel \/ AcceptFails
    \/ Shutdown

Safety == Init /\ [][Next]_vars

\* Goroutines run, reads of a closed connection return, calls come to an end.
\* AcceptUnix fails once the listener is closed.
Fairness ==
    /\ WF_vars(Shutdown) /\ WF_vars(GraceExpires)
    /\ WF_vars(CloseListener) /\ WF_vars(~listening /\ AcceptFails)
    /\ \A c \in Conn : WF_vars(h[c] # "read" /\ Handle(c))
                       /\ WF_vars(c \in shut /\ ReadFails(c))

Spec == Safety /\ Fairness

-----------------------------------------------------------------------------
(* Properties *)

\* A request that ran when Serve began to wait has been decided when the
\* session is locked, unless the grace period has expired: no later request
\* makes the WaitGroup forget it.
EarlyCallsDecided ==
    main \in {"locking", "close", "join", "returned"} /\ ~expired
        => \A c \in early : h[c] \notin {"counted", "with"}

\* A cancelled server stops, whatever its clients do: neither an idle
\* connection nor a client that sends without end keeps it.
ShutdownEnds == cancelled ~> main \in {"returned", "failed"} \cup Over
=============================================================================

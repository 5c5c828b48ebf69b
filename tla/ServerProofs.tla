---------------------------- MODULE ServerProofs ----------------------------
(***************************************************************************)
(* Theorems about the server (internal/daemon/server.go).                  *)
(*                                                                         *)
(* Serve, for any number of connections: what the shutdown waits for is    *)
(* decided before it locks the session.  It rests on what the WaitGroup    *)
(* counts, and on who may still be counted once it has been waited for.    *)
(*                                                                         *)
(* Listen, for any number of daemons and starts, when somebody starts one  *)
(* daemon at a time: only then are the first two true (Listen, OneServes). *)
(***************************************************************************)
EXTENDS Serve, Listen, FiniteSetTheorems, TLAPS

USE ConnAssumption

-----------------------------------------------------------------------------
(* The inductive invariant *)

Calls == {c \in Conn : h[c] \in InCall}

\* The parts of TypeOK that matter here.
Types ==
    /\ h \in [Conn -> {"away", "pending"} \cup Handler]
    /\ early \subseteq Conn
    /\ expired \in BOOLEAN
    /\ waiter \in {"none", "begins", "waits", "woken", "done"}

\* The counter is the number of requests in flight.
Counted == inflight = Cardinality(Calls)

\* A request that was running when Serve began to wait is still running, or
\* its handler has its answer in hand; the next one is another request.
EarlyRuns == \A c \in early : h[c] \in InCall \cup {"answer"}

\* Once the counter has been zero, none of them runs any more, whatever has
\* been counted since.
EarlyWaitedFor == waiter \in {"woken", "done"} => \A c \in early : h[c] \notin InCall

\* Serve goes on when the waiter is done, or the grace period is over.
GoesOnDone ==
    main \in {"lock", "locking", "close", "join", "returned"} /\ ~expired => waiter = "done"

IInv == Types /\ Counted /\ EarlyRuns /\ EarlyWaitedFor /\ GoesOnDone

LEMMA InitIInv == Init => IInv
<1> SUFFICES ASSUME Init PROVE IInv
  OBVIOUS
<1>1. Calls = {}
  BY DEF Init, Calls, InCall
<1>2. Counted
  BY <1>1, FS_EmptySet DEF Init, Counted
<1> QED
  BY <1>2 DEF Init, IInv, Types, EarlyRuns, EarlyWaitedFor, GoesOnDone

-----------------------------------------------------------------------------
(* Counting *)

LEMMA CallsFinite == IsFiniteSet(Calls) /\ Cardinality(Calls) \in Nat
<1>1. Calls \subseteq Conn
  BY DEF Calls
<1> QED
  BY <1>1, FS_Subset, FS_CardinalityType

\* A zero counter: no request is in flight.
LEMMA ZeroIsNone ==
  ASSUME Counted, inflight = 0
  PROVE  Calls = {}
BY CallsFinite, FS_EmptySet DEF Counted

-----------------------------------------------------------------------------
(* Steps *)

\* One handler goes on, and nothing else changes.  It is in a call afterwards
\* if it was before; one that Serve waits for has come no further than its
\* answer, or Serve does not wait for it any more.
LEMMA HandlerMoves ==
  ASSUME IInv, NEW c \in Conn, NEW to \in {"away", "pending"} \cup Handler,
         h' = [h EXCEPT ![c] = to],
         h[c] \in InCall <=> to \in InCall,
         UNCHANGED <<main, inflight, expired, waiter>>,
         \/ early' = early /\ (c \in early => to \in InCall \cup {"answer"})
         \/ early' = early \ {c}
  PROVE  IInv'
<1>1. Types'
  BY DEF IInv, Types
<1>2. \A e \in Conn \ {c} : h'[e] = h[e]
  BY DEF IInv, Types
<1>3. h'[c] = to
  BY DEF IInv, Types
<1>4. Calls' = Calls
  BY <1>2, <1>3 DEF Calls
<1>5. Counted'
  BY <1>4 DEF IInv, Counted
<1>6. EarlyRuns' /\ EarlyWaitedFor'
  BY <1>2, <1>3 DEF IInv, Types, EarlyRuns, EarlyWaitedFor
<1>7. GoesOnDone'
  BY DEF IInv, GoesOnDone
<1> QED
  BY <1>1, <1>5, <1>6, <1>7 DEF IInv

\* Serve itself goes on, or connections nobody has accepted are dropped.
LEMMA ServeMoves ==
  ASSUME IInv, GoesOnDone', UNCHANGED <<inflight, early>>,
         expired' \in BOOLEAN,
         waiter' = waiter \/ (waiter = "woken" /\ waiter' = "done"),
         h' = h \/ h' = [c \in Conn |-> IF h[c] = "pending" THEN "away" ELSE h[c]]
  PROVE  IInv'
<1>1. Types'
  BY DEF IInv, Types
<1>2. \A c \in Conn : h'[c] = h[c] \/ (h[c] = "pending" /\ h'[c] = "away")
  BY DEF IInv, Types
<1>3. Calls' = Calls
  BY <1>2 DEF Calls, InCall
<1>4. Counted'
  BY <1>3 DEF IInv, Counted
<1>5. EarlyRuns' /\ EarlyWaitedFor'
  BY <1>2 DEF IInv, Types, EarlyRuns, EarlyWaitedFor, InCall
<1> QED
  BY <1>1, <1>4, <1>5 DEF IInv

LEMMA CountStep ==
  ASSUME IInv, NEW c \in Conn, Count(c)
  PROVE  IInv'
<1>1. /\ h[c] = "asked" /\ h' = [h EXCEPT ![c] = "counted"] /\ inflight' = inflight + 1
      /\ UNCHANGED <<main, expired, waiter, early>>
  BY DEF Count, Goes, serving
<1>2. Types'
  BY <1>1 DEF IInv, Types, Handler, InCall
<1>3. c \notin Calls /\ Calls' = Calls \cup {c}
  BY <1>1 DEF IInv, Types, Calls, InCall
<1>4. Counted'
  BY <1>1, <1>3, CallsFinite, FS_AddElement DEF IInv, Counted
<1>5. c \notin early
  BY <1>1 DEF IInv, EarlyRuns, InCall
<1>6. EarlyRuns' /\ EarlyWaitedFor' /\ GoesOnDone'
  BY <1>1, <1>5 DEF IInv, Types, EarlyRuns, EarlyWaitedFor, GoesOnDone
<1> QED
  BY <1>2, <1>4, <1>6 DEF IInv

\* The last one wakes the waiter: nobody is in a call at that moment.
LEMMA DispatchedStep ==
  ASSUME IInv, NEW c \in Conn, Dispatched(c)
  PROVE  IInv'
<1>1. /\ h[c] = "decided" /\ h' = [h EXCEPT ![c] = "answer"] /\ inflight' = inflight - 1
      /\ waiter' = IF waiter = "waits" /\ inflight = 1 THEN "woken" ELSE waiter
      /\ UNCHANGED <<main, expired, early>>
  BY DEF Dispatched, Goes
<1>2. Types'
  BY <1>1 DEF IInv, Types, Handler
<1>3. c \in Calls /\ Calls' = Calls \ {c}
  BY <1>1 DEF IInv, Types, Calls, InCall
<1>4. Counted'
  BY <1>1, <1>3, CallsFinite, FS_RemoveElement DEF IInv, Counted
<1>5. EarlyRuns' /\ GoesOnDone'
  BY <1>1 DEF IInv, Types, EarlyRuns, GoesOnDone
<1>6. EarlyWaitedFor'
  <2>1. CASE waiter = "waits" /\ inflight = 1
    <3>1. inflight' = 0
      BY <1>1, <2>1
    <3>2. IsFiniteSet(Calls')
      BY <1>3, CallsFinite, FS_RemoveElement
    <3>3. Calls' = {}
      BY <1>4, <3>1, <3>2, FS_EmptySet DEF Counted
    <3> QED
      BY <1>2, <3>3 DEF EarlyWaitedFor, Calls, Types
  <2>2. CASE ~(waiter = "waits" /\ inflight = 1)
    BY <1>1, <2>2 DEF IInv, Types, EarlyWaitedFor, InCall
  <2> QED
    BY <2>1, <2>2
<1> QED
  BY <1>2, <1>4, <1>5, <1>6 DEF IInv

\* Serve begins to wait for those that are in a call.
LEMMA BeginWaitStep ==
  ASSUME IInv, BeginWait
  PROVE  IInv'
<1>1. /\ main' = "select" /\ waiter' = "begins" /\ early' = {c \in Conn : h[c] \in InCall}
      /\ UNCHANGED <<h, inflight, expired>>
  BY DEF BeginWait, MainGoes, requests
<1> QED
  BY <1>1 DEF IInv, Types, Counted, Calls, EarlyRuns, EarlyWaitedFor, GoesOnDone

LEMMA WaitBeginsStep ==
  ASSUME IInv, WaitBegins
  PROVE  IInv'
<1>1. /\ waiter = "begins" /\ waiter' = IF inflight = 0 THEN "done" ELSE "waits"
      /\ UNCHANGED <<main, h, inflight, expired, early>>
  BY DEF WaitBegins, requests
<1>2. inflight = 0 => \A c \in early : h[c] \notin InCall
  BY ZeroIsNone DEF IInv, Types, Calls
<1>3. Types' /\ Counted' /\ EarlyRuns' /\ GoesOnDone'
  BY <1>1 DEF IInv, Types, Counted, Calls, EarlyRuns, GoesOnDone
<1>4. EarlyWaitedFor'
  BY <1>1, <1>2 DEF EarlyWaitedFor
<1> QED
  BY <1>3, <1>4 DEF IInv

LEMMA HandleStep ==
  ASSUME IInv, NEW c \in Conn, Connect(c) \/ Accept(c) \/ Reject(c) \/ Handle(c)
  PROVE  IInv'
<1>1. CASE Connect(c) \/ Accept(c) \/ Reject(c) \/ ReadRequest(c) \/ ReadGarbage(c)
           \/ ReadFails(c) \/ EndHandler(c)
  <2>1. /\ h[c] \notin InCall \cup {"answer"}
        /\ \E to \in ({"away", "pending"} \cup Handler) \ InCall : h' = [h EXCEPT ![c] = to]
        /\ UNCHANGED <<main, inflight, expired, waiter, early>>
    BY <1>1 DEF Connect, Accept, Reject, ReadRequest, ReadGarbage, ReadFails, EndHandler,
       Goes, serving, requests, Handler, InCall
  <2>2. c \notin early
    BY <2>1 DEF IInv, EarlyRuns
  <2> QED
    BY <2>1, <2>2, HandlerMoves
<1>2. CASE With(c) \/ Locked(c) \/ EndWith(c) \/ Unlock(c) \/ VerifyFails(c) \/ Lock(c)
  <2>1. /\ h[c] \in InCall
        /\ \E to \in InCall : h' = [h EXCEPT ![c] = to]
        /\ UNCHANGED <<main, inflight, expired, waiter, early>>
    BY <1>2 DEF With, Locked, EndWith, Unlock, VerifyFails, Lock, Goes, serving, requests,
       InCall
  <2> QED
    BY <2>1, HandlerMoves DEF Handler
<1>3. CASE WriteResponse(c)
  <2>1. /\ h[c] = "answer" /\ \E to \in {"read", "ended"} : h' = [h EXCEPT ![c] = to]
        /\ UNCHANGED <<main, inflight, expired, waiter>> /\ early' = early \ {c}
    BY <1>3 DEF WriteResponse, Goes
  <2> QED
    BY <2>1, HandlerMoves DEF Handler, InCall
<1> QED
  BY <1>1, <1>2, <1>3, CountStep, DispatchedStep DEF Handle

LEMMA ServeStep ==
  ASSUME IInv, Cancel \/ AcceptFails \/ Shutdown
  PROVE  IInv'
<1> USE DEF GoesOnDone, Unlisten, MainGoes, serving, requests
<1>0. GoesOnDone /\ expired \in BOOLEAN
  BY DEF IInv, Types
<1>1. CASE Cancel \/ CloseListener
  BY <1>0, <1>1, ServeMoves DEF Cancel, CloseListener
<1>2. CASE AcceptFails
  BY <1>0, <1>2, ServeMoves DEF AcceptFails
<1>3. CASE WaitReturns
  BY <1>0, <1>3, ServeMoves DEF WaitReturns
<1>4. CASE Drained \/ GraceExpires
  BY <1>0, <1>4, ServeMoves DEF Drained, GraceExpires
<1>5. CASE AnnounceLock \/ LockSession \/ CloseConns \/ Join \/ Exit
  BY <1>0, <1>5, ServeMoves DEF AnnounceLock, LockSession, CloseConns, Join, Exit
<1> QED
  BY <1>1, <1>2, <1>3, <1>4, <1>5, BeginWaitStep, WaitBeginsStep DEF Shutdown

LEMMA NextIInv == IInv /\ [Next]_vars => IInv'
<1>1. ASSUME IInv, UNCHANGED vars PROVE IInv'
  BY <1>1 DEF vars, IInv, Types, Counted, Calls, EarlyRuns, EarlyWaitedFor, GoesOnDone
<1> QED
  BY <1>1, HandleStep, ServeStep DEF Next

\* The inductive invariant holds in every state of every execution.
THEOREM InvariantHolds == Spec => []IInv
BY InitIInv, NextIInv, PTL DEF Spec, Safety

\* server.go:119: the grace period is for the requests that run when it
\* begins, and for any number of connections none of them is forgotten.
THEOREM WaitIsForAll == Spec => []EarlyCallsDecided
<1>1. IInv => EarlyCallsDecided
  BY DEF IInv, EarlyWaitedFor, GoesOnDone, EarlyCallsDecided, InCall
<1> QED
  BY <1>1, InvariantHolds, PTL

-----------------------------------------------------------------------------
(* Listen: the inductive invariant *)

USE SocketAssumption, SerialAssumption, StartsAssumption

OneStarts == \A d, e \in Daemon : pc[d] \in Starting /\ pc[e] \in Starting => d = e

\* A daemon that goes on after its dial has found nobody serving.
NobodyElseServes ==
    \A d, e \in Daemon : pc[d] \in {"remove", "bind", "listen", "chmod"} => pc[e] # "serving"

\* Whose socket is at the path, as a starting or a stopping daemon sees it.
PathIsOwn ==
    \A d \in Daemon :
        /\ pc[d] = "bind" => sock = NoSocket
        /\ pc[d] \in {"listen", "chmod"} => sock = d
        /\ pc[d] = "chmod" => d \in open
        /\ pc[d] = "unlinked" => sock # d

\* A start that meets no other process: the others are gone, a socket that
\* was there still is, and nothing has stopped the start.
AloneStarts ==
    \A d \in alone :
        /\ pc[d] \notin {"refused", "failed"}
        /\ pc[d] \in Starting => \A e \in Daemon \ {d} : pc[e] \in Ended
        /\ pc[d] \in {"dial", "remove"} => sock # NoSocket

PathIInv == ListenTypeOK /\ OneStarts /\ ServingReachable /\ NobodyElseServes /\ PathIsOwn /\ AloneStarts

-----------------------------------------------------------------------------
(* Listen: no step disturbs the invariant *)

LEMMA PathInitIInv == ListenInit => PathIInv
BY DEF ListenInit, PathIInv, ListenTypeOK, OneStarts, ServingReachable, NobodyElseServes, PathIsOwn,
   AloneStarts, Starting, Ended

LEMMA PathTypeStep == PathIInv /\ [ListenNext]_listenVars => ListenTypeOK'
<1> SUFFICES ASSUME PathIInv, [ListenNext]_listenVars PROVE ListenTypeOK'
  OBVIOUS
<1>0. ListenTypeOK
  BY DEF PathIInv
<1> USE DEF Starting, Ended
<1>1. CASE UNCHANGED listenVars
  BY <1>0, <1>1 DEF listenVars, ListenTypeOK
<1>2. ASSUME NEW d \in Daemon, Start(d) PROVE ListenTypeOK'
  BY <1>0, <1>2 DEF ListenTypeOK, Start
<1>3. ASSUME NEW d \in Daemon, Look(d) PROVE ListenTypeOK'
  BY <1>0, <1>3 DEF ListenTypeOK, Look
<1>4. ASSUME NEW d \in Daemon, Dial(d) PROVE ListenTypeOK'
  BY <1>0, <1>4 DEF ListenTypeOK, Dial
<1>5. ASSUME NEW d \in Daemon, Remove(d) PROVE ListenTypeOK'
  BY <1>0, <1>5 DEF ListenTypeOK, Remove
<1>6. ASSUME NEW d \in Daemon, Bind(d) PROVE ListenTypeOK'
  BY <1>0, <1>6 DEF ListenTypeOK, Bind
<1>7. ASSUME NEW d \in Daemon, ListenSocket(d) PROVE ListenTypeOK'
  BY <1>0, <1>7 DEF ListenTypeOK, ListenSocket, Goto
<1>8. ASSUME NEW d \in Daemon, Chmod(d) PROVE ListenTypeOK'
  BY <1>0, <1>8 DEF ListenTypeOK, Chmod
<1>9. ASSUME NEW d \in Daemon, Unlink(d) PROVE ListenTypeOK'
  BY <1>0, <1>9 DEF ListenTypeOK, Unlink, Goto
<1>10. ASSUME NEW d \in Daemon, CloseSocket(d) PROVE ListenTypeOK'
  BY <1>0, <1>10 DEF ListenTypeOK, CloseSocket, Goto
<1>11. ASSUME NEW d \in Daemon, Return(d) PROVE ListenTypeOK'
  BY <1>0, <1>11 DEF ListenTypeOK, Return, Goto
<1>12. ASSUME NEW d \in Daemon, Kill(d) PROVE ListenTypeOK'
  BY <1>0, <1>12 DEF ListenTypeOK, Kill
<1> QED
  BY <1>1, <1>2, <1>3, <1>4, <1>5, <1>6,
     <1>7, <1>8, <1>9, <1>10, <1>11, <1>12 DEF ListenNext

LEMMA PathNextIInv ==
  ASSUME Serial
  PROVE  PathIInv /\ [ListenNext]_listenVars => PathIInv'
<1> SUFFICES ASSUME PathIInv, [ListenNext]_listenVars PROVE PathIInv'
  OBVIOUS
<1>0. ListenTypeOK'
  BY PathTypeStep
<1> DEFINE Rest == OneStarts /\ ServingReachable /\ NobodyElseServes /\ PathIsOwn /\ AloneStarts
<1> SUFFICES Rest'
  BY <1>0 DEF PathIInv
<1>r. /\ ListenTypeOK /\ OneStarts /\ ServingReachable /\ NobodyElseServes /\ PathIsOwn
      /\ AloneStarts
  BY DEF PathIInv
<1> USE DEF OneStarts, ServingReachable, NobodyElseServes, PathIsOwn, AloneStarts, Starting,
     Ended
<1>1. CASE UNCHANGED listenVars
  BY <1>r, <1>1 DEF listenVars
<1>2. ASSUME NEW d \in Daemon, Start(d) PROVE Rest'
  BY <1>r, <1>2 DEF ListenTypeOK, Start
<1>3. ASSUME NEW d \in Daemon, Look(d) PROVE Rest'
  BY <1>r, <1>3 DEF ListenTypeOK, Look
<1>4. ASSUME NEW d \in Daemon, Dial(d) PROVE Rest'
  BY <1>r, <1>4 DEF ListenTypeOK, Dial, Answers
<1>5. ASSUME NEW d \in Daemon, Remove(d) PROVE Rest'
  BY <1>r, <1>5 DEF ListenTypeOK, Remove
<1>6. ASSUME NEW d \in Daemon, Bind(d) PROVE Rest'
  BY <1>r, <1>6 DEF ListenTypeOK, Bind
<1>7. ASSUME NEW d \in Daemon, ListenSocket(d) PROVE Rest'
  BY <1>r, <1>7 DEF ListenTypeOK, ListenSocket, Goto
<1>8. ASSUME NEW d \in Daemon, Chmod(d) PROVE Rest'
  BY <1>r, <1>8 DEF ListenTypeOK, Chmod
<1>9. ASSUME NEW d \in Daemon, Unlink(d) PROVE Rest'
  BY <1>r, <1>9 DEF ListenTypeOK, Unlink, Goto
<1>10. ASSUME NEW d \in Daemon, CloseSocket(d) PROVE Rest'
  BY <1>r, <1>10 DEF ListenTypeOK, CloseSocket, Goto
<1>11. ASSUME NEW d \in Daemon, Return(d) PROVE Rest'
  BY <1>r, <1>11 DEF ListenTypeOK, Return, Goto
<1>12. ASSUME NEW d \in Daemon, Kill(d) PROVE Rest'
  BY <1>r, <1>12 DEF ListenTypeOK, Kill
<1> QED
  BY <1>1, <1>2, <1>3, <1>4, <1>5, <1>6,
     <1>7, <1>8, <1>9, <1>10, <1>11, <1>12 DEF ListenNext

-----------------------------------------------------------------------------
(* Listen: the theorems *)

\* The inductive invariant holds in every state of every execution.
THEOREM PathInvariantHolds ==
  ASSUME Serial
  PROVE  ListenSpec => []PathIInv
<1>1. PathIInv /\ [ListenNext]_listenVars => PathIInv'
  BY PathNextIInv
<1> QED
  BY <1>1, PathInitIInv, PTL DEF ListenSpec

\* server.go:41, :94: neither the stale-socket check of a start nor the
\* unlinking of a stop takes the path away from a daemon that serves.
THEOREM ReachableWhileServing ==
  ASSUME Serial
  PROVE  ListenSpec => []ServingReachable
<1>1. PathIInv => ServingReachable
  BY DEF PathIInv
<1> QED
  BY <1>1, PathInvariantHolds, PTL

\* server.go:31: there is only one path, and whoever serves has it.
THEOREM OnlyOneServes ==
  ASSUME Serial
  PROVE  ListenSpec => []OneServes
<1>1. PathIInv => OneServes
  <2> SUFFICES ASSUME PathIInv PROVE OneServes
    OBVIOUS
  <2> DEFINE S == {d \in Daemon : pc[d] = "serving"}
  <2>1. S \subseteq {sock}
    BY DEF PathIInv, ServingReachable
  <2>2. IsFiniteSet({sock}) /\ Cardinality({sock}) = 1
    BY FS_Singleton
  <2>3. Cardinality(S) \in Nat /\ Cardinality(S) <= 1
    BY <2>1, <2>2, FS_Subset, FS_CardinalityType
  <2> QED
    BY <2>3 DEF OneServes
<1> QED
  BY <1>1, PathInvariantHolds, PTL

\* server.go:46: what a killed daemon leaves at the path is no obstacle to the
\* next start, however often that has happened.
THEOREM StartsSucceed == ListenSpec => []StaleSocketIsNoObstacle
<1>1. CASE Serial
  <2>1. PathIInv => StaleSocketIsNoObstacle
    BY DEF PathIInv, AloneStarts, StaleSocketIsNoObstacle
  <2> QED
    BY <1>1, <2>1, PathInvariantHolds, PTL
<1>2. CASE ~Serial
  <2>1. StaleSocketIsNoObstacle
    BY <1>2 DEF StaleSocketIsNoObstacle
  <2> QED
    BY <2>1, PTL
<1> QED
  BY <1>1, <1>2
=============================================================================

------------------------------- MODULE Session -------------------------------
(***************************************************************************)
(* The lock state of keycelld (internal/daemon/session.go).                *)
(*                                                                         *)
(* Goroutines of two kinds compete for one RWMutex: the request handlers   *)
(* in Thread, which call Unlock, Lock, Status and With, and the callbacks  *)
(* of the auto-lock timers.  The n-th successful Unlock arms the timer     *)
(* whose closure holds gen = n, so a timer, its callback goroutine and its *)
(* generation are all called n here.                                       *)
(*                                                                         *)
(* What runs under the write lock is one step: nothing else can look at    *)
(* the fields.  Getting there takes two more, announcing and draining the  *)
(* readers, and between them every other goroutine may move.               *)
(***************************************************************************)
EXTENDS Integers, FiniteSets, RWMutex

CONSTANTS Thread,       \* goroutines that handle requests
          Identity,     \* well-formed identities clients may send
          Nil,          \* a nil pointer, or an optional parameter left out
          DefaultFor,   \* NewSession's defaultFor, in ticks
          Durations,    \* the lockAfter values clients may pass, in ticks
          MaxGen,       \* bound: calls of Unlock that succeed
          MaxTime       \* bound: last tick of the clock

Gens == 1 .. MaxGen
Proc == Thread \cup Gens

ASSUME ThreadAssumption   == Thread \cap Int = {}
ASSUME FiniteAssumption   == IsFiniteSet(Thread)
ASSUME NilAssumption      == Nil \notin Identity \cup Int
ASSUME NoProcAssumption   == NoProc \notin Proc
ASSUME DurationAssumption == DefaultFor \in Int /\ Durations \subseteq Int
ASSUME BoundAssumption    == MaxGen \in Nat /\ MaxTime \in Nat

VARIABLES mu,           \* the RWMutex
          buf,          \* the identity in locked memory, or Nil
          id,           \* the parsed identity, or Nil
          timer,        \* the generation whose timer the field holds, 0 for nil
          locksAt,      \* 0 for the zero time
          gen,
          due,          \* when the runtime fires timer n
          live,         \* secmem buffers allocated and not yet destroyed
          now,          \* the clock
          pc,           \* where each goroutine is
          job,          \* the call each handler is in
          seen,         \* the identity With handed to the handler's fn
          ret,          \* what the handler's last call returned
          reason        \* the last transition as the daemon logs it

fields == <<buf, id, timer, locksAt, gen, due, reason>>
vars   == <<mu, fields, live, now, pc, job, seen, ret>>

Plain(op) == [op |-> op, id |-> Nil, d |-> 0]
NoJob   == Plain("none")
Jobs    == [op: {"none", "unlock", "lock", "with", "status"},
            id: Identity \cup {Nil}, d: Int]
Places  == {"idle", "rlock", "run", "wlock", "drain", "armed", "stopped", "done"}
Results == {"none", "ok", "locked", "rejected", "failed"}

TypeOK ==
    /\ mu \in RWMutexes(Proc)
    /\ buf \in Identity \cup {Nil}
    /\ id \in Identity \cup {Nil}
    /\ timer \in Gens \cup {0}
    /\ locksAt \in Nat
    /\ gen \in 0 .. MaxGen
    /\ due \in [Gens -> Nat]
    /\ live \in Int
    /\ now \in 0 .. MaxTime
    /\ pc \in [Proc -> Places]
    /\ job \in [Thread -> Jobs]
    /\ seen \in [Thread -> Identity \cup {Nil}]
    /\ ret \in [Thread -> Results]
    /\ reason \in {"start", "unlock", "manual", "auto"}

Init ==
    /\ mu = Unheld
    /\ buf = Nil /\ id = Nil
    /\ timer = 0 /\ locksAt = 0 /\ gen = 0
    /\ due = [g \in Gens |-> 0]
    /\ live = 0
    /\ now = 0
    /\ pc = [p \in Proc |-> "idle"]
    /\ job = [t \in Thread |-> NoJob]
    /\ seen = [t \in Thread |-> Nil]
    /\ ret = [t \in Thread |-> "none"]
    /\ reason = "start"

-----------------------------------------------------------------------------
(* Calls, returns and the read lock *)

Enter(t, j, at) ==
    /\ pc[t] = "idle"
    /\ pc' = [pc EXCEPT ![t] = at]
    /\ job' = [job EXCEPT ![t] = j]
    /\ ret' = [ret EXCEPT ![t] = "none"]

Leave(t, r) ==
    /\ job' = [job EXCEPT ![t] = NoJob]
    /\ seen' = [seen EXCEPT ![t] = Nil]
    /\ ret' = [ret EXCEPT ![t] = r]

Unlocking == {t \in Thread : job[t].op = "unlock"}

\* Unlock up to s.mu.Lock(): the identity parses, and is copied into a new
\* secmem buffer that nobody else knows yet.  MaxGen bounds the calls.
CallUnlock(t, i, lockAfter) ==
    /\ gen + Cardinality(Unlocking) < MaxGen
    /\ Enter(t, [op |-> "unlock", id |-> i,
                 d |-> IF lockAfter = Nil THEN DefaultFor ELSE lockAfter],
             "wlock")
    /\ live' = live + 1
    /\ UNCHANGED <<mu, fields, now, seen>>

\* Unlock returns early: the input is no identity, or locked memory is full.
RejectUnlock(t) ==
    /\ pc[t] = "idle"
    /\ ret' = [ret EXCEPT ![t] = "rejected"]
    /\ UNCHANGED <<mu, fields, live, now, pc, job, seen>>

CallLock(t) ==
    /\ Enter(t, Plain("lock"), "wlock")
    /\ UNCHANGED <<mu, fields, live, now, seen>>

\* With and Status call RLock(), which returns at once or queues the caller.
CallReader(t, op) ==
    /\ Enter(t, Plain(op), "rlock")
    /\ mu' = RLocked(mu, t)
    /\ UNCHANGED <<fields, live, now, seen>>

CallWith(t)   == CallReader(t, "with")
CallStatus(t) == CallReader(t, "status")

ReturnReader(t, r) ==
    /\ mu' = RUnlocked(mu, t)
    /\ pc' = [pc EXCEPT ![t] = "idle"]
    /\ Leave(t, r)
    /\ UNCHANGED <<fields, live, now>>

ReadStatus(t) ==
    /\ pc[t] = "rlock" /\ t \in mu.readers
    /\ job[t].op = "status"
    /\ ReturnReader(t, IF buf = Nil THEN "locked" ELSE "ok")

\* A slip to be caught: the early return forgets the read lock.
WithLockedKeepsReading(t) ==
    /\ pc[t] = "rlock" /\ t \in mu.readers
    /\ job[t].op = "with"
    /\ id = Nil
    /\ pc' = [pc EXCEPT ![t] = "idle"]
    /\ Leave(t, "locked")
    /\ UNCHANGED <<mu, fields, live, now>>

WithLocked(t) ==
    /\ pc[t] = "rlock" /\ t \in mu.readers
    /\ job[t].op = "with"
    /\ id = Nil
    /\ ReturnReader(t, "locked")

\* A slip: the identity is read under the lock and used after it.
WithRunsUnlocked(t) ==
    /\ pc[t] = "rlock" /\ t \in mu.readers
    /\ job[t].op = "with"
    /\ id # Nil
    /\ mu' = RUnlocked(mu, t)
    /\ pc' = [pc EXCEPT ![t] = "run"]
    /\ seen' = [seen EXCEPT ![t] = id]
    /\ UNCHANGED <<fields, live, now, job, ret>>

WithRuns(t) ==
    /\ pc[t] = "rlock" /\ t \in mu.readers
    /\ job[t].op = "with"
    /\ id # Nil
    /\ pc' = [pc EXCEPT ![t] = "run"]
    /\ seen' = [seen EXCEPT ![t] = id]
    /\ UNCHANGED <<mu, fields, live, now, job, ret>>

\* fn returns, with or without an error; the deferred RUnlock follows.
WithReturns(t, r) ==
    /\ pc[t] = "run"
    /\ ReturnReader(t, r)

-----------------------------------------------------------------------------
(* The write lock *)

Announce(p) ==
    /\ pc[p] = "wlock"
    /\ CanAnnounce(mu)
    /\ mu' = Announced(mu, p)
    /\ pc' = [pc EXCEPT ![p] = "drain"]
    /\ UNCHANGED <<fields, live, now, job, seen, ret>>

\* drop() stops the timer, which has no effect once its callback runs, ...
TimerStopped ==
    IF timer # 0 /\ pc[timer] = "armed"
    THEN [pc EXCEPT ![timer] = "stopped"] ELSE pc

\* ... and destroys the buffer.
BufferForgotten == live     \* a slip: the pointer goes, the memory stays
BufferDestroyed == IF buf = Nil THEN live ELSE live - 1

\* A slip: the announced lock time outlives the identity.
DropKeepingDeadline(why) ==
    /\ buf' = Nil /\ id' = Nil /\ timer' = 0
    /\ live' = BufferDestroyed
    /\ reason' = why
    /\ UNCHANGED <<locksAt, gen, due, now>>

Drop(why) ==
    /\ buf' = Nil /\ id' = Nil
    /\ timer' = 0 /\ locksAt' = 0
    /\ live' = BufferDestroyed
    /\ reason' = why
    /\ UNCHANGED <<gen, due, now>>

\* Whether the session is to lock by itself: zero, and whatever an overflow
\* made negative, means no.
Limited(d) == d > 0

UnlockBody(t) ==
    /\ pc[t] = "drain" /\ Owns(mu, t)
    /\ job[t].op = "unlock"
    /\ gen < MaxGen           \* never false: CallUnlock keeps the budget
    /\ buf' = job[t].id /\ id' = job[t].id
    /\ live' = BufferDestroyed
    /\ gen' = gen + 1
    /\ IF Limited(job[t].d)
       THEN /\ locksAt' = now + job[t].d
            /\ timer' = gen'
            /\ due' = [due EXCEPT ![gen'] = now + job[t].d]
            /\ pc' = [TimerStopped EXCEPT ![gen'] = "armed", ![t] = "idle"]
       ELSE /\ locksAt' = 0 /\ timer' = 0 /\ due' = due
            /\ pc' = [TimerStopped EXCEPT ![t] = "idle"]
    /\ reason' = "unlock"
    /\ mu' = Unlocked(mu)
    /\ Leave(t, "ok")
    /\ UNCHANGED now

LockBody(t) ==
    /\ pc[t] = "drain" /\ Owns(mu, t)
    /\ job[t].op = "lock"
    /\ IF buf = Nil
       THEN /\ pc' = [pc EXCEPT ![t] = "idle"]
            /\ UNCHANGED <<fields, live, now>>
       ELSE /\ pc' = [TimerStopped EXCEPT ![t] = "idle"]
            /\ Drop("manual")
    /\ mu' = Unlocked(mu)
    /\ Leave(t, "ok")

\* The generation a callback was armed for is still the current one.
AnySession(g)  == buf # Nil                  \* a slip: no generation
LastSession(g) == buf # Nil /\ gen = g - 1   \* a slip: captured before gen++
SameSession(g) == buf # Nil /\ gen = g

AutoLockBody(g) ==
    /\ pc[g] = "drain" /\ Owns(mu, g)
    /\ IF SameSession(g)
       THEN /\ pc' = [TimerStopped EXCEPT ![g] = "done"]
            /\ Drop("auto")
       ELSE /\ pc' = [pc EXCEPT ![g] = "done"]
            /\ UNCHANGED <<fields, live, now>>
    /\ mu' = Unlocked(mu)
    /\ UNCHANGED <<job, seen, ret>>

-----------------------------------------------------------------------------
(* The runtime: timers and time *)

\* time.AfterFunc starts the callback in a goroutine of its own.
TimerFires(g) ==
    /\ pc[g] = "armed"
    /\ due[g] <= now
    /\ pc' = [pc EXCEPT ![g] = "wlock"]
    /\ UNCHANGED <<mu, fields, live, now, job, seen, ret>>

Tick ==
    /\ now < MaxTime
    /\ now' = now + 1
    /\ UNCHANGED <<mu, fields, live, pc, job, seen, ret>>

-----------------------------------------------------------------------------

Call(t) ==
    \/ \E i \in Identity, d \in Durations \cup {Nil} : CallUnlock(t, i, d)
    \/ RejectUnlock(t)
    \/ CallLock(t)
    \/ CallWith(t)
    \/ CallStatus(t)

Step(t) ==
    \/ ReadStatus(t)
    \/ WithLocked(t)
    \/ WithRuns(t)
    \/ \E r \in {"ok", "failed"} : WithReturns(t, r)
    \/ UnlockBody(t)
    \/ LockBody(t)

Next ==
    \/ \E t \in Thread : Call(t) \/ Step(t)
    \/ \E p \in Proc : Announce(p)
    \/ \E g \in Gens : TimerFires(g) \/ AutoLockBody(g)
    \/ Tick

Safety == Init /\ [][Next]_vars

\* Goroutines that can go on are scheduled, and fn returns: it does file I/O
\* and no locking.  The inner mutex of the RWMutex goes into starvation mode,
\* so a writer that keeps asking gets it.  Timers fire and time passes.
\* Nothing obliges a client to call.
Fairness ==
    /\ \A t \in Thread : WF_vars(Step(t))
    /\ \A p \in Proc : SF_vars(Announce(p))
    /\ \A g \in Gens : WF_vars(TimerFires(g)) /\ WF_vars(AutoLockBody(g))
    /\ WF_vars(Tick)

Spec == Safety /\ Fairness

-----------------------------------------------------------------------------
(* Properties *)

\* session.go:34: a lock never interrupts a running request.  While fn runs,
\* the identity it was given is still the session's and still in locked
\* memory, however many unlocks, locks and timers wait for the mutex.
RunningKeepsIdentity ==
    \A t \in Thread : pc[t] = "run" => seen[t] # Nil /\ id = seen[t] /\ buf = id

\* A session that announces a lock time has the one timer that will keep the
\* promise: its own, armed for that very time or with its callback under way.
DeadlineHasTimer ==
    locksAt # 0 =>
        /\ buf # Nil
        /\ timer = gen
        /\ due[gen] = locksAt
        /\ pc[gen] \in {"armed", "wlock", "drain"}

\* No timer is forgotten: one that can still fire is the one in the field, so
\* the next drop() stops it.
OnlyOwnTimerArmed == \A g \in Gens : pc[g] = "armed" => g = timer

\* Locked memory holds the session's copy of the identity and those of
\* unlocks still waiting for the mutex; once locked and quiet, none is left.
NoBufferLeaks ==
    live = Cardinality(Unlocking) + (IF buf = Nil THEN 0 ELSE 1)

Promise == INSTANCE LockState WITH held <- id, deadline <- locksAt

\* The session implements LockState: in particular a timer replaced by a later
\* Unlock never locks the new session, and none locks it before its time.
KeepsPromise == Promise!Safety

\* With the runtime's fairness it also drops what is overdue.
KeepsPromiseAtLast == Promise!Spec

\* What keeps a goroutine in a call from its next step: the mutex.
CanStep(t) ==
    \/ pc[t] = "rlock" /\ t \in mu.readers /\ job[t].op \in {"with", "status"}
    \/ pc[t] = "run"
    \/ pc[t] = "drain" /\ Owns(mu, t) /\ job[t].op \in {"unlock", "lock"}

CanGoOn(p) ==
    \/ pc[p] = "wlock" /\ CanAnnounce(mu)
    \/ p \in Thread /\ CanStep(p)
    \/ p \in Gens /\ pc[p] = "drain" /\ Owns(mu, p)

InCall(p) == pc[p] \in {"rlock", "run", "wlock", "drain"}

\* session.go:149: readers queue behind a writer, which waits for earlier
\* readers; that never closes into a circle, and no early return keeps the
\* mutex.  While anybody is in a call, or any callback, somebody can go on.
NoDeadlock == (\E p \in Proc : InCall(p)) => \E p \in Proc : CanGoOn(p)

\* No call hangs: neither on readers that keep coming (a waiting writer stops
\* them) nor on writers (they hand over to the queued readers).
EveryCallReturns == \A t \in Thread : pc[t] # "idle" ~> pc[t] = "idle"

-----------------------------------------------------------------------------
(* The inductive invariant behind these properties, part by part *)

\* A writer past Announce holds the ticket, and only that writer does.
TicketHolder == \A p \in Proc : pc[p] = "drain" <=> mu.ticket = p

RunningReads == \A t \in Thread : pc[t] = "run" => t \in mu.readers

BufferIsIdentity == buf = id

\* Handlers and callbacks keep to their own program counters.
OwnSteps ==
    /\ \A t \in Thread : pc[t] \in {"idle", "rlock", "run", "wlock", "drain"}
    /\ \A g \in Gens : pc[g] \in {"idle", "armed", "stopped", "wlock", "drain", "done"}

UnlocksHaveIdentity == \A t \in Thread : job[t].op = "unlock" => job[t].id \in Identity

FutureTimersUnused == \A g \in Gens : g > gen => pc[g] = "idle"

\* The field holds a timer exactly while a lock time is announced.
TimerIffDeadline == timer # 0 <=> locksAt # 0

\* A callback is under way only once its time has come.
CallbacksAreDue == \A g \in Gens : pc[g] \in {"wlock", "drain"} => due[g] <= now

\* While the session a timer was armed for lasts, its lock time stands.
CurrentTimerCounts ==
    \A g \in Gens : (g = gen /\ buf # Nil /\ pc[g] \in {"armed", "wlock", "drain"})
                        => locksAt # 0

IInv ==
    /\ TypeOK
    /\ TicketHolder
    /\ RunningReads
    /\ BufferIsIdentity
    /\ RunningKeepsIdentity
    /\ OwnSteps
    /\ UnlocksHaveIdentity
    /\ FutureTimersUnused
    /\ TimerIffDeadline
    /\ DeadlineHasTimer
    /\ OnlyOwnTimerArmed
    /\ CallbacksAreDue
    /\ CurrentTimerCounts

\* What the mutex and the calls know of each other: who is in With or Status
\* reads or is queued, the queue is behind a writer, and nobody else is in it.
LockBooks ==
    /\ mu.readers \cap mu.queued = {}
    /\ mu.readers \cup mu.queued = {t \in Thread : pc[t] \in {"rlock", "run"}}
    /\ mu.queued # {} => mu.ticket # NoProc

CallsFit ==
    \A t \in Thread :
        /\ pc[t] \in {"rlock", "run"} => job[t].op \in {"with", "status"}
        /\ pc[t] \in {"wlock", "drain"} => job[t].op \in {"unlock", "lock"}
=============================================================================

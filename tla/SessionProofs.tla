---------------------------- MODULE SessionProofs ----------------------------
(***************************************************************************)
(* Theorems about Session for any number of handlers, identities, unlocks  *)
(* and ticks.  Everything rests on one inductive invariant, IInv.          *)
(***************************************************************************)
EXTENDS Session, FiniteSetTheorems, TLAPS

USE ThreadAssumption, NilAssumption, NoProcAssumption, DurationAssumption,
    BoundAssumption

\* A lock that nobody holds is a lock.
LEMMA MutexType ==
  ASSUME NEW P, NoProc \notin P, NEW m \in RWMutexes(P), NEW p \in P
  PROVE  /\ Unheld \in RWMutexes(P)
         /\ RLocked(m, p) \in RWMutexes(P)
         /\ RUnlocked(m, p) \in RWMutexes(P)
         /\ Announced(m, p) \in RWMutexes(P)
         /\ Unlocked(m) \in RWMutexes(P)
BY DEF RWMutexes, Unheld, RLocked, RUnlocked, Announced, Unlocked

\* What the operations do to each part of the lock.
LEMMA MutexParts ==
  ASSUME NEW P, NEW m \in RWMutexes(P), NEW p \in P
  PROVE  /\ RLocked(m, p).ticket = m.ticket
         /\ m.readers \subseteq RLocked(m, p).readers
         /\ RUnlocked(m, p).ticket = m.ticket
         /\ RUnlocked(m, p).readers = m.readers \ {p}
         /\ Announced(m, p).ticket = p
         /\ Announced(m, p).readers = m.readers
         /\ Unlocked(m).ticket = NoProc
         /\ Unlocked(m).readers = m.queued
BY DEF RWMutexes, RLocked, RUnlocked, Announced, Unlocked

\* The initial state is in the invariant.
LEMMA InitIInv == Init => IInv
BY DEF Init, IInv, TypeOK, TicketHolder, RunningReads, BufferIsIdentity,
  RunningKeepsIdentity, OwnSteps, UnlocksHaveIdentity, FutureTimersUnused,
  TimerIffDeadline, DeadlineHasTimer, OnlyOwnTimerArmed, CallbacksAreDue,
  CurrentTimerCounts, Unheld, RWMutexes, Proc, Gens,
  Jobs, Plain, NoJob, Places, Results

\* Handlers are not timers.
LEMMA ThreadsAreNotTimers ==
  /\ Thread \subseteq Proc /\ Gens \subseteq Proc
  /\ \A t \in Thread : t \notin Int
  /\ Gens \subseteq Nat \ {0}
  /\ Nil \notin Identity /\ NoProc \notin Proc
BY DEF Proc, Gens

\* The parts of the invariant that a step leaving the fields, the clock and
\* the callbacks alone cannot disturb.
LEMMA FieldsUnchanged ==
  ASSUME IInv, UNCHANGED <<buf, id, timer, locksAt, gen, due, now>>,
         \A g \in Gens : pc'[g] = pc[g]
  PROVE  /\ BufferIsIdentity'
         /\ FutureTimersUnused'
         /\ TimerIffDeadline'
         /\ DeadlineHasTimer'
         /\ OnlyOwnTimerArmed'
         /\ CallbacksAreDue'
         /\ CurrentTimerCounts'
<1>1. /\ BufferIsIdentity /\ FutureTimersUnused /\ TimerIffDeadline
      /\ DeadlineHasTimer /\ OnlyOwnTimerArmed /\ CallbacksAreDue
      /\ CurrentTimerCounts /\ timer \in Gens \cup {0} /\ locksAt \in Nat
  BY DEF IInv, TypeOK
<1>2. locksAt # 0 => gen \in Gens
  BY <1>1, ThreadsAreNotTimers DEF DeadlineHasTimer, TimerIffDeadline
<1> QED
  BY <1>1, <1>2 DEF BufferIsIdentity, FutureTimersUnused, TimerIffDeadline,
     DeadlineHasTimer, OnlyOwnTimerArmed, CallbacksAreDue, CurrentTimerCounts

\* A handler that enters a call for the write lock.
LEMMA EnterWriter ==
  ASSUME IInv, NEW t \in Thread, NEW j \in Jobs, Enter(t, j, "wlock"),
         j.op = "unlock" => j.id \in Identity,
         live' \in Int, UNCHANGED <<mu, fields, now, seen>>
  PROVE  IInv'
<1>1. /\ pc' = [pc EXCEPT ![t] = "wlock"] /\ pc[t] = "idle"
      /\ job' = [job EXCEPT ![t] = j] /\ ret' = [ret EXCEPT ![t] = "none"]
  BY DEF Enter
<1>2. TypeOK'
  BY <1>1, ThreadsAreNotTimers DEF IInv, TypeOK, fields, Places, Results
<1>3. TicketHolder' /\ RunningReads' /\ RunningKeepsIdentity' /\ OwnSteps'
  BY <1>1, ThreadsAreNotTimers DEF IInv, TypeOK, fields, TicketHolder,
     RunningReads, RunningKeepsIdentity, OwnSteps
<1>4. UnlocksHaveIdentity'
  BY <1>1 DEF IInv, TypeOK, UnlocksHaveIdentity
<1>5. \A g \in Gens : pc'[g] = pc[g]
  BY <1>1, ThreadsAreNotTimers DEF IInv, TypeOK
<1> QED
  BY <1>2, <1>3, <1>4, <1>5, FieldsUnchanged DEF fields, IInv

\* A handler that asks for the read lock.
LEMMA EnterReader ==
  ASSUME IInv, NEW t \in Thread, NEW op \in {"with", "status"}, CallReader(t, op)
  PROVE  IInv'
<1>1. /\ pc' = [pc EXCEPT ![t] = "rlock"] /\ pc[t] = "idle"
      /\ job' = [job EXCEPT ![t] = Plain(op)]
      /\ ret' = [ret EXCEPT ![t] = "none"]
      /\ mu' = RLocked(mu, t)
      /\ UNCHANGED <<buf, id, timer, locksAt, gen, due, reason, live, now, seen>>
  BY DEF CallReader, Enter, fields
<1>2. mu \in RWMutexes(Proc) /\ t \in Proc
  BY ThreadsAreNotTimers DEF IInv, TypeOK
<1>3. /\ mu' \in RWMutexes(Proc)
      /\ mu'.ticket = mu.ticket /\ mu.readers \subseteq mu'.readers
  BY <1>1, <1>2, MutexType, MutexParts
<1>4. Plain(op) \in Jobs /\ Plain(op).op # "unlock"
  BY DEF Jobs, Plain
<1>5. TypeOK'
  BY <1>1, <1>3, <1>4, ThreadsAreNotTimers DEF IInv, TypeOK, Places, Results
<1>6. TicketHolder' /\ RunningReads' /\ RunningKeepsIdentity' /\ OwnSteps'
  BY <1>1, <1>3, ThreadsAreNotTimers DEF IInv, TypeOK, TicketHolder,
     RunningReads, RunningKeepsIdentity, OwnSteps
<1>7. UnlocksHaveIdentity'
  BY <1>1, <1>4 DEF IInv, TypeOK, UnlocksHaveIdentity
<1>8. \A g \in Gens : pc'[g] = pc[g]
  BY <1>1, ThreadsAreNotTimers DEF IInv, TypeOK
<1> QED
  BY <1>1, <1>5, <1>6, <1>7, <1>8, FieldsUnchanged DEF IInv

\* A handler that gives the read lock back.
LEMMA LeaveReader ==
  ASSUME IInv, NEW t \in Thread, NEW r \in Results, ReturnReader(t, r),
         pc[t] # "drain"
  PROVE  IInv'
<1>1. /\ pc' = [pc EXCEPT ![t] = "idle"]
      /\ job' = [job EXCEPT ![t] = NoJob]
      /\ seen' = [seen EXCEPT ![t] = Nil]
      /\ ret' = [ret EXCEPT ![t] = r]
      /\ mu' = RUnlocked(mu, t)
      /\ UNCHANGED <<buf, id, timer, locksAt, gen, due, reason, live, now>>
  BY DEF ReturnReader, Leave, fields
<1>2. mu \in RWMutexes(Proc) /\ t \in Proc
  BY ThreadsAreNotTimers DEF IInv, TypeOK
<1>3. /\ mu' \in RWMutexes(Proc)
      /\ mu'.ticket = mu.ticket /\ mu'.readers = mu.readers \ {t}
  BY <1>1, <1>2, MutexType, MutexParts
<1>4. NoJob \in Jobs /\ NoJob.op # "unlock"
  BY DEF Jobs, NoJob, Plain
<1>5. TypeOK'
  BY <1>1, <1>3, <1>4, ThreadsAreNotTimers DEF IInv, TypeOK, Places
<1>6. TicketHolder'
  BY <1>1, <1>3, ThreadsAreNotTimers DEF IInv, TypeOK, TicketHolder
<1>7. RunningReads' /\ RunningKeepsIdentity' /\ OwnSteps'
  BY <1>1, <1>3, ThreadsAreNotTimers DEF IInv, TypeOK,
     RunningReads, RunningKeepsIdentity, OwnSteps
<1>8. UnlocksHaveIdentity'
  BY <1>1, <1>4 DEF IInv, TypeOK, UnlocksHaveIdentity
<1>9. \A g \in Gens : pc'[g] = pc[g]
  BY <1>1, ThreadsAreNotTimers DEF IInv, TypeOK
<1> QED
  BY <1>1, <1>5, <1>6, <1>7, <1>8, <1>9, FieldsUnchanged DEF IInv

\* A handler whose fn starts: it reads, so no writer is at work.
LEMMA StartRunning ==
  ASSUME IInv, NEW t \in Thread, WithRuns(t)
  PROVE  IInv'
<1>1. /\ pc' = [pc EXCEPT ![t] = "run"] /\ pc[t] = "rlock"
      /\ t \in mu.readers /\ id # Nil
      /\ seen' = [seen EXCEPT ![t] = id]
      /\ UNCHANGED <<mu, buf, id, timer, locksAt, gen, due, reason, live, now, job, ret>>
  BY DEF WithRuns, fields
<1>2. TypeOK'
  BY <1>1, ThreadsAreNotTimers DEF IInv, TypeOK, Places
<1>3. TicketHolder' /\ RunningReads' /\ OwnSteps' /\ UnlocksHaveIdentity'
  BY <1>1, ThreadsAreNotTimers DEF IInv, TypeOK, TicketHolder,
     RunningReads, OwnSteps, UnlocksHaveIdentity
<1>4. RunningKeepsIdentity'
  BY <1>1, ThreadsAreNotTimers DEF IInv, TypeOK, RunningKeepsIdentity, BufferIsIdentity
<1>5. \A g \in Gens : pc'[g] = pc[g]
  BY <1>1, ThreadsAreNotTimers DEF IInv, TypeOK
<1> QED
  BY <1>1, <1>2, <1>3, <1>4, <1>5, FieldsUnchanged DEF IInv

\* A writer, handler or callback, that takes the ticket.
LEMMA TakeTicket ==
  ASSUME IInv, NEW p \in Proc, Announce(p)
  PROVE  IInv'
<1>1. /\ pc' = [pc EXCEPT ![p] = "drain"] /\ pc[p] = "wlock"
      /\ mu.ticket = NoProc /\ mu' = Announced(mu, p)
      /\ UNCHANGED <<buf, id, timer, locksAt, gen, due, reason, live, now, job, seen, ret>>
  BY DEF Announce, CanAnnounce, fields
<1>2. /\ mu' \in RWMutexes(Proc)
      /\ mu'.ticket = p /\ mu'.readers = mu.readers
  BY <1>1, MutexType, MutexParts DEF IInv, TypeOK
<1>3. TypeOK'
  BY <1>1, <1>2 DEF IInv, TypeOK, Places
<1>4. TicketHolder'
  BY <1>1, <1>2, ThreadsAreNotTimers DEF IInv, TypeOK, TicketHolder
<1>5. RunningReads' /\ RunningKeepsIdentity' /\ OwnSteps'
  BY <1>1, <1>2, ThreadsAreNotTimers DEF IInv, TypeOK, RunningReads,
     RunningKeepsIdentity, OwnSteps
<1>6. /\ UnlocksHaveIdentity' /\ BufferIsIdentity' /\ FutureTimersUnused'
      /\ TimerIffDeadline' /\ OnlyOwnTimerArmed'
  BY <1>1, ThreadsAreNotTimers DEF IInv, TypeOK, UnlocksHaveIdentity,
     BufferIsIdentity, FutureTimersUnused, TimerIffDeadline, OnlyOwnTimerArmed
<1>7. DeadlineHasTimer'
  BY <1>1, ThreadsAreNotTimers DEF IInv, TypeOK, DeadlineHasTimer
<1>8. CallbacksAreDue' /\ CurrentTimerCounts'
  BY <1>1 DEF IInv, TypeOK, CallbacksAreDue, CurrentTimerCounts
<1> QED
  BY <1>3, <1>4, <1>5, <1>6, <1>7, <1>8 DEF IInv

\* A timer whose time has come.
LEMMA FireTimer ==
  ASSUME IInv, NEW g \in Gens, TimerFires(g)
  PROVE  IInv'
<1>1. /\ pc' = [pc EXCEPT ![g] = "wlock"] /\ pc[g] = "armed" /\ due[g] <= now
      /\ UNCHANGED <<mu, buf, id, timer, locksAt, gen, due, reason, live, now, job, seen, ret>>
  BY DEF TimerFires, fields
<1>2. TypeOK'
  BY <1>1, ThreadsAreNotTimers DEF IInv, TypeOK, Places
<1>3. TicketHolder' /\ RunningReads' /\ RunningKeepsIdentity' /\ OwnSteps'
  BY <1>1, ThreadsAreNotTimers DEF IInv, TypeOK, TicketHolder, RunningReads,
     RunningKeepsIdentity, OwnSteps
<1>4. /\ UnlocksHaveIdentity' /\ BufferIsIdentity' /\ FutureTimersUnused'
      /\ TimerIffDeadline' /\ OnlyOwnTimerArmed'
  BY <1>1, ThreadsAreNotTimers DEF IInv, TypeOK, UnlocksHaveIdentity,
     BufferIsIdentity, FutureTimersUnused, TimerIffDeadline, OnlyOwnTimerArmed
<1>5. DeadlineHasTimer'
  BY <1>1, ThreadsAreNotTimers DEF IInv, TypeOK, DeadlineHasTimer
<1>6. CallbacksAreDue' /\ CurrentTimerCounts'
  BY <1>1, ThreadsAreNotTimers DEF IInv, TypeOK, CallbacksAreDue, CurrentTimerCounts
<1> QED
  BY <1>2, <1>3, <1>4, <1>5, <1>6 DEF IInv

\* Time passes.
LEMMA PassTime == IInv /\ Tick => IInv'
<1> SUFFICES ASSUME IInv, Tick PROVE IInv'
  OBVIOUS
<1>1. /\ now < MaxTime /\ now' = now + 1
      /\ UNCHANGED <<mu, buf, id, timer, locksAt, gen, due, reason, live, pc, job, seen, ret>>
  BY DEF Tick, fields
<1>2. TypeOK'
  BY <1>1 DEF IInv, TypeOK
<1>3. CallbacksAreDue'
  BY <1>1 DEF IInv, TypeOK, CallbacksAreDue
<1>4. /\ TicketHolder' /\ RunningReads' /\ RunningKeepsIdentity' /\ OwnSteps'
      /\ UnlocksHaveIdentity' /\ BufferIsIdentity' /\ FutureTimersUnused'
      /\ TimerIffDeadline' /\ OnlyOwnTimerArmed' /\ DeadlineHasTimer'
      /\ CurrentTimerCounts'
  BY <1>1 DEF IInv, TicketHolder, RunningReads, RunningKeepsIdentity, OwnSteps,
     UnlocksHaveIdentity, BufferIsIdentity, FutureTimersUnused,
     TimerIffDeadline, OnlyOwnTimerArmed, DeadlineHasTimer, CurrentTimerCounts
<1> QED
  BY <1>2, <1>3, <1>4 DEF IInv

\* The owner of the write lock is alone: no fn runs, no other writer is in.
LEMMA OwnerIsAlone ==
  ASSUME IInv, NEW p \in Proc, Owns(mu, p)
  PROVE  /\ \A t \in Thread : pc[t] # "run"
         /\ \A q \in Proc : pc[q] = "drain" <=> q = p
         /\ Unlocked(mu) \in RWMutexes(Proc)
         /\ Unlocked(mu).ticket = NoProc
BY MutexType, MutexParts
   DEF Owns, IInv, TypeOK, TicketHolder, RunningReads, RunningKeepsIdentity

\* What stopping the timer in the field does to the goroutines.
LEMMA StopTimer ==
  ASSUME IInv
  PROVE  /\ TimerStopped \in [Proc -> Places]
         /\ \A p \in Proc :
               TimerStopped[p] = IF p = timer /\ pc[p] = "armed"
                                 THEN "stopped" ELSE pc[p]
<1>1. /\ pc \in [Proc -> Places] /\ timer \in Gens \cup {0}
  BY DEF IInv, TypeOK
<1>2. 0 \notin Proc
  BY ThreadsAreNotTimers DEF Proc
<1>3. CASE timer # 0 /\ pc[timer] = "armed"
  <2>1. timer \in Proc
    BY <1>1, <1>3, ThreadsAreNotTimers
  <2>2. TimerStopped = [pc EXCEPT ![timer] = "stopped"]
    BY <1>3 DEF TimerStopped
  <2> QED
    BY <1>1, <1>3, <2>1, <2>2 DEF Places
<1>4. CASE ~(timer # 0 /\ pc[timer] = "armed")
  <2>1. TimerStopped = pc
    BY <1>4 DEF TimerStopped
  <2> QED
    BY <1>1, <1>2, <1>4, <2>1
<1> QED
  BY <1>3, <1>4

\* The session lets go: a lock request or the session's own callback.
LEMMA DropStep ==
  ASSUME IInv, NEW p \in Proc, pc[p] = "drain", Owns(mu, p),
         NEW why \in {"manual", "auto"}, Drop(why),
         NEW place \in {"idle", "done"},
         place = IF p \in Thread THEN "idle" ELSE "done",
         pc' = [TimerStopped EXCEPT ![p] = place],
         mu' = Unlocked(mu),
         job' \in [Thread -> Jobs], seen' \in [Thread -> Identity \cup {Nil}],
         ret' \in [Thread -> Results],
         \A t \in Thread : job'[t] = job[t] \/ job'[t] = NoJob
  PROVE  IInv'
<1>1. /\ buf' = Nil /\ id' = Nil /\ timer' = 0 /\ locksAt' = 0
      /\ live' = BufferDestroyed /\ reason' = why
      /\ gen' = gen /\ due' = due /\ now' = now
  BY DEF Drop
<1>2. /\ pc' \in [Proc -> Places]
      /\ \A q \in Proc : pc'[q] = IF q = p THEN place
                                  ELSE IF q = timer /\ pc[q] = "armed"
                                       THEN "stopped" ELSE pc[q]
  BY StopTimer DEF Places
<1>3. /\ \A t \in Thread : pc[t] # "run"
      /\ \A q \in Proc : pc[q] = "drain" <=> q = p
      /\ mu' \in RWMutexes(Proc) /\ mu'.ticket = NoProc
  BY OwnerIsAlone
<1>4. TypeOK'
  BY <1>1, <1>2, <1>3 DEF IInv, TypeOK, BufferDestroyed
<1>5. TicketHolder' /\ RunningReads' /\ RunningKeepsIdentity'
  BY <1>2, <1>3, ThreadsAreNotTimers DEF TicketHolder, RunningReads, RunningKeepsIdentity
<1>6. OwnSteps'
  BY <1>2, ThreadsAreNotTimers DEF IInv, TypeOK, OwnSteps, Proc
<1>7. UnlocksHaveIdentity'
  BY DEF IInv, UnlocksHaveIdentity, NoJob, Plain
<1>8. BufferIsIdentity' /\ TimerIffDeadline' /\ DeadlineHasTimer' /\ CurrentTimerCounts'
  BY <1>1 DEF BufferIsIdentity, TimerIffDeadline, DeadlineHasTimer, CurrentTimerCounts
<1>9. OnlyOwnTimerArmed'
  BY <1>1, <1>2, ThreadsAreNotTimers DEF IInv, OnlyOwnTimerArmed
<1>10. CallbacksAreDue'
  BY <1>1, <1>2, ThreadsAreNotTimers DEF IInv, CallbacksAreDue
<1>11. FutureTimersUnused'
  <2> SUFFICES ASSUME NEW g \in Gens, g > gen PROVE pc'[g] = "idle"
    BY <1>1 DEF FutureTimersUnused
  <2>1. pc[g] = "idle"
    BY DEF IInv, FutureTimersUnused
  <2> QED
    BY <1>2, <2>1, ThreadsAreNotTimers
<1> QED
  BY <1>4, <1>5, <1>6, <1>7, <1>8, <1>9, <1>10, <1>11 DEF IInv

\* The lock passes on and nothing else happens: there was nothing to drop.
LEMMA NothingToDrop ==
  ASSUME IInv, NEW p \in Proc, pc[p] = "drain", Owns(mu, p),
         NEW place \in {"idle", "done"},
         place = IF p \in Thread THEN "idle" ELSE "done",
         pc' = [pc EXCEPT ![p] = place],
         mu' = Unlocked(mu),
         UNCHANGED <<fields, live, now>>,
         job' \in [Thread -> Jobs], seen' \in [Thread -> Identity \cup {Nil}],
         ret' \in [Thread -> Results],
         \A t \in Thread : job'[t] = job[t] \/ job'[t] = NoJob,
         p \in Thread \/ buf = Nil \/ gen # p
  PROVE  IInv'
<1>1. UNCHANGED <<buf, id, timer, locksAt, gen, due, reason, live, now>>
  BY DEF fields
<1>2. /\ pc' \in [Proc -> Places]
      /\ \A q \in Proc : pc'[q] = IF q = p THEN place ELSE pc[q]
  BY DEF IInv, TypeOK, Places
<1>3. /\ \A t \in Thread : pc[t] # "run"
      /\ \A q \in Proc : pc[q] = "drain" <=> q = p
      /\ mu' \in RWMutexes(Proc) /\ mu'.ticket = NoProc
  BY OwnerIsAlone
<1>4. TypeOK'
  BY <1>1, <1>2, <1>3 DEF IInv, TypeOK
<1>5. TicketHolder' /\ RunningReads' /\ RunningKeepsIdentity'
  BY <1>2, <1>3, ThreadsAreNotTimers DEF TicketHolder, RunningReads, RunningKeepsIdentity
<1>6. OwnSteps'
  BY <1>2, ThreadsAreNotTimers DEF IInv, TypeOK, OwnSteps, Proc
<1>7. UnlocksHaveIdentity'
  BY DEF IInv, UnlocksHaveIdentity, NoJob, Plain
<1>8. BufferIsIdentity' /\ TimerIffDeadline'
  BY <1>1 DEF IInv, BufferIsIdentity, TimerIffDeadline
<1>9. /\ OnlyOwnTimerArmed' /\ CallbacksAreDue' /\ CurrentTimerCounts'
  BY <1>1, <1>2, ThreadsAreNotTimers
     DEF IInv, OnlyOwnTimerArmed, CallbacksAreDue, CurrentTimerCounts
<1>10. FutureTimersUnused'
  <2> SUFFICES ASSUME NEW g \in Gens, g > gen PROVE pc'[g] = "idle"
    BY <1>1 DEF FutureTimersUnused
  <2>1. pc[g] = "idle"
    BY DEF IInv, FutureTimersUnused
  <2> QED
    BY <1>2, <2>1, ThreadsAreNotTimers
<1>11. DeadlineHasTimer'
  <2> SUFFICES ASSUME locksAt # 0 PROVE DeadlineHasTimer'
    BY <1>1 DEF DeadlineHasTimer
  <2>1. /\ buf # Nil /\ timer = gen /\ due[gen] = locksAt
        /\ pc[gen] \in {"armed", "wlock", "drain"} /\ gen \in Gens
    BY DEF IInv, TypeOK, DeadlineHasTimer, TimerIffDeadline
  <2>2. gen # p
    BY <2>1, ThreadsAreNotTimers
  <2> QED
    BY <1>1, <1>2, <2>1, <2>2, ThreadsAreNotTimers DEF DeadlineHasTimer
<1> QED
  BY <1>4, <1>5, <1>6, <1>7, <1>8, <1>9, <1>10, <1>11 DEF IInv

\* A new identity is installed: it replaces the old one and its timer.
LEMMA InstallIdentity ==
  ASSUME IInv, NEW t \in Thread, UnlockBody(t)
  PROVE  IInv'
<1> DEFINE armed == Limited(job[t].d)
           next  == gen + 1
<1>1. /\ pc[t] = "drain" /\ Owns(mu, t) /\ t \in Proc
      /\ gen < MaxGen /\ gen' = next
      /\ buf' = job[t].id /\ id' = job[t].id
      /\ mu' = Unlocked(mu) /\ now' = now /\ reason' = "unlock"
      /\ job[t] \in Jobs /\ job[t].id \in Identity
      /\ job' = [job EXCEPT ![t] = NoJob]
      /\ seen' = [seen EXCEPT ![t] = Nil] /\ ret' = [ret EXCEPT ![t] = "ok"]
      /\ live' = BufferDestroyed
  BY ThreadsAreNotTimers DEF UnlockBody, Leave, IInv, TypeOK, UnlocksHaveIdentity
<1>2. /\ next \in Gens /\ next \in Proc /\ gen \in Nat /\ t # next
      /\ next # 0 /\ job[t].d \in Int /\ now \in Nat
  BY <1>1, ThreadsAreNotTimers DEF IInv, TypeOK, Gens, Jobs
<1>3. /\ \A u \in Thread : pc[u] # "run"
      /\ \A q \in Proc : pc[q] = "drain" <=> q = t
      /\ mu' \in RWMutexes(Proc) /\ mu'.ticket = NoProc
  BY <1>1, OwnerIsAlone
<1>4. pc[next] = "idle" /\ timer # next
  <2>1. pc[next] = "idle"
    BY <1>2 DEF IInv, FutureTimersUnused
  <2>2. timer = 0 \/ timer = gen
    BY DEF IInv, TimerIffDeadline, DeadlineHasTimer
  <2> QED
    BY <1>2, <2>1, <2>2
<1>5. CASE armed
  <2>1. /\ locksAt' = now + job[t].d /\ timer' = next
        /\ due' = [due EXCEPT ![next] = now + job[t].d]
        /\ pc' = [TimerStopped EXCEPT ![next] = "armed", ![t] = "idle"]
    BY <1>1, <1>5 DEF UnlockBody
  <2>2. now + job[t].d \in Nat \ {0}
    BY <1>2, <1>5 DEF Limited
  <2>3. /\ pc' \in [Proc -> Places]
        /\ \A q \in Proc : pc'[q] = IF q = t THEN "idle"
                                    ELSE IF q = next THEN "armed"
                                    ELSE IF q = timer /\ pc[q] = "armed"
                                         THEN "stopped" ELSE pc[q]
    BY <1>1, <1>2, <2>1, StopTimer DEF Places
  <2>4. TypeOK'
    BY <1>1, <1>2, <1>3, <2>1, <2>2, <2>3
       DEF IInv, TypeOK, BufferDestroyed, NoJob, Plain, Jobs, Results, Gens
  <2>5. TicketHolder' /\ RunningReads' /\ RunningKeepsIdentity'
    BY <1>1, <1>2, <1>3, <2>3, ThreadsAreNotTimers
       DEF TicketHolder, RunningReads, RunningKeepsIdentity
  <2>6. OwnSteps'
    BY <1>2, <2>3, ThreadsAreNotTimers DEF IInv, TypeOK, OwnSteps
  <2>7. UnlocksHaveIdentity'
    BY <1>1 DEF IInv, TypeOK, UnlocksHaveIdentity, NoJob, Plain
  <2>8. BufferIsIdentity' /\ TimerIffDeadline'
    BY <1>1, <1>2, <2>1, <2>2 DEF BufferIsIdentity, TimerIffDeadline
  <2>9. DeadlineHasTimer'
    BY <1>1, <1>2, <2>1, <2>3 DEF IInv, TypeOK, DeadlineHasTimer
  <2>10. OnlyOwnTimerArmed'
    BY <1>2, <2>1, <2>3, ThreadsAreNotTimers DEF IInv, OnlyOwnTimerArmed
  <2>11. CallbacksAreDue'
    <3> SUFFICES ASSUME NEW g \in Gens, pc'[g] \in {"wlock", "drain"}
                 PROVE  due'[g] <= now'
      BY DEF CallbacksAreDue
    <3>1. g # next /\ pc[g] \in {"wlock", "drain"} /\ g # t
      BY <1>2, <2>3, ThreadsAreNotTimers
    <3>2. due'[g] = due[g]
      BY <1>2, <2>1, <3>1 DEF IInv, TypeOK
    <3> QED
      BY <1>1, <3>1, <3>2 DEF IInv, CallbacksAreDue
  <2>12. CurrentTimerCounts'
    BY <2>1, <2>2 DEF CurrentTimerCounts
  <2>13. FutureTimersUnused'
    <3> SUFFICES ASSUME NEW g \in Gens, g > next PROVE pc'[g] = "idle"
      BY <1>1 DEF FutureTimersUnused
    <3>1. pc[g] = "idle" /\ g # next /\ g # t /\ g \in Proc
      BY <1>2, ThreadsAreNotTimers DEF IInv, FutureTimersUnused, Gens
    <3> QED
      BY <2>3, <3>1
  <2> QED
    BY <2>4, <2>5, <2>6, <2>7, <2>8, <2>9, <2>10, <2>11, <2>12, <2>13 DEF IInv
<1>6. CASE ~armed
  <2>1. /\ locksAt' = 0 /\ timer' = 0 /\ due' = due
        /\ pc' = [TimerStopped EXCEPT ![t] = "idle"]
    BY <1>1, <1>6 DEF UnlockBody
  <2>2. /\ pc' \in [Proc -> Places]
        /\ \A q \in Proc : pc'[q] = IF q = t THEN "idle"
                                    ELSE IF q = timer /\ pc[q] = "armed"
                                         THEN "stopped" ELSE pc[q]
    BY <1>1, <2>1, StopTimer DEF Places
  <2>3. TypeOK'
    BY <1>1, <1>2, <1>3, <2>1, <2>2
       DEF IInv, TypeOK, BufferDestroyed, NoJob, Plain, Jobs, Results, Gens
  <2>4. TicketHolder' /\ RunningReads' /\ RunningKeepsIdentity'
    BY <1>1, <1>3, <2>2, ThreadsAreNotTimers
       DEF TicketHolder, RunningReads, RunningKeepsIdentity
  <2>5. OwnSteps'
    BY <1>1, <2>2, ThreadsAreNotTimers DEF IInv, TypeOK, OwnSteps
  <2>6. UnlocksHaveIdentity'
    BY <1>1 DEF IInv, TypeOK, UnlocksHaveIdentity, NoJob, Plain
  <2>7. BufferIsIdentity' /\ TimerIffDeadline' /\ DeadlineHasTimer'
    BY <1>1, <2>1 DEF BufferIsIdentity, TimerIffDeadline, DeadlineHasTimer
  <2>8. OnlyOwnTimerArmed' /\ CallbacksAreDue'
    BY <1>1, <2>1, <2>2, ThreadsAreNotTimers
       DEF IInv, OnlyOwnTimerArmed, CallbacksAreDue
  <2>9. CurrentTimerCounts'
    <3> SUFFICES pc'[next] = "idle"
      BY <1>1 DEF CurrentTimerCounts
    <3> QED
      BY <1>2, <1>4, <2>2
  <2>10. FutureTimersUnused'
    <3> SUFFICES ASSUME NEW g \in Gens, g > next PROVE pc'[g] = "idle"
      BY <1>1 DEF FutureTimersUnused
    <3>1. pc[g] = "idle" /\ g # t /\ g \in Proc
      BY <1>2, ThreadsAreNotTimers DEF IInv, FutureTimersUnused, Gens
    <3> QED
      BY <2>2, <3>1
  <2> QED
    BY <2>3, <2>4, <2>5, <2>6, <2>7, <2>8, <2>9, <2>10 DEF IInv
<1> QED
  BY <1>5, <1>6

\* No step of a handler, a callback or the clock leaves the invariant.
LEMMA NextIInv == IInv /\ [Next]_vars => IInv'
<1> SUFFICES ASSUME IInv, [Next]_vars PROVE IInv'
  OBVIOUS
<1>1. ASSUME NEW t \in Thread, NEW i \in Identity,
             NEW d \in Durations \cup {Nil}, CallUnlock(t, i, d)
      PROVE  IInv'
  <2> DEFINE j == [op |-> "unlock", id |-> i, d |-> IF d = Nil THEN DefaultFor ELSE d]
  <2>1. j \in Jobs /\ j.id = i
    BY DEF Jobs
  <2>2. live' \in Int
    BY <1>1 DEF CallUnlock, IInv, TypeOK
  <2> QED
    BY <1>1, <2>1, <2>2, EnterWriter DEF CallUnlock
<1>2. ASSUME NEW t \in Thread, RejectUnlock(t) PROVE IInv'
  <2>1. /\ ret' = [ret EXCEPT ![t] = "rejected"]
        /\ UNCHANGED <<mu, buf, id, timer, locksAt, gen, due, reason, live, now, pc, job, seen>>
    BY <1>2 DEF RejectUnlock, fields
  <2>2. TypeOK'
    BY <2>1 DEF IInv, TypeOK, Results
  <2>3. /\ TicketHolder' /\ RunningReads' /\ RunningKeepsIdentity' /\ OwnSteps'
        /\ UnlocksHaveIdentity' /\ BufferIsIdentity' /\ FutureTimersUnused'
        /\ TimerIffDeadline' /\ OnlyOwnTimerArmed' /\ DeadlineHasTimer'
        /\ CallbacksAreDue' /\ CurrentTimerCounts'
    BY <2>1 DEF IInv, TicketHolder, RunningReads, RunningKeepsIdentity, OwnSteps,
       UnlocksHaveIdentity, BufferIsIdentity, FutureTimersUnused,
       TimerIffDeadline, OnlyOwnTimerArmed, DeadlineHasTimer, CallbacksAreDue,
       CurrentTimerCounts
  <2> QED
    BY <2>2, <2>3 DEF IInv
<1>3. ASSUME NEW t \in Thread, CallLock(t) PROVE IInv'
  <2>1. Plain("lock") \in Jobs /\ Plain("lock").op # "unlock"
    BY DEF Plain, Jobs
  <2>2. live' = live /\ live \in Int
    BY <1>3 DEF CallLock, IInv, TypeOK
  <2> QED
    BY <1>3, <2>1, <2>2, EnterWriter DEF CallLock
<1>4. ASSUME NEW t \in Thread, CallWith(t) \/ CallStatus(t) PROVE IInv'
  BY <1>4, EnterReader DEF CallWith, CallStatus
<1>5. ASSUME NEW t \in Thread, ReadStatus(t) \/ WithLocked(t) PROVE IInv'
  BY <1>5, LeaveReader DEF ReadStatus, WithLocked, Results
<1>6. ASSUME NEW t \in Thread, NEW r \in {"ok", "failed"}, WithReturns(t, r)
      PROVE  IInv'
  BY <1>6, LeaveReader DEF WithReturns, Results
<1>7. ASSUME NEW t \in Thread, LockBody(t) PROVE IInv'
  <2>1. /\ pc[t] = "drain" /\ Owns(mu, t) /\ t \in Proc /\ mu' = Unlocked(mu)
        /\ job' = [job EXCEPT ![t] = NoJob]
        /\ seen' = [seen EXCEPT ![t] = Nil] /\ ret' = [ret EXCEPT ![t] = "ok"]
    BY <1>7, ThreadsAreNotTimers DEF LockBody, Leave
  <2>2. /\ job' \in [Thread -> Jobs] /\ seen' \in [Thread -> Identity \cup {Nil}]
        /\ ret' \in [Thread -> Results]
        /\ \A u \in Thread : job'[u] = job[u] \/ job'[u] = NoJob
    BY <2>1 DEF IInv, TypeOK, Jobs, NoJob, Plain, Results
  <2>3. CASE buf = Nil
    BY <1>7, <2>1, <2>2, <2>3, NothingToDrop DEF LockBody
  <2>4. CASE buf # Nil
    BY <1>7, <2>1, <2>2, <2>4, DropStep DEF LockBody
  <2> QED
    BY <2>3, <2>4
<1>8. ASSUME NEW g \in Gens, AutoLockBody(g) PROVE IInv'
  <2>1. /\ pc[g] = "drain" /\ Owns(mu, g) /\ g \in Proc /\ g \notin Thread
        /\ mu' = Unlocked(mu) /\ UNCHANGED <<job, seen, ret>>
    BY <1>8, ThreadsAreNotTimers DEF AutoLockBody
  <2>2. /\ job' \in [Thread -> Jobs] /\ seen' \in [Thread -> Identity \cup {Nil}]
        /\ ret' \in [Thread -> Results]
        /\ \A u \in Thread : job'[u] = job[u] \/ job'[u] = NoJob
    BY <2>1 DEF IInv, TypeOK
  <2>3. CASE ~SameSession(g)
    BY <1>8, <2>1, <2>2, <2>3, NothingToDrop DEF AutoLockBody, SameSession
  <2>4. CASE SameSession(g)
    BY <1>8, <2>1, <2>2, <2>4, DropStep DEF AutoLockBody
  <2> QED
    BY <2>3, <2>4
<1>9. CASE UNCHANGED vars
  BY <1>9 DEF vars, fields, IInv, TypeOK, TicketHolder, RunningReads,
     RunningKeepsIdentity, OwnSteps, UnlocksHaveIdentity, BufferIsIdentity,
     FutureTimersUnused, TimerIffDeadline, OnlyOwnTimerArmed, DeadlineHasTimer,
     CallbacksAreDue, CurrentTimerCounts
<1> QED
  BY <1>1, <1>2, <1>3, <1>4, <1>5, <1>6, <1>7, <1>8, <1>9,
     StartRunning, InstallIdentity, TakeTicket, FireTimer, PassTime
     DEF Next, Call, Step

\* The inductive invariant holds in every reachable state of the session,
\* whatever the handlers, timers and clients do.
THEOREM InvariantHolds == Safety => []IInv
<1>1. Init => IInv
  BY InitIInv
<1>2. IInv /\ [Next]_vars => IInv'
  BY NextIInv
<1> QED
  BY <1>1, <1>2, PTL DEF Safety

\* Every field of the session, and every goroutine, keeps to its type.
THEOREM TypeCorrect == Safety => []TypeOK
<1>1. IInv => TypeOK
  BY DEF IInv
<1> QED
  BY <1>1, InvariantHolds, PTL

\* A request that With has let in works on an identity that stays in locked
\* memory, and stays the session's, until the request is done (session.go:34).
THEOREM RequestsUninterrupted == Safety => []RunningKeepsIdentity
<1>1. IInv => RunningKeepsIdentity
  BY DEF IInv
<1> QED
  BY <1>1, InvariantHolds, PTL

\* A lock time that Status announces has a timer behind it, and no timer of
\* an earlier session can still go off unseen (session.go:112).
THEOREM DeadlinesKept == Safety => [](DeadlineHasTimer /\ OnlyOwnTimerArmed)
<1>1. IInv => DeadlineHasTimer /\ OnlyOwnTimerArmed
  BY DEF IInv
<1> QED
  BY <1>1, InvariantHolds, PTL

\* The session implements LockState: it lets go of an identity only when a
\* client asked or when the lock time of that very identity has passed, and
\* never because a timer left over from an earlier unlock goes off
\* (session.go:112).
THEOREM Refinement == Safety => KeepsPromise
<1> USE DEF Promise!vars
<1>1. Init => Promise!Init
  BY DEF Init, Promise!Init
<1>2. IInv /\ [Next]_vars => [Promise!Next]_(Promise!vars)
  <2> SUFFICES ASSUME IInv, [Next]_vars
               PROVE  Promise!Next \/ UNCHANGED <<id, locksAt, reason, now>>
    OBVIOUS
  <2>1. ASSUME NEW t \in Thread, UnlockBody(t)
        PROVE  Promise!Next
    <3>1. /\ id' = job[t].id /\ now' = now /\ reason' = "unlock"
          /\ IF Limited(job[t].d) THEN locksAt' = now + job[t].d ELSE locksAt' = 0
          /\ job[t].op = "unlock"
      BY <2>1 DEF UnlockBody
    <3>2. job[t].id \in Identity /\ job[t].d \in Int /\ now \in Nat
      BY <3>1 DEF IInv, TypeOK, UnlocksHaveIdentity, Jobs
    <3>3. Promise!Unlock
      BY <3>1, <3>2 DEF Promise!Unlock, Limited
    <3> QED
      BY <3>3 DEF Promise!Next
  <2>2. ASSUME NEW t \in Thread, LockBody(t)
        PROVE  Promise!Next \/ UNCHANGED <<id, locksAt, reason, now>>
    <3>1. CASE buf = Nil
      BY <2>2, <3>1 DEF LockBody, fields
    <3>2. CASE buf # Nil
      <4>1. id # Nil /\ id' = Nil /\ locksAt' = 0 /\ reason' = "manual" /\ now' = now
        BY <2>2, <3>2 DEF LockBody, Drop, IInv, BufferIsIdentity
      <4> QED
        BY <4>1 DEF Promise!Next, Promise!Lock, Promise!LetGo
    <3> QED
      BY <3>1, <3>2
  <2>3. ASSUME NEW g \in Gens, AutoLockBody(g)
        PROVE  Promise!Next \/ UNCHANGED <<id, locksAt, reason, now>>
    <3>1. CASE ~SameSession(g)
      BY <2>3, <3>1 DEF AutoLockBody, fields
    <3>2. CASE SameSession(g)
      <4>1. /\ id # Nil /\ id' = Nil /\ locksAt' = 0 /\ reason' = "auto" /\ now' = now
            /\ g = gen /\ buf # Nil /\ pc[g] = "drain"
        BY <2>3, <3>2 DEF AutoLockBody, SameSession, Drop, IInv, BufferIsIdentity
      \* The callback's timer was armed for the session it finds.
      <4>2. locksAt # 0 /\ due[g] <= now /\ due[g] = locksAt
        BY <4>1 DEF IInv, CurrentTimerCounts, CallbacksAreDue, DeadlineHasTimer
      <4> QED
        BY <4>1, <4>2 DEF Promise!Next, Promise!AutoLock, Promise!LetGo
    <3> QED
      BY <3>1, <3>2
  <2>4. CASE Tick
    BY <2>4 DEF Tick, fields, Promise!Next, Promise!Tick
  <2>5. CASE \/ \E t \in Thread : Call(t) \/ ReadStatus(t) \/ WithLocked(t) \/ WithRuns(t)
             \/ \E t \in Thread : \E r \in {"ok", "failed"} : WithReturns(t, r)
             \/ \E p \in Proc : Announce(p)
             \/ \E g \in Gens : TimerFires(g)
             \/ UNCHANGED vars
    BY <2>5 DEF Call, CallUnlock, RejectUnlock, CallLock, CallWith, CallStatus,
       CallReader, ReadStatus, WithLocked, WithRuns, WithReturns, ReturnReader,
       Announce, TimerFires, vars, fields
  <2> QED
    BY <2>1, <2>2, <2>3, <2>4, <2>5 DEF Next, Step
<1> QED
  BY <1>1, <1>2, InvariantHolds, PTL DEF KeepsPromise, Promise!Safety, Safety

-----------------------------------------------------------------------------
(* Locked memory *)

\* An unlock in progress waits for the mutex.
UnlockersWait == \A t \in Thread : job[t].op = "unlock" => pc[t] \in {"wlock", "drain"}

Buffers == UnlockersWait /\ NoBufferLeaks

LEMMA UnlockingFinite ==
  ASSUME NEW S \in SUBSET Thread
  PROVE  IsFiniteSet(S) /\ Cardinality(S) \in Nat
BY FiniteAssumption, FS_Subset, FS_CardinalityType

\* Who is unlocking, after a step that gives t another call.
LEMMA UnlockingChanges ==
  ASSUME IInv, NEW t \in Thread, NEW j \in Jobs, job' = [job EXCEPT ![t] = j]
  PROVE  /\ j.op = "unlock" /\ job[t].op # "unlock" =>
               Cardinality(Unlocking') = Cardinality(Unlocking) + 1
         /\ j.op # "unlock" /\ job[t].op = "unlock" =>
               Cardinality(Unlocking') = Cardinality(Unlocking) - 1
         /\ j.op # "unlock" /\ job[t].op # "unlock" =>
               Cardinality(Unlocking') = Cardinality(Unlocking)
<1>0. /\ job \in [Thread -> Jobs] /\ Unlocking \in SUBSET Thread
      /\ Unlocking' \in SUBSET Thread
  BY DEF IInv, TypeOK, Unlocking
<1>1. IsFiniteSet(Unlocking) /\ Cardinality(Unlocking) \in Nat
  BY <1>0, UnlockingFinite
<1>2. CASE j.op = "unlock"
  <2>1. Unlocking' = Unlocking \cup {t}
    BY <1>0, <1>2 DEF Unlocking
  <2>2. t \in Unlocking <=> job[t].op = "unlock"
    BY DEF Unlocking
  <2>3. Cardinality(Unlocking \cup {t}) =
           IF t \in Unlocking THEN Cardinality(Unlocking) ELSE Cardinality(Unlocking) + 1
    BY <1>1, FS_AddElement
  <2> QED
    BY <1>1, <1>2, <2>1, <2>2, <2>3
<1>3. CASE j.op # "unlock"
  <2>1. Unlocking' = Unlocking \ {t}
    BY <1>0, <1>3 DEF Unlocking
  <2>2. t \in Unlocking <=> job[t].op = "unlock"
    BY DEF Unlocking
  <2>3. Cardinality(Unlocking \ {t}) =
           IF t \in Unlocking THEN Cardinality(Unlocking) - 1 ELSE Cardinality(Unlocking)
    BY <1>1, FS_RemoveElement
  <2> QED
    BY <1>1, <1>3, <2>1, <2>2, <2>3
<1> QED
  BY <1>2, <1>3

\* Steps that neither allocate nor destroy: t's call changes, or none does.
LEMMA NothingAllocated ==
  ASSUME IInv, Buffers, UNCHANGED <<buf, live>>,
         \/ UNCHANGED job
         \/ \E t \in Thread : \E j \in Jobs :
               /\ job' = [job EXCEPT ![t] = j]
               /\ j.op # "unlock" /\ job[t].op # "unlock"
  PROVE  NoBufferLeaks'
<1>1. CASE UNCHANGED job
  BY <1>1 DEF Buffers, NoBufferLeaks, Unlocking
<1>2. ASSUME NEW t \in Thread, NEW j \in Jobs, job' = [job EXCEPT ![t] = j],
             j.op # "unlock", job[t].op # "unlock"
      PROVE  NoBufferLeaks'
  <2>0. Cardinality(Unlocking) \in Nat
    BY UnlockingFinite DEF Unlocking
  <2>1. Cardinality(Unlocking') = Cardinality(Unlocking)
    BY <1>2, <2>0, UnlockingChanges
  <2> QED
    BY <2>1 DEF Buffers, NoBufferLeaks
<1> QED
  BY <1>1, <1>2

LEMMA CallsAreJobs ==
  /\ NoJob \in Jobs /\ NoJob.op = "none"
  /\ \A op \in {"lock", "with", "status"} : Plain(op) \in Jobs /\ Plain(op).op = op
BY DEF NoJob, Plain, Jobs

\* One step keeps the count.
LEMMA BuffersCounted == IInv /\ Buffers /\ [Next]_vars => Buffers'
<1> SUFFICES ASSUME IInv, Buffers, [Next]_vars PROVE Buffers'
  OBVIOUS
<1> DEFINE Kept == IF buf = Nil THEN 0 ELSE 1
<1>0. /\ TypeOK /\ UnlockersWait /\ UnlocksHaveIdentity /\ OwnSteps
      /\ Cardinality(Unlocking) \in Nat /\ live = Cardinality(Unlocking) + Kept
      /\ pc \in [Proc -> Places] /\ job \in [Thread -> Jobs] /\ Thread \subseteq Proc
  BY UnlockingFinite, ThreadsAreNotTimers
     DEF IInv, TypeOK, Buffers, NoBufferLeaks, Unlocking
<1>1. ASSUME NEW t \in Thread, NEW i \in Identity,
             NEW d \in Durations \cup {Nil}, CallUnlock(t, i, d)
      PROVE  Buffers'
  <2> DEFINE j == [op |-> "unlock", id |-> i, d |-> IF d = Nil THEN DefaultFor ELSE d]
  <2>1. j \in Jobs /\ j.op = "unlock"
    BY DEF Jobs
  <2>2. /\ pc[t] = "idle" /\ pc' = [pc EXCEPT ![t] = "wlock"]
        /\ job' = [job EXCEPT ![t] = j] /\ live' = live + 1 /\ buf' = buf
    BY <1>1 DEF CallUnlock, Enter, fields
  <2>3. job[t].op # "unlock"
    BY <1>0, <2>2 DEF UnlockersWait
  <2> HIDE DEF j
  <2>4. Cardinality(Unlocking') = Cardinality(Unlocking) + 1
    BY <1>0, <2>1, <2>2, <2>3, UnlockingChanges
  <2>5. NoBufferLeaks'
    BY <1>0, <2>2, <2>4 DEF NoBufferLeaks
  <2>6. UnlockersWait'
    BY <1>0, <2>1, <2>2 DEF UnlockersWait
  <2> QED
    BY <2>5, <2>6 DEF Buffers
<1>2. ASSUME NEW t \in Thread, CallLock(t) \/ CallWith(t) \/ CallStatus(t)
      PROVE  Buffers'
  <2>1. PICK op \in {"lock", "with", "status"}, at \in {"wlock", "rlock"} :
           /\ pc[t] = "idle" /\ pc' = [pc EXCEPT ![t] = at]
           /\ job' = [job EXCEPT ![t] = Plain(op)] /\ UNCHANGED <<buf, live>>
    BY <1>2 DEF CallLock, CallWith, CallStatus, CallReader, Enter, fields
  <2>2. Plain(op) \in Jobs /\ Plain(op).op # "unlock" /\ job[t].op # "unlock"
    BY <1>0, <2>1, CallsAreJobs DEF UnlockersWait
  <2>3. NoBufferLeaks'
    BY <2>1, <2>2, NothingAllocated
  <2>4. UnlockersWait'
    BY <1>0, <2>1, <2>2 DEF UnlockersWait
  <2> QED
    BY <2>3, <2>4 DEF Buffers
<1>3. ASSUME NEW t \in Thread, NEW r, ReturnReader(t, r), pc[t] \in {"rlock", "run"}
      PROVE  Buffers'
  <2>1. /\ pc' = [pc EXCEPT ![t] = "idle"] /\ job' = [job EXCEPT ![t] = NoJob]
        /\ UNCHANGED <<buf, live>>
    BY <1>3 DEF ReturnReader, Leave, fields
  <2>2. NoJob \in Jobs /\ NoJob.op # "unlock" /\ job[t].op # "unlock"
    BY <1>0, <1>3, CallsAreJobs DEF UnlockersWait
  <2>3. NoBufferLeaks'
    BY <2>1, <2>2, NothingAllocated
  <2>4. UnlockersWait'
    BY <1>0, <2>1, <2>2 DEF UnlockersWait
  <2> QED
    BY <2>3, <2>4 DEF Buffers
\* The new identity's buffer, counted for its unlock so far, takes the place
\* of the old one.
<1>4. ASSUME NEW t \in Thread, UnlockBody(t) PROVE Buffers'
  <2>1. /\ job[t].op = "unlock" /\ job' = [job EXCEPT ![t] = NoJob]
        /\ buf' = job[t].id /\ live' = BufferDestroyed /\ pc[t] = "drain"
    BY <1>4 DEF UnlockBody, Leave
  <2>2. buf' # Nil
    BY <1>0, <2>1 DEF UnlocksHaveIdentity
  <2>3. Cardinality(Unlocking') = Cardinality(Unlocking) - 1
    BY <1>0, <2>1, CallsAreJobs, UnlockingChanges
  <2>4. NoBufferLeaks'
    BY <1>0, <2>1, <2>2, <2>3 DEF NoBufferLeaks, BufferDestroyed
  <2>5. \A u \in Thread \ {t} : pc'[u] = pc[u]
    <3>1. /\ TimerStopped \in [Proc -> Places]
          /\ \A u \in Thread : TimerStopped[u] = pc[u]
      BY <1>0, StopTimer, ThreadsAreNotTimers DEF TypeOK, OwnSteps
    <3>2. \/ pc' = [TimerStopped EXCEPT ![gen'] = "armed", ![t] = "idle"]
          \/ pc' = [TimerStopped EXCEPT ![t] = "idle"]
      BY <1>4 DEF UnlockBody
    <3>3. gen' \notin Thread
      BY <1>0, <1>4, ThreadsAreNotTimers DEF UnlockBody, TypeOK
    <3> QED
      BY <3>1, <3>2, <3>3, <1>0
  <2>6. UnlockersWait'
    BY <1>0, <2>1, <2>5, CallsAreJobs DEF UnlockersWait
  <2> QED
    BY <2>4, <2>6 DEF Buffers
<1>5. ASSUME NEW p \in Proc, NEW why, NEW at, Drop(why), buf # Nil,
             pc' = [TimerStopped EXCEPT ![p] = at],
             \/ p \in Gens /\ UNCHANGED job
             \/ p \in Thread /\ job[p].op # "unlock" /\ job' = [job EXCEPT ![p] = NoJob]
      PROVE  Buffers'
  <2>1. buf' = Nil /\ live' = live - 1
    BY <1>5 DEF Drop, BufferDestroyed
  <2>2. Cardinality(Unlocking') = Cardinality(Unlocking)
    <3>1. CASE UNCHANGED job
      BY <3>1 DEF Unlocking
    <3>2. CASE p \in Thread /\ job[p].op # "unlock" /\ job' = [job EXCEPT ![p] = NoJob]
      BY <1>0, <3>2, CallsAreJobs, UnlockingChanges
    <3> QED
      BY <1>5, <3>1, <3>2
  <2>3. NoBufferLeaks'
    BY <1>0, <1>5, <2>1, <2>2 DEF NoBufferLeaks
  <2>4. \A u \in Thread \ {p} : pc'[u] = pc[u]
    BY <1>0, <1>5, StopTimer, ThreadsAreNotTimers DEF TypeOK, OwnSteps
  <2>5. ASSUME NEW u \in Thread, job'[u].op = "unlock" PROVE u # p /\ job'[u] = job[u]
    <3>1. CASE p \in Gens /\ UNCHANGED job
      BY <3>1, ThreadsAreNotTimers
    <3>2. CASE p \in Thread /\ job' = [job EXCEPT ![p] = NoJob]
      <4>1. job'[p] = NoJob /\ (u # p => job'[u] = job[u])
        BY <1>0, <3>2
      <4> QED
        BY <2>5, <4>1, CallsAreJobs
    <3> QED
      BY <1>5, <3>1, <3>2
  <2>6. UnlockersWait'
    BY <1>0, <2>4, <2>5 DEF UnlockersWait
  <2> QED
    BY <2>3, <2>6 DEF Buffers
<1>6. ASSUME NEW t \in Thread, LockBody(t) PROVE Buffers'
  <2>1. job[t].op = "lock" /\ job' = [job EXCEPT ![t] = NoJob]
    BY <1>6 DEF LockBody, Leave
  <2>2. CASE buf = Nil
    <3>1. pc' = [pc EXCEPT ![t] = "idle"] /\ UNCHANGED <<buf, live>>
      BY <1>6, <2>2 DEF LockBody, fields
    <3>2. NoBufferLeaks'
      BY <2>1, <3>1, CallsAreJobs, NothingAllocated
    <3>3. UnlockersWait'
      BY <1>0, <2>1, <3>1, CallsAreJobs DEF UnlockersWait
    <3> QED
      BY <3>2, <3>3 DEF Buffers
  <2>3. CASE buf # Nil
    <3>1. pc' = [TimerStopped EXCEPT ![t] = "idle"] /\ Drop("manual")
      BY <1>6, <2>3 DEF LockBody
    <3> QED
      BY <1>0, <1>5, <2>1, <2>3, <3>1
  <2> QED
    BY <2>2, <2>3
<1>7. ASSUME NEW g \in Gens, AutoLockBody(g) PROVE Buffers'
  <2>1. g \in Proc /\ g \notin Thread /\ UNCHANGED job
    BY <1>7, ThreadsAreNotTimers DEF AutoLockBody
  <2>2. CASE SameSession(g)
    <3>1. pc' = [TimerStopped EXCEPT ![g] = "done"] /\ Drop("auto") /\ buf # Nil
      BY <1>7, <2>2 DEF AutoLockBody, SameSession
    <3> QED
      BY <1>5, <2>1, <3>1
  <2>3. CASE ~SameSession(g)
    <3>1. pc' = [pc EXCEPT ![g] = "done"] /\ UNCHANGED <<buf, live>>
      BY <1>7, <2>3 DEF AutoLockBody, fields
    <3>2. NoBufferLeaks'
      BY <2>1, <3>1, NothingAllocated
    <3>3. UnlockersWait'
      BY <1>0, <2>1, <3>1 DEF UnlockersWait
    <3> QED
      BY <3>2, <3>3 DEF Buffers
  <2> QED
    BY <2>2, <2>3
<1>8. CASE \/ \E t \in Thread : RejectUnlock(t) \/ WithRuns(t)
           \/ \E p \in Proc : Announce(p)
           \/ \E g \in Gens : TimerFires(g)
           \/ Tick \/ UNCHANGED vars
  <2>1. UNCHANGED <<buf, live, job>>
    BY <1>8 DEF RejectUnlock, WithRuns, Announce, TimerFires, Tick, vars, fields
  <2>2. \/ UNCHANGED pc
        \/ \E t \in Thread : job[t].op = "with" /\ pc' = [pc EXCEPT ![t] = "run"]
        \/ \E p \in Proc : pc' = [pc EXCEPT ![p] = "drain"]
        \/ \E g \in Gens : pc' = [pc EXCEPT ![g] = "wlock"]
    BY <1>8 DEF RejectUnlock, WithRuns, Announce, TimerFires, Tick, vars, fields
  <2>3. UnlockersWait'
    BY <1>0, <2>1, <2>2 DEF UnlockersWait
  <2>4. NoBufferLeaks'
    BY <2>1, NothingAllocated
  <2> QED
    BY <2>3, <2>4 DEF Buffers
<1>9. ASSUME NEW t \in Thread, Call(t) \/ Step(t) PROVE Buffers'
  <2>1. CASE Call(t)
    BY <1>1, <1>2, <1>8, <2>1 DEF Call
  <2>2. CASE Step(t)
    BY <1>3, <1>4, <1>6, <1>8, <2>2 DEF Step, ReadStatus, WithLocked, WithReturns
  <2> QED
    BY <1>9, <2>1, <2>2
<1> QED
  BY <1>7, <1>8, <1>9 DEF Next

LEMMA InitBuffers == Init => Buffers
<1> SUFFICES ASSUME Init PROVE Buffers
  OBVIOUS
<1>1. Unlocking = {}
  BY DEF Init, Unlocking, NoJob, Plain
<1> QED
  BY <1>1, FS_EmptySet DEF Init, Buffers, UnlockersWait, NoBufferLeaks, NoJob, Plain

\* Locked memory holds one copy of the identity, and one more for each unlock
\* that waits for the mutex: whatever way a session ends, or is replaced, its
\* buffer is destroyed (session.go:123).
THEOREM BuffersDestroyed == Safety => []NoBufferLeaks
<1>1. Buffers => NoBufferLeaks
  BY DEF Buffers
<1> QED
  BY <1>1, InitBuffers, BuffersCounted, InvariantHolds, PTL DEF Safety

-----------------------------------------------------------------------------
(* Waiting never closes into a circle *)

\* What the operations do to the readers and to the queue behind the ticket.
LEMMA QueueParts ==
  ASSUME NEW m \in RWMutexes(Proc), NEW p \in Proc
  PROVE  /\ m.ticket = NoProc => /\ RLocked(m, p).readers = m.readers \cup {p}
                                 /\ RLocked(m, p).queued = m.queued
         /\ m.ticket # NoProc => /\ RLocked(m, p).readers = m.readers
                                 /\ RLocked(m, p).queued = m.queued \cup {p}
         /\ RUnlocked(m, p).queued = m.queued
         /\ Announced(m, p).queued = m.queued
         /\ Unlocked(m).queued = {}
BY DEF RWMutexes, RLocked, RUnlocked, Announced, Unlocked

\* A step that leaves the mutex alone moves nobody into With or Status, or out.
LEMMA BooksUntouched ==
  ASSUME LockBooks, CallsFit, UNCHANGED mu,
         \A t \in Thread : /\ pc'[t] \in {"rlock", "run"} <=> pc[t] \in {"rlock", "run"}
                           /\ \/ pc'[t] = pc[t] /\ job'[t] = job[t]
                              \/ pc'[t] = "wlock" /\ job'[t].op \in {"unlock", "lock"}
                              \/ pc[t] = "rlock" /\ pc'[t] = "run" /\ job'[t] = job[t]
  PROVE  LockBooks' /\ CallsFit'
BY DEF LockBooks, CallsFit

\* A reader comes: it reads, or it is queued behind the ticket.
LEMMA ReaderComes ==
  ASSUME IInv, LockBooks, CallsFit, NEW t \in Thread, NEW op \in {"with", "status"},
         CallReader(t, op)
  PROVE  LockBooks' /\ CallsFit'
<1>1. /\ pc[t] = "idle" /\ pc' = [pc EXCEPT ![t] = "rlock"]
      /\ job' = [job EXCEPT ![t] = Plain(op)] /\ mu' = RLocked(mu, t)
  BY DEF CallReader, Enter
<1>2. /\ mu \in RWMutexes(Proc) /\ t \in Proc
      /\ pc \in [Proc -> Places] /\ job \in [Thread -> Jobs]
  BY ThreadsAreNotTimers DEF IInv, TypeOK
<1>3. /\ pc'[t] = "rlock" /\ job'[t].op = op
      /\ \A u \in Thread \ {t} : pc'[u] = pc[u] /\ job'[u] = job[u]
  BY <1>1, <1>2, CallsAreJobs, ThreadsAreNotTimers
<1>4. CallsFit'
  BY <1>3 DEF CallsFit
<1>5. /\ t \notin mu.readers \cup mu.queued
      /\ {u \in Thread : pc'[u] \in {"rlock", "run"}} =
            {u \in Thread : pc[u] \in {"rlock", "run"}} \cup {t}
  BY <1>1, <1>3 DEF LockBooks
<1>6. /\ mu'.ticket = mu.ticket
      /\ \/ mu.ticket = NoProc /\ mu'.readers = mu.readers \cup {t} /\ mu'.queued = mu.queued
         \/ mu.ticket # NoProc /\ mu'.readers = mu.readers /\ mu'.queued = mu.queued \cup {t}
  BY <1>1, <1>2, QueueParts, MutexParts
<1>7. LockBooks'
  BY <1>5, <1>6 DEF LockBooks
<1> QED
  BY <1>4, <1>7

\* A reader that leaves was not queued.
LEMMA ReaderGoes ==
  ASSUME IInv, LockBooks, CallsFit, NEW t \in Thread, NEW r, ReturnReader(t, r),
         t \in mu.readers
  PROVE  LockBooks' /\ CallsFit'
<1>1. /\ pc' = [pc EXCEPT ![t] = "idle"] /\ job' = [job EXCEPT ![t] = NoJob]
      /\ mu' = RUnlocked(mu, t)
  BY DEF ReturnReader, Leave
<1>2. /\ mu \in RWMutexes(Proc) /\ t \in Proc
      /\ pc \in [Proc -> Places] /\ job \in [Thread -> Jobs]
  BY ThreadsAreNotTimers DEF IInv, TypeOK
<1>3. pc'[t] = "idle" /\ \A u \in Thread \ {t} : pc'[u] = pc[u] /\ job'[u] = job[u]
  BY <1>1, <1>2, ThreadsAreNotTimers
<1>4. CallsFit'
  BY <1>3 DEF CallsFit
<1>5. /\ mu'.readers = mu.readers \ {t} /\ mu'.queued = mu.queued /\ mu'.ticket = mu.ticket
      /\ t \notin mu.queued
  BY <1>1, <1>2, QueueParts, MutexParts DEF LockBooks
<1>6. {u \in Thread : pc'[u] \in {"rlock", "run"}} =
         {u \in Thread : pc[u] \in {"rlock", "run"}} \ {t}
  BY <1>3
<1>7. LockBooks'
  BY <1>5, <1>6 DEF LockBooks
<1> QED
  BY <1>4, <1>7

\* The owner of the write lock leaves: the queue reads.
LEMMA OwnerGoes ==
  ASSUME IInv, LockBooks, CallsFit, NEW p \in Proc, Owns(mu, p), mu' = Unlocked(mu),
         pc[p] = "drain", p \in Thread => pc'[p] = "idle",
         \A u \in Thread \ {p} : pc'[u] = pc[u] /\ job'[u] = job[u]
  PROVE  LockBooks' /\ CallsFit'
<1>1. mu.readers = {} /\ mu \in RWMutexes(Proc)
  BY DEF Owns, IInv, TypeOK
<1>2. mu'.readers = mu.queued /\ mu'.queued = {}
  BY <1>1, QueueParts, MutexParts
<1>3. {u \in Thread : pc'[u] \in {"rlock", "run"}} =
         {u \in Thread : pc[u] \in {"rlock", "run"}}
  OBVIOUS
<1>4. LockBooks'
  BY <1>1, <1>2, <1>3 DEF LockBooks
<1>5. CallsFit'
  BY DEF CallsFit
<1> QED
  BY <1>4, <1>5

LEMMA InitBooks == Init => LockBooks /\ CallsFit
<1> SUFFICES ASSUME Init PROVE LockBooks /\ CallsFit
  OBVIOUS
<1>1. mu.readers = {} /\ mu.queued = {} /\ \A t \in Thread : pc[t] = "idle"
  BY ThreadsAreNotTimers DEF Init, Unheld
<1> QED
  BY <1>1 DEF LockBooks, CallsFit

LEMMA BooksKept == IInv /\ LockBooks /\ CallsFit /\ [Next]_vars => LockBooks' /\ CallsFit'
<1> SUFFICES ASSUME IInv, LockBooks, CallsFit, [Next]_vars PROVE LockBooks' /\ CallsFit'
  OBVIOUS
<1>0. /\ TypeOK /\ RunningReads /\ mu \in RWMutexes(Proc)
      /\ pc \in [Proc -> Places] /\ job \in [Thread -> Jobs]
  BY DEF IInv, TypeOK
<1>1. ASSUME NEW t \in Thread, Call(t) PROVE LockBooks' /\ CallsFit'
  <2>1. CASE CallWith(t) \/ CallStatus(t)
    BY <2>1, ReaderComes DEF CallWith, CallStatus
  <2>2. CASE RejectUnlock(t)
    BY <2>2, BooksUntouched DEF RejectUnlock
  <2>3. CASE CallLock(t) \/ \E i \in Identity, d \in Durations \cup {Nil} : CallUnlock(t, i, d)
    <3>1. /\ UNCHANGED mu /\ pc[t] = "idle" /\ pc' = [pc EXCEPT ![t] = "wlock"]
          /\ \E j : j.op \in {"unlock", "lock"} /\ job' = [job EXCEPT ![t] = j]
      BY <2>3, CallsAreJobs DEF CallLock, CallUnlock, Enter
    <3>2. /\ pc'[t] = "wlock" /\ job'[t].op \in {"unlock", "lock"}
          /\ \A u \in Thread \ {t} : pc'[u] = pc[u] /\ job'[u] = job[u]
      BY <1>0, <3>1, ThreadsAreNotTimers
    <3> QED
      BY <3>1, <3>2, BooksUntouched
  <2> QED
    BY <1>1, <2>1, <2>2, <2>3 DEF Call
<1>2. ASSUME NEW t \in Thread, ReadStatus(t) \/ WithLocked(t)
                               \/ \E r \in {"ok", "failed"} : WithReturns(t, r)
      PROVE  LockBooks' /\ CallsFit'
  BY <1>0, <1>2, ReaderGoes DEF ReadStatus, WithLocked, WithReturns, RunningReads
<1>3. ASSUME NEW t \in Thread, WithRuns(t) PROVE LockBooks' /\ CallsFit'
  <2>1. /\ UNCHANGED <<mu, job>> /\ pc[t] = "rlock" /\ pc'[t] = "run"
        /\ \A u \in Thread \ {t} : pc'[u] = pc[u]
    BY <1>0, <1>3, ThreadsAreNotTimers DEF WithRuns
  <2> QED
    BY <2>1, BooksUntouched
<1>4. ASSUME NEW t \in Thread, UnlockBody(t) \/ LockBody(t) PROVE LockBooks' /\ CallsFit'
  <2>1. /\ Owns(mu, t) /\ mu' = Unlocked(mu) /\ pc[t] = "drain" /\ t \in Proc
        /\ job' = [job EXCEPT ![t] = NoJob]
    BY <1>4, ThreadsAreNotTimers DEF UnlockBody, LockBody, Leave
  <2>2. /\ TimerStopped \in [Proc -> Places] /\ \A u \in Thread : TimerStopped[u] = pc[u]
    BY <1>0, StopTimer, ThreadsAreNotTimers DEF TypeOK, IInv, OwnSteps
  <2>3. \/ /\ gen' \notin Thread
           /\ pc' = [TimerStopped EXCEPT ![gen'] = "armed", ![t] = "idle"]
        \/ pc' = [TimerStopped EXCEPT ![t] = "idle"]
        \/ pc' = [pc EXCEPT ![t] = "idle"]
    BY <1>0, <1>4, ThreadsAreNotTimers DEF UnlockBody, LockBody, TypeOK
  <2>4. pc'[t] = "idle" /\ \A u \in Thread \ {t} : pc'[u] = pc[u] /\ job'[u] = job[u]
    BY <1>0, <2>1, <2>2, <2>3, ThreadsAreNotTimers
  <2> QED
    BY <2>1, <2>4, OwnerGoes
<1>5. ASSUME NEW g \in Gens, AutoLockBody(g) PROVE LockBooks' /\ CallsFit'
  <2>1. /\ Owns(mu, g) /\ mu' = Unlocked(mu) /\ pc[g] = "drain" /\ g \in Proc
        /\ g \notin Thread /\ UNCHANGED job
    BY <1>5, ThreadsAreNotTimers DEF AutoLockBody
  <2>2. /\ TimerStopped \in [Proc -> Places] /\ \A u \in Thread : TimerStopped[u] = pc[u]
    BY <1>0, StopTimer, ThreadsAreNotTimers DEF TypeOK, IInv, OwnSteps
  <2>3. pc' = [TimerStopped EXCEPT ![g] = "done"] \/ pc' = [pc EXCEPT ![g] = "done"]
    BY <1>5 DEF AutoLockBody
  <2>4. \A u \in Thread : pc'[u] = pc[u]
    BY <1>0, <2>1, <2>2, <2>3, ThreadsAreNotTimers
  <2> QED
    BY <2>1, <2>4, OwnerGoes
<1>6. ASSUME NEW p \in Proc, Announce(p) PROVE LockBooks' /\ CallsFit'
  <2>1. /\ pc[p] = "wlock" /\ pc' = [pc EXCEPT ![p] = "drain"] /\ UNCHANGED job
        /\ mu' = Announced(mu, p)
    BY <1>6 DEF Announce
  <2>2. mu'.readers = mu.readers /\ mu'.queued = mu.queued /\ mu'.ticket # NoProc
    BY <1>0, <2>1, QueueParts, MutexParts, ThreadsAreNotTimers
  <2>3. \A u \in Thread : \/ pc'[u] = pc[u]
                          \/ pc[u] = "wlock" /\ pc'[u] = "drain"
    BY <1>0, <2>1, ThreadsAreNotTimers
  <2>4. LockBooks'
    BY <2>2, <2>3 DEF LockBooks
  <2>5. CallsFit'
    BY <2>1, <2>3 DEF CallsFit
  <2> QED
    BY <2>4, <2>5
<1>7. CASE (\E g \in Gens : TimerFires(g)) \/ Tick \/ UNCHANGED vars
  <2>1. UNCHANGED <<mu, job>> /\ \A u \in Thread : pc'[u] = pc[u]
    BY <1>0, <1>7, ThreadsAreNotTimers DEF TimerFires, Tick, vars
  <2> QED
    BY <2>1, BooksUntouched
<1> QED
  BY <1>1, <1>2, <1>3, <1>4, <1>5, <1>6, <1>7 DEF Next, Step

\* Whoever waits waits for somebody: the queue for the ticket's holder, that
\* one for the readers, a writer without a ticket for its holder.
LEMMA NoCircle == IInv /\ LockBooks /\ CallsFit => NoDeadlock
<1> SUFFICES ASSUME IInv, LockBooks, CallsFit, NEW p \in Proc, InCall(p)
             PROVE  \E q \in Proc : CanGoOn(q)
  BY DEF NoDeadlock
<1>0. /\ Thread \subseteq Proc /\ TicketHolder /\ mu.ticket \in Proc \cup {NoProc}
      /\ mu.readers \subseteq Thread /\ OwnSteps
  BY ThreadsAreNotTimers DEF IInv, TypeOK, RWMutexes, LockBooks
<1>1. CASE mu.readers # {}
  <2>1. PICK t \in mu.readers : TRUE
    BY <1>1
  <2>2. t \in Thread /\ pc[t] \in {"rlock", "run"}
    BY <1>0, <2>1 DEF LockBooks
  <2>3. CanStep(t)
    BY <2>1, <2>2 DEF CanStep, CallsFit
  <2> QED
    BY <1>0, <2>2, <2>3 DEF CanGoOn
<1>2. CASE mu.readers = {} /\ mu.ticket # NoProc
  <2>1. mu.ticket \in Proc /\ pc[mu.ticket] = "drain" /\ Owns(mu, mu.ticket)
    BY <1>0, <1>2 DEF TicketHolder, Owns
  <2>2. mu.ticket \in Thread => CanStep(mu.ticket)
    BY <2>1 DEF CanStep, CallsFit
  <2> QED
    BY <2>1, <2>2 DEF CanGoOn, Proc
<1>3. CASE mu.readers = {} /\ mu.ticket = NoProc
  <2>1. \A t \in Thread : pc[t] \notin {"rlock", "run"}
    BY <1>3 DEF LockBooks
  <2>2. pc[p] \notin {"rlock", "run"}
    BY <1>0, <2>1 DEF OwnSteps, Proc
  <2>3. pc[p] # "drain"
    BY <1>0, <1>3, ThreadsAreNotTimers DEF TicketHolder
  <2>4. pc[p] = "wlock"
    BY <2>2, <2>3 DEF InCall
  <2> QED
    BY <1>3, <2>4 DEF CanGoOn, CanAnnounce
<1> QED
  BY <1>1, <1>2, <1>3

\* The session never deadlocks, with any number of handlers and timers: while
\* somebody waits for its mutex (session.go:149), somebody can go on.
THEOREM DeadlockFree == Safety => []NoDeadlock
BY InitBooks, BooksKept, NoCircle, InvariantHolds, PTL DEF Safety
=============================================================================

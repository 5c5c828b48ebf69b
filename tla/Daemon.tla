------------------------------- MODULE Daemon -------------------------------
(***************************************************************************)
(* Requests in keycelld: Server.call (internal/daemon/server.go) and the   *)
(* operations of Store (store.go) over one Session and one vault file.     *)
(*                                                                         *)
(* Each handler t serves one request at a time.  step[t] says where in     *)
(* Server.call it is, and every call it makes on the session goes through  *)
(* Session's own steps, S!..., with their mutex.  The vault file is seen   *)
(* as its readers see it: what AtomicFile does between the creation of the *)
(* temp file and the backup is invisible here except that it may fail.     *)
(***************************************************************************)
EXTENDS Integers, FiniteSets

CONSTANTS Thread, Identity, Nil, NoProc, DefaultFor, Durations, MaxGen, MaxTime,
          Owner,        \* the identity the vault was created for
          Name, Value, BadName, None,
          Absent,       \* no such file
          Methods,      \* the methods clients use in this instance
          MaxFails      \* bound: failing vault writes

VARIABLES mu, buf, id, timer, locksAt, gen, due, live, now, pc, job, seen, ret,
          reason,       \* the session
          req, ans,     \* each handler's request and its answer
          step,         \* where in Server.call each handler is
          writeMu,      \* the handler that holds Store.writeMu, or NoProc
          work,         \* what a writer is about to write
          file, bak,    \* vault.age and vault.age.bak
          fails         \* failed writes so far

session == <<mu, buf, id, timer, locksAt, gen, due, live, now, pc, job, seen, ret,
             reason>>
vault   == <<file, bak, fails>>
vars    == <<session, req, ans, step, writeMu, work, vault>>

S == INSTANCE Session
Map == INSTANCE SecretMap WITH
           Client <- Thread,
           secrets <- IF file = Absent THEN bak.data ELSE file.data

ASSUME HandlerAssumption == /\ Thread \cap Int = {} /\ IsFiniteSet(Thread)
                            /\ NoProc \notin Thread \cup Int
ASSUME SessionAssumption == /\ Nil \notin Identity \cup Int
                            /\ DefaultFor \in Int /\ Durations \subseteq Int
                            /\ MaxGen \in Nat /\ MaxTime \in Nat
ASSUME OwnerAssumption == Owner \in Identity
ASSUME NameAssumption  == BadName \notin Name /\ None \notin Value \cup Name

Tables == [Name -> Value \cup {None}]
Vaults == [owner: Identity, data: Tables]

ASSUME AbsentAssumption == Absent \notin Vaults

Steps  == {"idle", "reply", "status", "lock", "read", "mutex", "modify",
           "backup", "rename", "written", "parse", "unlock", "unlocked",
           "verify", "failed", "relock"}

WriteSteps == {"modify", "backup", "rename", "written"}

TypeOK ==
    /\ S!TypeOK
    /\ req \in [Thread -> Map!Requests \cup {Map!Idle}]
    /\ \A t \in Thread : ans[t].code \in
          {"none", "ok", "LOCKED", "NOT_FOUND", "INVALID_ARGUMENT", "INTERNAL"}
    /\ step \in [Thread -> Steps]
    /\ writeMu \in Thread \cup {NoProc}
    /\ \A t \in Thread : writeMu = t <=> step[t] \in WriteSteps
    /\ work \in [Thread -> Tables]
    /\ file \in Vaults \cup {Absent} /\ bak \in Vaults \cup {Absent}
    /\ fails \in 0 .. MaxFails

Empty == [n \in Name |-> None]

\* A daemon that was just started, on the vault that `keycell init` wrote.
Init ==
    /\ S!Init
    /\ req = [t \in Thread |-> Map!Idle]
    /\ ans = [t \in Thread |-> Map!Open]
    /\ step = [t \in Thread |-> "idle"]
    /\ writeMu = NoProc
    /\ work = [t \in Thread |-> Empty]
    /\ file = [owner |-> Owner, data |-> Empty]
    /\ bak = Absent
    /\ fails = 0

-----------------------------------------------------------------------------
(* Helpers *)

Goto(t, to) == step' = [step EXCEPT ![t] = to]

At(t, from, to) == step[t] = from /\ Goto(t, to)

Decide(t, a) == ans' = [ans EXCEPT ![t] = a]

\* The answer is there; the handler writes it next.
Conclude(t, a) == Goto(t, "reply") /\ Decide(t, a)

\* A slip: a vault that identity i does not open counts as readable.
ReadErrorLenient(i) == IF file = Absent THEN "INTERNAL" ELSE "none"

\* Why vault.Read fails for identity i, or "none".
ReadError(i) ==
    IF file = Absent THEN "INTERNAL"
    ELSE IF file.owner # i THEN "INVALID_ARGUMENT" ELSE "none"

\* A slip: the mutex is not given back.
KeepWrite(t) == UNCHANGED writeMu

\* A slip: the mutex is taken by whoever comes.
EnterWriteAnyway(t) == writeMu' = t
EnterWrite(t) == writeMu = NoProc /\ writeMu' = t
LeaveWrite(t) == writeMu' = IF writeMu = t THEN NoProc ELSE writeMu

-----------------------------------------------------------------------------
(* A request arrives: Server.handle, dispatch and the head of call *)

Arrive(t, r) ==
    /\ step[t] = "idle"
    /\ r.m \in Methods
    /\ req' = [req EXCEPT ![t] = r]
    /\ UNCHANGED <<writeMu, work, vault>>

ArriveRead(t, r) ==
    /\ Arrive(t, r) /\ r.m \in {"get", "list"}
    /\ S!CallWith(t)
    /\ Goto(t, "read") /\ UNCHANGED ans

ArriveWrite(t, r) ==
    /\ Arrive(t, r) /\ r.m \in {"store", "delete"}
    /\ Goto(t, "mutex") /\ UNCHANGED <<session, ans>>

ArriveUnlock(t, r) ==
    /\ Arrive(t, r) /\ r.m = "unlock"
    /\ Goto(t, "parse") /\ UNCHANGED <<session, ans>>

ArriveLock(t, r) ==
    /\ Arrive(t, r) /\ r.m = "lock"
    /\ S!CallLock(t)
    /\ Goto(t, "lock") /\ UNCHANGED ans

ArriveStatus(t, r) ==
    /\ Arrive(t, r) /\ r.m = "status"
    /\ S!CallStatus(t)
    /\ Goto(t, "status") /\ UNCHANGED ans

Reply(t) ==
    /\ At(t, "reply", "idle")
    /\ req' = [req EXCEPT ![t] = Map!Idle]
    /\ Decide(t, Map!Open)
    /\ UNCHANGED <<session, writeMu, work, vault>>

-----------------------------------------------------------------------------
(* get, list, lock and status *)

\* With finds no identity: every operation of Store answers LOCKED.
Locked(t) ==
    /\ step[t] \in {"read", "modify"}
    /\ S!WithLocked(t)
    /\ LeaveWrite(t)
    /\ Conclude(t, Map!Code("LOCKED"))
    /\ UNCHANGED <<req, work, vault>>

Found(t) ==
    LET v == file.data[req[t].n] IN
    IF v = None THEN Map!Code("NOT_FOUND") ELSE [Map!Code("ok") EXCEPT !.value = v]

Get(t) ==
    /\ step[t] = "read" /\ req[t].m = "get"
    /\ S!WithReturns(t, "ok")
    /\ Conclude(t, IF req[t].n = BadName THEN Map!Code("INVALID_ARGUMENT")
                   ELSE IF ReadError(seen[t]) # "none" THEN Map!Code(ReadError(seen[t]))
                   ELSE Found(t))
    /\ UNCHANGED <<req, writeMu, work, vault>>

List(t) ==
    /\ step[t] = "read" /\ req[t].m = "list"
    /\ S!WithReturns(t, "ok")
    /\ Conclude(t, IF ReadError(seen[t]) # "none" THEN Map!Code(ReadError(seen[t]))
                   ELSE [Map!Code("ok") EXCEPT
                            !.names = {n \in Name : file.data[n] # None}])
    /\ UNCHANGED <<req, writeMu, work, vault>>

Lock(t) ==
    /\ step[t] = "lock"
    /\ S!LockBody(t)
    /\ Conclude(t, Map!Code("ok"))
    /\ UNCHANGED <<req, writeMu, work, vault>>

Status(t) ==
    /\ step[t] = "status"
    /\ S!ReadStatus(t)
    /\ Conclude(t, Map!Code("ok"))
    /\ UNCHANGED <<req, writeMu, work, vault>>

-----------------------------------------------------------------------------
(* store and delete: Store.write *)

BeginWrite(t) ==
    /\ At(t, "mutex", "modify")
    /\ EnterWrite(t)
    /\ S!CallWith(t)
    /\ UNCHANGED <<req, ans, work, vault>>

\* Why the cycle stops before anything is written, or "none": reading comes
\* first, then modify's own checks.
ModifyError(t) ==
    IF ReadError(seen[t]) # "none" THEN ReadError(seen[t])
    ELSE IF req[t].n = BadName THEN "INVALID_ARGUMENT"
    ELSE IF req[t].m = "delete" /\ file.data[req[t].n] = None THEN "NOT_FOUND"
    ELSE "none"

AbortWrite(t) ==
    /\ step[t] = "modify"
    /\ S!WithReturns(t, "failed")
    /\ ModifyError(t) # "none"
    /\ LeaveWrite(t)
    /\ Conclude(t, Map!Code(ModifyError(t)))
    /\ UNCHANGED <<req, work, vault>>

\* The vault is decrypted, changed in memory and encrypted again.
Modify(t) ==
    /\ At(t, "modify", "backup")
    /\ pc[t] = "run"
    /\ ModifyError(t) = "none"
    /\ work' = [work EXCEPT ![t] = [file.data EXCEPT ![req[t].n] =
                   IF req[t].m = "store" THEN req[t].v ELSE None]]
    /\ UNCHANGED <<session, req, ans, writeMu, vault>>

Backup(t) ==
    /\ At(t, "backup", "rename")
    /\ bak' = IF file = Absent THEN bak ELSE file
    /\ file' = Absent
    /\ UNCHANGED <<session, req, ans, writeMu, work, fails>>

\* The new vault is in place; the fsync of the directory may still fail.
Replace(t) ==
    /\ At(t, "rename", "written")
    /\ file' = [owner |-> seen[t], data |-> work[t]]
    /\ \/ Decide(t, Map!Code("ok")) /\ UNCHANGED fails
       \/ fails < MaxFails /\ fails' = fails + 1 /\ Decide(t, Map!Code("INTERNAL"))
    /\ UNCHANGED <<session, req, writeMu, work, bak>>

\* atomicfile.Write fails before, or at, the second rename.
WriteFails(t) ==
    /\ step[t] \in {"backup", "rename"}
    /\ fails < MaxFails
    /\ fails' = fails + 1
    /\ Goto(t, "written")
    /\ Decide(t, Map!Code("INTERNAL"))
    /\ UNCHANGED <<session, req, writeMu, work, file, bak>>

EndWrite(t) ==
    /\ At(t, "written", "reply")
    /\ S!WithReturns(t, IF ans[t].code = "ok" THEN "ok" ELSE "failed")
    /\ LeaveWrite(t)
    /\ work' = [work EXCEPT ![t] = Empty]
    /\ UNCHANGED <<req, ans, vault>>

-----------------------------------------------------------------------------
(* unlock: Session.Unlock, then verifyIdentity, then perhaps Session.Lock *)

BeginUnlock(t) ==
    /\ At(t, "parse", "unlock")
    /\ \E i \in Identity, d \in Durations \cup {Nil} : S!CallUnlock(t, i, d)
    /\ UNCHANGED <<req, ans, writeMu, work, vault>>

\* Bind or identity.Parse fails, or secmem.New, which is INTERNAL.
RejectUnlock(t) ==
    /\ step[t] = "parse"
    /\ S!RejectUnlock(t)
    /\ \E code \in {"INVALID_ARGUMENT", "INTERNAL"} : Conclude(t, Map!Code(code))
    /\ UNCHANGED <<req, writeMu, work, vault>>

Unlocked(t) ==
    /\ At(t, "unlock", "unlocked")
    /\ S!UnlockBody(t)
    /\ UNCHANGED <<req, ans, writeMu, work, vault>>

BeginVerify(t) ==
    /\ At(t, "unlocked", "verify")
    /\ S!CallWith(t)
    /\ UNCHANGED <<req, ans, writeMu, work, vault>>

\* A slip: the error is reported, the identity stays.
VerifyOnlyReports(t) ==
    /\ step[t] = "verify"
    /\ S!WithReturns(t, "ok")
    /\ Conclude(t, Map!Code(IF ReadError(seen[t]) = "none" THEN "ok" ELSE ReadError(seen[t])))
    /\ UNCHANGED <<req, writeMu, work, vault>>

\* What is verified is the identity the session holds by now.
Verify(t) ==
    /\ step[t] = "verify"
    /\ S!WithReturns(t, "ok")
    /\ IF ReadError(seen[t]) = "none"
       THEN Conclude(t, Map!Code("ok"))
       ELSE Goto(t, "failed") /\ Decide(t, Map!Code(ReadError(seen[t])))
    /\ UNCHANGED <<req, writeMu, work, vault>>

\* A slip: verification is tried again until somebody unlocks.
VerifyRetries(t) ==
    /\ At(t, "verify", "unlocked")
    /\ S!WithLocked(t)
    /\ UNCHANGED <<req, ans, writeMu, work, vault>>

VerifyLocked(t) ==
    /\ At(t, "verify", "failed")
    /\ S!WithLocked(t)
    /\ Decide(t, Map!Code("LOCKED"))
    /\ UNCHANGED <<req, writeMu, work, vault>>

BeginRelock(t) ==
    /\ At(t, "failed", "relock")
    /\ S!CallLock(t)
    /\ UNCHANGED <<req, ans, writeMu, work, vault>>

Relock(t) ==
    /\ At(t, "relock", "reply")
    /\ S!LockBody(t)
    /\ UNCHANGED <<req, ans, writeMu, work, vault>>

-----------------------------------------------------------------------------

\* What the session does by itself, on behalf of whoever called it.
InSession(A) == A /\ UNCHANGED <<req, ans, step, writeMu, work, vault>>

Request(t) ==
    \E r \in Map!Requests :
        \/ ArriveRead(t, r) \/ ArriveWrite(t, r) \/ ArriveUnlock(t, r)
        \/ ArriveLock(t, r) \/ ArriveStatus(t, r)

Work(t) ==
    \/ Locked(t) \/ Get(t) \/ List(t) \/ Lock(t) \/ Status(t)
    \/ AbortWrite(t) \/ Modify(t) \/ Backup(t) \/ Replace(t)
    \/ WriteFails(t) \/ EndWrite(t)
    \/ BeginUnlock(t) \/ RejectUnlock(t)
    \/ Unlocked(t) \/ BeginVerify(t) \/ Verify(t) \/ VerifyLocked(t)
    \/ BeginRelock(t) \/ Relock(t)
    \/ Reply(t)
    \/ InSession(S!WithRuns(t))

Next ==
    \/ \E t \in Thread : Request(t) \/ Work(t) \/ BeginWrite(t)
    \/ \E p \in S!Proc : InSession(S!Announce(p))
    \/ \E g \in S!Gens : InSession(S!TimerFires(g)) \/ InSession(S!AutoLockBody(g))
    \/ InSession(S!Tick)

Safety == Init /\ [][Next]_vars

\* As in Session; sync.Mutex is as fair as the inner mutex of the RWMutex.
Fairness ==
    /\ \A t \in Thread : WF_vars(Work(t)) /\ SF_vars(BeginWrite(t))
    /\ \A p \in S!Proc : SF_vars(InSession(S!Announce(p)))
    /\ \A g \in S!Gens : /\ WF_vars(InSession(S!TimerFires(g)))
                         /\ WF_vars(InSession(S!AutoLockBody(g)))
    /\ WF_vars(InSession(S!Tick))

Spec == Safety /\ Fairness

-----------------------------------------------------------------------------
(* Properties *)

\* Whatever handlers, locks, unlocks, timers and disk failures do meanwhile,
\* get, list, store and delete act like steps on one map (store.go:45).  A
\* vault that a failed write left as .bak only still counts: nothing is lost.
Linearizable == Map!Spec

\* A write encrypts the vault for the identity that has just decrypted it, so
\* no sequence of unlocks re-encrypts it for a stranger.
VaultKeepsOwner == \A f \in {file, bak} \ {Absent} : f.owner = Owner

\* Between session.Unlock and verifyIdentity the session may hold an identity
\* that opens nothing, but every such unlock ends by removing it: when none is
\* under way, the session is locked or holds the vault's own identity.
SettledIdentityOpensVault ==
    (\A t \in Thread : step[t] \notin {"unlocked", "verify", "failed", "relock"})
        => id \in {Nil, Owner}

\* What keeps a handler from its next step: the store's mutex or the session's.
CanGoOn(t) ==
    \/ step[t] \in {"reply", "backup", "rename"}
    \/ step[t] \in {"parse", "unlocked", "failed"} /\ pc[t] = "idle"
    \/ step[t] = "mutex" /\ pc[t] = "idle" /\ writeMu = NoProc
    \/ step[t] \in {"read", "modify", "verify", "status", "lock", "unlock", "relock",
                    "written"} /\ S!CanGoOn(t)

\* store.go:149: with one mutex inside the other, no handler waits for one that
\* waits for it, and no path keeps a mutex.  While any request is unanswered,
\* a handler can go on, or a callback that keeps them waiting.
NoDeadlock ==
    (\E t \in Thread : step[t] # "idle") =>
        (\E t \in Thread : CanGoOn(t)) \/ \E g \in S!Gens : S!CanGoOn(g)

\* Every request is answered: the store's mutex and the session's are always
\* taken in that order, and every path gives them back.
EveryRequestAnswered == \A t \in Thread : step[t] # "idle" ~> step[t] = "idle"
=============================================================================

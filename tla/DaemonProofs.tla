---------------------------- MODULE DaemonProofs ----------------------------
(***************************************************************************)
(* Theorems about Daemon for any number of handlers, identities, names and *)
(* values: the store is a map in which every request takes effect at once, *)
(* and no sequence of unlocks re-encrypts the vault for a stranger.        *)
(* They rest on an inductive invariant of two parts, one of the identity   *)
(* that writers hold, one of where each request is, to which the session   *)
(* may do what it likes between two steps of the server; and, for what an  *)
(* unlock verifies and for who waits for whom, on all that SessionProofs   *)
(* proves, which holds of the session in here as well (Guarded).           *)
(***************************************************************************)
EXTENDS Daemon, TLAPS

USE HandlerAssumption, OwnerAssumption, NameAssumption, AbsentAssumption

-----------------------------------------------------------------------------
(* The inductive invariant *)

\* As much of the session's types as is needed here.
Shape ==
    /\ pc = [p \in S!Proc |-> pc[p]]
    /\ seen = [t \in Thread |-> seen[t]]
    /\ gen \in Int

\* From its modification to its end a write runs under With, and the identity
\* it will encrypt for is the one that has opened the vault.
WritersHoldOwner ==
    \A t \in Thread :
        /\ step[t] \in {"backup", "rename", "written"} => pc[t] = "run"
        /\ step[t] \in {"backup", "rename"} => seen[t] = Owner

\* The table as t's request will leave it.
Changed(t, table) ==
    [table EXCEPT ![req[t].n] = IF req[t].m = "store" THEN req[t].v ELSE None]

\* Table d is the one that t has changed and nobody else has since.
Pending(t, table) ==
    /\ work[t] = Changed(t, table)
    /\ req[t].n \in Name
    /\ req[t].m = "delete" => table[req[t].n] # None

Types ==
    /\ step \in [Thread -> Steps]
    /\ req \in [Thread -> Map!Requests \cup {Map!Idle}]
    /\ ans = [t \in Thread |-> ans[t]]
    /\ writeMu \in Thread \cup {NoProc}
    /\ work = [t \in Thread |-> work[t]]
    /\ file \in Vaults \cup {Absent} /\ bak \in Vaults \cup {Absent}
    /\ file = Absent => bak # Absent

Before == {"status", "lock", "read", "mutex", "modify", "backup", "rename", "parse",
           "unlock", "unlocked", "verify"}
After  == {"reply", "written", "failed", "relock"}

\* Where t's request is: which step serves which method, whether it is decided
\* already, who has the mutex, and what a writer has in hand.
InStep(t) ==
    /\ writeMu = t <=> step[t] \in WriteSteps
    /\ step[t] = "idle" => req[t] = Map!Idle /\ ans[t] = Map!Open
    /\ step[t] # "idle" => req[t] \in Map!Requests
    /\ step[t] \in Before => ans[t] = Map!Open
    /\ step[t] \in After => ans[t].code # "none"
    /\ step[t] = "read" => req[t].m \in {"get", "list"}
    /\ step[t] \in {"mutex", "modify", "backup", "rename"} => req[t].m \in {"store", "delete"}
    /\ step[t] = "lock" => req[t].m = "lock"
    /\ step[t] = "status" => req[t].m = "status"
    /\ step[t] \in {"parse", "unlock", "unlocked", "verify"} => req[t].m = "unlock"
    /\ step[t] = "backup" => file # Absent /\ Pending(t, file.data)
    /\ step[t] = "rename" => file = Absent /\ Pending(t, bak.data)

IInv ==
    /\ Shape /\ WritersHoldOwner /\ VaultKeepsOwner
    /\ Types /\ \A t \in Thread : InStep(t)

-----------------------------------------------------------------------------
(* What the session's steps do to others *)

\* A step of the session on behalf of t, or of nobody, leaves alone whoever
\* runs under With.
OthersRunOn(T) ==
    \A u \in T : pc[u] = "run" => pc'[u] = "run" /\ seen'[u] = seen[u]

LEMMA HandlersAreNoTimers ==
  /\ Thread \subseteq S!Proc /\ \A t \in Thread : t \notin Int
BY DEF S!Proc

LEMMA CallsDisturbNobody ==
  ASSUME Shape, NEW t \in Thread,
         \/ \E i \in Identity, d \in Durations \cup {Nil} : S!CallUnlock(t, i, d)
         \/ S!RejectUnlock(t) \/ S!CallLock(t) \/ S!CallWith(t) \/ S!CallStatus(t)
  PROVE  Shape' /\ OthersRunOn(Thread)
<1>1. /\ UNCHANGED <<seen, gen>>
      /\ \/ pc' = pc
         \/ pc[t] = "idle" /\ \E at : pc' = [pc EXCEPT ![t] = at]
  BY DEF S!CallUnlock, S!RejectUnlock, S!CallLock, S!CallWith, S!CallStatus, S!CallReader,
     S!Enter, S!fields
<1> QED
  BY <1>1, HandlersAreNoTimers DEF Shape, OthersRunOn

LEMMA ReturnsDisturbNobody ==
  ASSUME Shape, NEW t \in Thread, NEW r, S!ReturnReader(t, r)
  PROVE  Shape' /\ OthersRunOn(Thread \ {t})
<1>1. /\ pc' = [pc EXCEPT ![t] = "idle"] /\ seen' = [seen EXCEPT ![t] = Nil]
      /\ UNCHANGED gen
  BY DEF S!ReturnReader, S!Leave, S!fields
<1> QED
  BY <1>1, HandlersAreNoTimers DEF Shape, OthersRunOn

LEMMA TimerStoppedRunsOn ==
  ASSUME Shape
  PROVE  /\ S!TimerStopped = [p \in S!Proc |-> S!TimerStopped[p]]
         /\ \A u \in Thread : pc[u] = "run" => S!TimerStopped[u] = "run"
<1>1. CASE timer # 0 /\ pc[timer] = "armed"
  <2>1. S!TimerStopped = [pc EXCEPT ![timer] = "stopped"]
    BY <1>1 DEF S!TimerStopped
  <2> QED
    BY <1>1, <2>1, HandlersAreNoTimers DEF Shape
<1>2. CASE ~(timer # 0 /\ pc[timer] = "armed")
  <2>1. S!TimerStopped = pc
    BY <1>2 DEF S!TimerStopped
  <2> QED
    BY <2>1 DEF Shape
<1> QED
  BY <1>1, <1>2

\* Stopping the timer leaves the handlers where they are.
LEMMA TimerStoppedOnly ==
  ASSUME Shape, \A t \in Thread : pc[t] # "armed"
  PROVE  /\ S!TimerStopped = [p \in S!Proc |-> S!TimerStopped[p]]
         /\ \A t \in Thread : S!TimerStopped[t] = pc[t]
<1>1. CASE timer # 0 /\ pc[timer] = "armed"
  <2>1. S!TimerStopped = [pc EXCEPT ![timer] = "stopped"]
    BY <1>1 DEF S!TimerStopped
  <2> QED
    BY <1>1, <2>1, HandlersAreNoTimers DEF Shape
<1>2. CASE ~(timer # 0 /\ pc[timer] = "armed")
  <2>1. S!TimerStopped = pc
    BY <1>2 DEF S!TimerStopped
  <2> QED
    BY <2>1 DEF Shape
<1> QED
  BY <1>1, <1>2

LEMMA BodiesDisturbNobody ==
  ASSUME Shape, NEW t \in Thread, S!UnlockBody(t) \/ S!LockBody(t)
  PROVE  Shape' /\ OthersRunOn(Thread \ {t})
<1> DEFINE stopped == S!TimerStopped
<1>0. /\ stopped = [p \in S!Proc |-> stopped[p]]
      /\ \A u \in Thread : pc[u] = "run" => stopped[u] = "run"
  BY TimerStoppedRunsOn
<1>1. seen' = [seen EXCEPT ![t] = Nil]
  BY DEF S!UnlockBody, S!LockBody, S!Leave
<1>2. gen' \in Int /\ \/ pc' = [stopped EXCEPT ![gen'] = "armed", ![t] = "idle"]
                      \/ pc' = [stopped EXCEPT ![t] = "idle"]
                      \/ pc' = [pc EXCEPT ![t] = "idle"]
  BY DEF S!UnlockBody, S!LockBody, S!Drop, S!fields, Shape
<1> HIDE DEF stopped
<1>3. pc' = [p \in S!Proc |-> pc'[p]]
  BY <1>0, <1>2 DEF Shape
<1>4. \A u \in Thread \ {t} : pc[u] = "run" => pc'[u] = "run"
  BY <1>0, <1>2, HandlersAreNoTimers DEF Shape
<1> QED
  BY <1>1, <1>2, <1>3, <1>4 DEF Shape, OthersRunOn

LEMMA BackgroundDisturbsNobody ==
  ASSUME Shape,
         \/ \E t \in Thread : S!WithRuns(t)
         \/ \E p \in S!Proc : S!Announce(p)
         \/ \E g \in S!Gens : S!TimerFires(g) \/ S!AutoLockBody(g)
         \/ S!Tick
  PROVE  Shape' /\ OthersRunOn(Thread)
<1>1. ASSUME NEW t \in Thread, S!WithRuns(t) PROVE Shape' /\ OthersRunOn(Thread)
  <2>1. /\ pc[t] = "rlock" /\ pc' = [pc EXCEPT ![t] = "run"]
        /\ seen' = [seen EXCEPT ![t] = id] /\ UNCHANGED gen
    BY <1>1 DEF S!WithRuns, S!fields
  <2> QED
    BY <2>1, HandlersAreNoTimers DEF Shape, OthersRunOn
<1>2. ASSUME NEW p \in S!Proc, S!Announce(p) \/ S!TimerFires(p)
      PROVE  Shape' /\ OthersRunOn(Thread)
  <2>1. /\ pc[p] \in {"wlock", "armed"} /\ \E at : pc' = [pc EXCEPT ![p] = at]
        /\ UNCHANGED <<seen, gen>>
    BY <1>2 DEF S!Announce, S!TimerFires, S!fields
  <2> QED
    BY <2>1, HandlersAreNoTimers DEF Shape, OthersRunOn
<1>3. ASSUME NEW g \in S!Gens, S!AutoLockBody(g) PROVE Shape' /\ OthersRunOn(Thread)
  <2> DEFINE stopped == S!TimerStopped
  <2>0. /\ stopped = [p \in S!Proc |-> stopped[p]]
        /\ \A u \in Thread : pc[u] = "run" => stopped[u] = "run"
    BY TimerStoppedRunsOn
  <2>1. /\ pc[g] = "drain"
        /\ pc' = [stopped EXCEPT ![g] = "done"] \/ pc' = [pc EXCEPT ![g] = "done"]
        /\ UNCHANGED <<seen, gen>>
    BY <1>3 DEF S!AutoLockBody, S!Drop, S!fields
  <2> HIDE DEF stopped
  <2>2. g \notin Thread
    BY HandlersAreNoTimers DEF S!Gens
  <2> QED
    BY <2>0, <2>1, <2>2, HandlersAreNoTimers DEF Shape, OthersRunOn
<1>4. CASE S!Tick
  BY <1>4 DEF S!Tick, S!fields, Shape, OthersRunOn
<1>5. S!Gens \subseteq S!Proc
  BY DEF S!Proc
<1> QED
  BY <1>1, <1>2, <1>3, <1>4, <1>5

-----------------------------------------------------------------------------
(* Writers hold the owner's identity *)

\* A step of handler t that neither begins nor carries on with writing.
LEMMA OwnerKept ==
  ASSUME IInv, NEW t \in Thread, NEW to \in Steps \ {"backup", "rename", "written"},
         Shape', OthersRunOn(Thread \ {t}), step' = [step EXCEPT ![t] = to],
         UNCHANGED <<file, bak>>
  PROVE  WritersHoldOwner' /\ VaultKeepsOwner'
<1>1. step \in [Thread -> Steps]
  BY DEF IInv, Types
<1>2. WritersHoldOwner'
  BY <1>1 DEF IInv, WritersHoldOwner, OthersRunOn
<1>3. VaultKeepsOwner'
  BY DEF IInv, VaultKeepsOwner
<1> QED
  BY <1>2, <1>3

\* A step on the way of a write: the session stands still.
LEMMA OwnerWrites ==
  ASSUME IInv, NEW t \in Thread,
         Modify(t) \/ Backup(t) \/ Replace(t) \/ WriteFails(t)
  PROVE  Shape' /\ WritersHoldOwner' /\ VaultKeepsOwner'
<1>0. /\ Shape /\ WritersHoldOwner /\ VaultKeepsOwner /\ step \in [Thread -> Steps]
      /\ file \in Vaults \cup {Absent} /\ bak \in Vaults \cup {Absent}
  BY DEF IInv, Types
<1>1. UNCHANGED <<pc, seen, gen>>
  BY DEF Modify, Backup, Replace, WriteFails, session
<1>2. Shape'
  BY <1>0, <1>1 DEF Shape
<1>3. CASE Modify(t)
  <2>1. /\ step' = [step EXCEPT ![t] = "backup"] /\ pc[t] = "run"
        /\ UNCHANGED <<file, bak>> /\ ReadError(seen[t]) = "none"
    BY <1>3 DEF Modify, At, Goto, ModifyError, vault
  <2>2. file # Absent /\ file.owner = seen[t]
    BY <2>1 DEF ReadError
  <2>3. seen[t] = Owner
    BY <1>0, <2>2 DEF VaultKeepsOwner
  <2> QED
    BY <1>0, <1>1, <1>2, <2>1, <2>3 DEF WritersHoldOwner, VaultKeepsOwner
<1>4. CASE Backup(t)
  <2>1. /\ step[t] = "backup" /\ step' = [step EXCEPT ![t] = "rename"]
        /\ bak' = (IF file = Absent THEN bak ELSE file) /\ file' = Absent
    BY <1>4 DEF Backup, At, Goto
  <2> QED
    BY <1>0, <1>1, <1>2, <2>1 DEF WritersHoldOwner, VaultKeepsOwner
<1>5. CASE Replace(t)
  <2>1. /\ step[t] = "rename" /\ step' = [step EXCEPT ![t] = "written"]
        /\ file' = [owner |-> seen[t], data |-> work[t]] /\ bak' = bak
    BY <1>5 DEF Replace, At, Goto
  <2> QED
    BY <1>0, <1>1, <1>2, <2>1 DEF WritersHoldOwner, VaultKeepsOwner
<1>6. CASE WriteFails(t)
  <2>1. /\ step[t] \in {"backup", "rename"} /\ step' = [step EXCEPT ![t] = "written"]
        /\ UNCHANGED <<file, bak>>
    BY <1>6 DEF WriteFails, Goto
  <2> QED
    BY <1>0, <1>1, <1>2, <2>1 DEF WritersHoldOwner, VaultKeepsOwner
<1> QED
  BY <1>2, <1>3, <1>4, <1>5, <1>6

-----------------------------------------------------------------------------
(* Requests keep in step *)

\* One handler moves.  The others are where they were: the vault is touched
\* only by whoever has the mutex, and the others that write have it not.
LEMMA OneMoves ==
  ASSUME IInv, NEW t \in Thread, NEW to \in Steps, step' = [step EXCEPT ![t] = to],
         req' = req \/ \E r \in Map!Requests \cup {Map!Idle} : req' = [req EXCEPT ![t] = r],
         ans' = ans \/ \E a : ans' = [ans EXCEPT ![t] = a],
         work' = work \/ \E w : work' = [work EXCEPT ![t] = w],
         \/ writeMu' = writeMu
         \/ writeMu = NoProc /\ writeMu' = t
         \/ writeMu = t /\ writeMu' = NoProc,
         \/ UNCHANGED <<file, bak>>
         \/ /\ step[t] \in WriteSteps
            /\ file' \in Vaults \cup {Absent} /\ bak' \in Vaults \cup {Absent}
            /\ file' = Absent => bak' # Absent
  PROVE  Types' /\ \A u \in Thread \ {t} : InStep(u)'
<1>0. Types /\ \A u \in Thread : InStep(u)
  BY DEF IInv
<1>1. Types'
  BY <1>0 DEF Types
<1>2. \A u \in Thread \ {t} : /\ step'[u] = step[u] /\ req'[u] = req[u]
                              /\ ans'[u] = ans[u] /\ work'[u] = work[u]
                              /\ writeMu' = u <=> writeMu = u
  BY <1>0 DEF Types
<1>3. ASSUME NEW u \in Thread \ {t} PROVE InStep(u)'
  <2>1. CASE UNCHANGED <<file, bak>>
    BY <1>0, <1>2, <1>3, <2>1 DEF InStep, Pending, Changed
  <2>2. CASE step[t] \in WriteSteps
    <3>1. step[u] \notin WriteSteps
      BY <1>0, <1>3, <2>2 DEF InStep
    <3> QED
      BY <1>0, <1>2, <1>3, <3>1 DEF InStep, WriteSteps
  <2> QED
    BY <2>1, <2>2
<1> QED
  BY <1>1, <1>3

\* The state of the session and of the others being as it must, a step is
\* good when the one who moves is in step, too.
LEMMA StepIsGood ==
  ASSUME NEW t \in Thread, Shape', WritersHoldOwner', VaultKeepsOwner', Types',
         \A u \in Thread \ {t} : InStep(u)', InStep(t)'
  PROVE  IInv'
BY DEF IInv

LEMMA CodesAreAnswers ==
  /\ \A c : Map!Code(c) = [Map!Open EXCEPT !.code = c] /\ Map!Code(c).code = c
  /\ Map!Open.code = "none"
BY DEF Map!Code, Map!Open

LEMMA RequestForms ==
  /\ Map!Idle \notin Map!Requests
  /\ \A r \in Map!Requests :
        /\ r.m \in {"get", "delete", "store", "list", "lock", "unlock", "status"}
        /\ r.m = "store" => r.v \in Value
        /\ r.m \in {"get", "delete", "store"} => r.n \in Name \cup {BadName}
BY DEF Map!Idle, Map!Requests, Map!NameRequests, Map!Stores, Map!Plain

\* The map that clients see.
Table == IF file = Absent THEN bak.data ELSE file.data

\* A step that only takes t further leaves the map alone.
LEMMA Undecided ==
  ASSUME IInv, NEW t \in Thread, NEW to \in Steps \ {"backup", "rename", "written"},
         step' = [step EXCEPT ![t] = to], UNCHANGED <<req, ans, vault>>,
         work' = work \/ \E w : work' = [work EXCEPT ![t] = w],
         \/ writeMu' = writeMu
         \/ writeMu = NoProc /\ writeMu' = t
         \/ writeMu = t /\ writeMu' = NoProc,
         Shape', OthersRunOn(Thread \ {t}), InStep(t)'
  PROVE  IInv' /\ UNCHANGED Map!vars
<1>1. UNCHANGED <<file, bak>>
  BY DEF vault
<1>2. WritersHoldOwner' /\ VaultKeepsOwner'
  BY <1>1, OwnerKept
<1>3. Types' /\ \A u \in Thread \ {t} : InStep(u)'
  BY <1>1, OneMoves
<1>4. IInv'
  BY <1>2, <1>3, StepIsGood
<1> QED
  BY <1>1, <1>4 DEF Map!vars

\* A step that decides t's request without touching the vault.
LEMMA Decided ==
  ASSUME IInv, NEW t \in Thread, NEW a, a.code # "none", NEW to \in {"reply", "failed"},
         step[t] \in Before, step' = [step EXCEPT ![t] = to],
         Decide(t, a), UNCHANGED <<req, work, vault>>,
         LeaveWrite(t) \/ (step[t] \notin WriteSteps /\ writeMu' = writeMu),
         Shape', OthersRunOn(Thread \ {t})
  PROVE  IInv' /\ Map!Decide(t, a, Table)
<1>0. Types /\ InStep(t) /\ UNCHANGED <<file, bak>>
  BY DEF IInv, vault
<1>1. ans' = [ans EXCEPT ![t] = a] /\ ans[t] = Map!Open
  BY <1>0 DEF Decide, InStep
<1>2. writeMu' = writeMu \/ (writeMu = t /\ writeMu' = NoProc)
  BY DEF LeaveWrite
<1>3. writeMu' # t
  BY <1>0 DEF LeaveWrite, InStep
<1>4. to \in Steps \ {"backup", "rename", "written"}
  BY DEF Steps
<1>5. WritersHoldOwner' /\ VaultKeepsOwner'
  BY <1>0, <1>4, OwnerKept
<1>6. Types' /\ \A u \in Thread \ {t} : InStep(u)'
  BY <1>0, <1>1, <1>2, <1>4, OneMoves
<1>7. InStep(t)'
  <2>1. step'[t] = to /\ req'[t] = req[t] /\ ans'[t] = a
    BY <1>0, <1>1 DEF Types
  <2>2. req[t] \in Map!Requests
    BY <1>0 DEF InStep, Before
  <2> QED
    BY <1>3, <2>1, <2>2 DEF InStep, WriteSteps, Before, After
<1>8. IInv'
  BY <1>5, <1>6, <1>7, StepIsGood
<1>9. Map!Decide(t, a, Table)
  BY <1>0, <1>1 DEF Map!Decide, Table
<1> QED
  BY <1>8, <1>9

-----------------------------------------------------------------------------
(* Action by action *)

LEMMA Arriving ==
  ASSUME IInv, NEW t \in Thread, Request(t)
  PROVE  IInv' /\ Map!Next
<1>1. PICK r \in Map!Requests :
         \/ ArriveRead(t, r) \/ ArriveWrite(t, r) \/ ArriveUnlock(t, r)
         \/ ArriveLock(t, r) \/ ArriveStatus(t, r)
  BY DEF Request
<1>0. Types /\ InStep(t) /\ Shape
  BY DEF IInv
<1>2. /\ step[t] = "idle" /\ req' = [req EXCEPT ![t] = r] /\ UNCHANGED ans
      /\ UNCHANGED <<writeMu, work, vault>>
  BY <1>1 DEF Arrive, ArriveRead, ArriveWrite, ArriveUnlock, ArriveLock, ArriveStatus
<1>3. UNCHANGED <<file, bak>>
  BY <1>2 DEF vault
<1>4. PICK to \in {"read", "mutex", "parse", "lock", "status"} :
         /\ step' = [step EXCEPT ![t] = to]
         /\ to = "read" => r.m \in {"get", "list"}
         /\ to = "mutex" => r.m \in {"store", "delete"}
         /\ to = "parse" => r.m = "unlock"
         /\ to = "lock" => r.m = "lock"
         /\ to = "status" => r.m = "status"
  BY <1>1 DEF Goto, ArriveRead, ArriveWrite, ArriveUnlock, ArriveLock, ArriveStatus
<1>5. to \in Steps \ {"backup", "rename", "written"}
  BY DEF Steps
<1>6. Shape' /\ OthersRunOn(Thread)
  <2>1. CASE S!CallWith(t) \/ S!CallLock(t) \/ S!CallStatus(t)
    BY <1>0, <2>1, CallsDisturbNobody
  <2>2. CASE UNCHANGED session
    BY <1>0, <2>2 DEF session, Shape, OthersRunOn
  <2> QED
    BY <1>1, <2>1, <2>2
       DEF ArriveRead, ArriveWrite, ArriveUnlock, ArriveLock, ArriveStatus
<1>7. WritersHoldOwner' /\ VaultKeepsOwner'
  BY <1>3, <1>4, <1>5, <1>6, OwnerKept DEF OthersRunOn
<1>8. Types' /\ \A u \in Thread \ {t} : InStep(u)'
  BY <1>2, <1>3, <1>4, <1>5, OneMoves
<1>9. InStep(t)'
  <2>1. step'[t] = to /\ req'[t] = r /\ ans'[t] = Map!Open /\ writeMu' # t
    BY <1>0, <1>2, <1>4 DEF Types, InStep, WriteSteps
  <2> QED
    BY <1>4, <2>1 DEF InStep, WriteSteps, Before, After
<1>10. IInv'
  BY <1>6, <1>7, <1>8, <1>9, StepIsGood
<1>11. Map!Arrive(t)
  BY <1>0, <1>2, <1>3 DEF Map!Arrive, InStep
<1> QED
  BY <1>10, <1>11 DEF Map!Next

LEMMA Replying ==
  ASSUME IInv, NEW t \in Thread, Reply(t)
  PROVE  IInv' /\ Map!Next
<1>0. Types /\ InStep(t) /\ Shape
  BY DEF IInv
<1>1. /\ step[t] = "reply" /\ step' = [step EXCEPT ![t] = "idle"]
      /\ req' = [req EXCEPT ![t] = Map!Idle] /\ ans' = [ans EXCEPT ![t] = Map!Open]
      /\ UNCHANGED <<writeMu, work, file, bak>> /\ UNCHANGED <<pc, seen, gen>>
  BY DEF Reply, At, Goto, Decide, session, vault
<1>2. Shape' /\ OthersRunOn(Thread \ {t})
  BY <1>0, <1>1 DEF Shape, OthersRunOn
<1>3. "idle" \in Steps \ {"backup", "rename", "written"}
  BY DEF Steps
<1>4. WritersHoldOwner' /\ VaultKeepsOwner'
  BY <1>1, <1>2, <1>3, OwnerKept
<1>5. Types' /\ \A u \in Thread \ {t} : InStep(u)'
  BY <1>1, <1>3, OneMoves
<1>6. InStep(t)'
  BY <1>0, <1>1 DEF Types, InStep, WriteSteps, Before, After
<1>7. IInv'
  BY <1>2, <1>4, <1>5, <1>6, StepIsGood
<1>8. ans[t] # Map!Open
  BY <1>0, <1>1, CodesAreAnswers DEF InStep, After
<1>9. Map!Answer(t)
  BY <1>1, <1>8 DEF Map!Answer
<1> QED
  BY <1>7, <1>9 DEF Map!Next

\* Answers that carry nothing but a code.
LEMMA Refusing ==
  ASSUME NEW t \in Thread, NEW c \in {"LOCKED", "INVALID_ARGUMENT", "INTERNAL"},
         req[t] # Map!Idle, Map!Decide(t, Map!Code(c), Table)
  PROVE  Map!Next
<1>1. Map!Code(c) \in Map!Refusals
  BY DEF Map!Refusals
<1>2. Map!Refuse(t)
  BY <1>1 DEF Map!Refuse, Table
<1> QED
  BY <1>2 DEF Map!Next

LEMMA LockedOut ==
  ASSUME IInv, NEW t \in Thread, Locked(t) \/ RejectUnlock(t) \/ VerifyLocked(t)
  PROVE  IInv' /\ Map!Next
<1>0. Types /\ InStep(t) /\ Shape
  BY DEF IInv
<1>1. Shape' /\ OthersRunOn(Thread \ {t})
  <2>1. CASE S!WithLocked(t)
    BY <1>0, <2>1, ReturnsDisturbNobody DEF S!WithLocked
  <2>2. CASE S!RejectUnlock(t)
    BY <1>0, <2>2, CallsDisturbNobody DEF OthersRunOn
  <2> QED
    BY <2>1, <2>2 DEF Locked, RejectUnlock, VerifyLocked
<1>2. PICK c \in {"LOCKED", "INVALID_ARGUMENT", "INTERNAL"}, to \in {"reply", "failed"} :
         /\ step' = [step EXCEPT ![t] = to] /\ Decide(t, Map!Code(c))
         /\ UNCHANGED <<req, work, vault>>
         /\ step[t] \in {"read", "modify", "parse", "verify"}
         /\ LeaveWrite(t) \/ (step[t] \notin WriteSteps /\ writeMu' = writeMu)
  BY DEF Locked, RejectUnlock, VerifyLocked, Conclude, Goto, At, WriteSteps
<1>3. step[t] \in Before /\ req[t] # Map!Idle
  BY <1>0, <1>2, RequestForms DEF Before, InStep
<1>4. Map!Code(c).code # "none"
  BY CodesAreAnswers
<1>5. IInv' /\ Map!Decide(t, Map!Code(c), Table)
  BY <1>1, <1>2, <1>3, <1>4, Decided
<1> QED
  BY <1>3, <1>5, Refusing

\* What a reader answers, whatever else goes on: file cannot change under it,
\* for no writer is between its two renames while the table is read.
LEMMA Reading ==
  ASSUME IInv, NEW t \in Thread, Get(t) \/ List(t)
  PROVE  IInv' /\ Map!Next
<1>0. Types /\ InStep(t) /\ Shape
  BY DEF IInv
<1>1. Shape' /\ OthersRunOn(Thread \ {t})
  BY <1>0, ReturnsDisturbNobody DEF Get, List, S!WithReturns
<1>2. /\ step[t] = "read" /\ step' = [step EXCEPT ![t] = "reply"]
      /\ UNCHANGED <<req, work, vault>> /\ writeMu' = writeMu
  BY DEF Get, List, Conclude, Goto
<1>3. step[t] \in Before /\ step[t] \notin WriteSteps /\ req[t] \in Map!Requests
  BY <1>0, <1>2 DEF Before, WriteSteps, InStep
<1>4. \A a : Decide(t, a) /\ a.code # "none" => IInv' /\ Map!Decide(t, a, Table)
  BY <1>1, <1>2, <1>3, Decided
<1>5. ASSUME NEW c \in {"INVALID_ARGUMENT", "INTERNAL"}, Decide(t, Map!Code(c))
      PROVE  IInv' /\ Map!Next
  <2>1. Map!Code(c).code # "none"
    BY CodesAreAnswers
  <2>2. IInv' /\ Map!Decide(t, Map!Code(c), Table)
    BY <1>4, <1>5, <2>1
  <2> QED
    BY <1>3, <2>2, RequestForms, Refusing
<1>6. ReadError(seen[t]) # "none" => ReadError(seen[t]) \in {"INVALID_ARGUMENT", "INTERNAL"}
  BY DEF ReadError
<1>7. ReadError(seen[t]) = "none" => Table = file.data
  BY DEF ReadError, Table
<1>8. CASE Get(t)
  <2>1. /\ req[t].m = "get" /\ req[t].n \in Name \cup {BadName}
        /\ Decide(t, IF req[t].n = BadName THEN Map!Code("INVALID_ARGUMENT")
                     ELSE IF ReadError(seen[t]) # "none" THEN Map!Code(ReadError(seen[t]))
                     ELSE Found(t))
    BY <1>3, <1>8, RequestForms DEF Get, Conclude
  <2>2. CASE req[t].n # BadName /\ ReadError(seen[t]) = "none"
    <3>1. Decide(t, Found(t)) /\ req[t].n \in Name
      BY <2>1, <2>2
    <3>2. Found(t).code # "none"
      BY CodesAreAnswers DEF Found, Map!Code, Map!Open
    <3>3. IInv' /\ Map!Decide(t, Found(t), Table)
      BY <1>4, <3>1, <3>2
    <3>4. Map!Get(t)
      BY <1>7, <2>1, <2>2, <3>1, <3>3 DEF Map!Get, Found, Table
    <3> QED
      BY <3>3, <3>4 DEF Map!Next
  <2> QED
    BY <1>5, <1>6, <2>1, <2>2
<1>9. CASE List(t)
  <2> DEFINE all == [Map!Code("ok") EXCEPT !.names = {n \in Name : file.data[n] # None}]
  <2>1. /\ req[t].m = "list"
        /\ Decide(t, IF ReadError(seen[t]) # "none" THEN Map!Code(ReadError(seen[t]))
                     ELSE all)
    BY <1>9 DEF List, Conclude
  <2>2. CASE ReadError(seen[t]) = "none"
    <3>1. Decide(t, all)
      BY <2>1, <2>2
    <3>2. all.code # "none"
      BY DEF Map!Code, Map!Open
    <3>3. IInv' /\ Map!Decide(t, all, Table)
      BY <1>4, <3>1, <3>2
    <3>4. Map!List(t)
      BY <1>7, <2>1, <2>2, <3>3 DEF Map!List, Table
    <3> QED
      BY <3>3, <3>4 DEF Map!Next
  <2> QED
    BY <1>5, <1>6, <2>1, <2>2
<1> QED
  BY <1>8, <1>9

LEMMA Locking ==
  ASSUME IInv, NEW t \in Thread, Lock(t) \/ Status(t)
  PROVE  IInv' /\ Map!Next
<1>0. Types /\ InStep(t) /\ Shape
  BY DEF IInv
<1>1. Shape' /\ OthersRunOn(Thread \ {t})
  BY <1>0, BodiesDisturbNobody, ReturnsDisturbNobody DEF Lock, Status, S!ReadStatus
<1>2. /\ step[t] \in {"lock", "status"} /\ step' = [step EXCEPT ![t] = "reply"]
      /\ Decide(t, Map!Code("ok"))
      /\ UNCHANGED <<req, work, vault>> /\ writeMu' = writeMu
  BY DEF Lock, Status, Conclude, Goto
<1>3. /\ step[t] \in Before /\ step[t] \notin WriteSteps
      /\ req[t].m \in {"lock", "status"}
  BY <1>0, <1>2 DEF Before, WriteSteps, InStep
<1>4. Map!Code("ok").code # "none"
  BY CodesAreAnswers
<1>5. IInv' /\ Map!Decide(t, Map!Code("ok"), Table)
  BY <1>1, <1>2, <1>3, <1>4, Decided
<1>6. Map!Other(t)
  BY <1>3, <1>5 DEF Map!Other, Table
<1> QED
  BY <1>5, <1>6 DEF Map!Next

LEMMA Verifying ==
  ASSUME IInv, NEW t \in Thread, Verify(t)
  PROVE  IInv' /\ Map!Next
<1>0. Types /\ InStep(t) /\ Shape
  BY DEF IInv
<1>1. Shape' /\ OthersRunOn(Thread \ {t})
  BY <1>0, ReturnsDisturbNobody DEF Verify, S!WithReturns
<1>2. /\ step[t] = "verify" /\ UNCHANGED <<req, work, vault>> /\ writeMu' = writeMu
  BY DEF Verify
<1>3. /\ step[t] \in Before /\ step[t] \notin WriteSteps
      /\ req[t] \in Map!Requests /\ req[t].m = "unlock"
  BY <1>0, <1>2 DEF Before, WriteSteps, InStep
<1>4. PICK c \in {"ok", "INVALID_ARGUMENT", "INTERNAL"}, to \in {"reply", "failed"} :
         step' = [step EXCEPT ![t] = to] /\ Decide(t, Map!Code(c))
  BY DEF Verify, Conclude, Goto, ReadError
<1>5. Map!Code(c).code # "none"
  BY CodesAreAnswers
<1>6. IInv' /\ Map!Decide(t, Map!Code(c), Table)
  BY <1>1, <1>2, <1>3, <1>4, <1>5, Decided
<1>7. CASE c = "ok"
  <2>1. Map!Other(t)
    BY <1>3, <1>6, <1>7 DEF Map!Other, Table
  <2> QED
    BY <1>6, <2>1 DEF Map!Next
<1>8. CASE c # "ok"
  BY <1>3, <1>6, <1>8, RequestForms, Refusing
<1> QED
  BY <1>7, <1>8

\* Nothing is written: the vault cannot be read, or modify objects.
LEMMA Aborting ==
  ASSUME IInv, NEW t \in Thread, AbortWrite(t)
  PROVE  IInv' /\ Map!Next
<1>0. Types /\ InStep(t) /\ Shape
  BY DEF IInv
<1>1. Shape' /\ OthersRunOn(Thread \ {t})
  BY <1>0, ReturnsDisturbNobody DEF AbortWrite, S!WithReturns
<1>2. /\ step[t] = "modify" /\ step' = [step EXCEPT ![t] = "reply"] /\ LeaveWrite(t)
      /\ ModifyError(t) # "none" /\ Decide(t, Map!Code(ModifyError(t)))
      /\ UNCHANGED <<req, work, vault>>
  BY DEF AbortWrite, Conclude, Goto
<1>3. /\ step[t] \in Before /\ req[t] \in Map!Requests /\ req[t].m \in {"store", "delete"}
  BY <1>0, <1>2 DEF Before, InStep
<1>4. Map!Code(ModifyError(t)).code # "none"
  BY <1>2, CodesAreAnswers
<1>5. IInv' /\ Map!Decide(t, Map!Code(ModifyError(t)), Table)
  BY <1>1, <1>2, <1>3, <1>4, Decided
<1>6. CASE ModifyError(t) = "NOT_FOUND"
  <2>1. /\ ReadError(seen[t]) = "none" /\ req[t].n # BadName
        /\ req[t].m = "delete" /\ file.data[req[t].n] = None
    BY <1>6 DEF ModifyError, ReadError
  <2>2. Table = file.data /\ req[t].n \in Name
    BY <1>3, <2>1, RequestForms DEF ReadError, Table
  <2>3. Map!Delete(t)
    BY <1>5, <1>6, <2>1, <2>2 DEF Map!Delete, Table
  <2> QED
    BY <1>5, <2>3 DEF Map!Next
<1>7. CASE ModifyError(t) # "NOT_FOUND"
  <2>1. ModifyError(t) \in {"INVALID_ARGUMENT", "INTERNAL"}
    BY <1>2, <1>7 DEF ModifyError, ReadError
  <2> QED
    BY <1>3, <1>5, <2>1, RequestForms, Refusing
<1> QED
  BY <1>6, <1>7

\* The steps of an unlock, a verification and a write that only go on.
LEMMA GoingOn ==
  ASSUME IInv, NEW t \in Thread,
         \/ BeginUnlock(t) \/ Unlocked(t) \/ BeginVerify(t) \/ BeginRelock(t) \/ Relock(t)
         \/ BeginWrite(t) \/ EndWrite(t)
  PROVE  IInv' /\ UNCHANGED Map!vars
<1>0. Types /\ InStep(t) /\ Shape
  BY DEF IInv
<1>1. Shape' /\ OthersRunOn(Thread \ {t})
  <2>1. CASE BeginUnlock(t) \/ BeginVerify(t) \/ BeginRelock(t) \/ BeginWrite(t)
    <3>1. Shape' /\ OthersRunOn(Thread)
      BY <1>0, <2>1, CallsDisturbNobody
         DEF BeginUnlock, BeginVerify, BeginRelock, BeginWrite
    <3> QED
      BY <3>1 DEF OthersRunOn
  <2>2. CASE Unlocked(t) \/ Relock(t)
    BY <1>0, <2>2, BodiesDisturbNobody DEF Unlocked, Relock
  <2>3. CASE EndWrite(t)
    BY <1>0, <2>3, ReturnsDisturbNobody DEF EndWrite, S!WithReturns
  <2> QED
    BY <2>1, <2>2, <2>3
<1>2. PICK from, to :
         /\ <<from, to>> \in {<<"parse", "unlock">>, <<"unlock", "unlocked">>,
                              <<"unlocked", "verify">>, <<"failed", "relock">>,
                              <<"relock", "reply">>, <<"mutex", "modify">>,
                              <<"written", "reply">>}
         /\ step[t] = from /\ step' = [step EXCEPT ![t] = to]
         /\ \/ from \notin {"mutex", "written"} /\ writeMu' = writeMu
            \/ from = "mutex" /\ EnterWrite(t)
            \/ from = "written" /\ LeaveWrite(t)
  BY DEF BeginUnlock, Unlocked, BeginVerify, BeginRelock, Relock, BeginWrite, EndWrite,
     At, Goto
<1>3. /\ UNCHANGED <<req, ans, vault>>
      /\ work' = work \/ \E w : work' = [work EXCEPT ![t] = w]
  BY DEF BeginUnlock, Unlocked, BeginVerify, BeginRelock, Relock, BeginWrite, EndWrite
<1>4. to \in Steps \ {"backup", "rename", "written"}
  BY <1>2 DEF Steps
<1>5. \/ writeMu' = writeMu
      \/ writeMu = NoProc /\ writeMu' = t
      \/ writeMu = t /\ writeMu' = NoProc
  BY <1>2 DEF EnterWrite, LeaveWrite
<1>6. InStep(t)'
  <2>1. step'[t] = to /\ req'[t] = req[t] /\ ans'[t] = ans[t]
    BY <1>0, <1>2, <1>3 DEF Types
  <2>2. writeMu' = t <=> to \in WriteSteps
    BY <1>0, <1>2 DEF InStep, WriteSteps, EnterWrite, LeaveWrite
  <2>3. req[t] \in Map!Requests
    BY <1>0, <1>2 DEF InStep
  <2> QED
    BY <1>0, <1>2, <2>1, <2>2, <2>3 DEF InStep, Before, After
<1> QED
  BY <1>1, <1>2, <1>3, <1>4, <1>5, <1>6, Undecided

\* The session's own steps leave the server where it is.
LEMMA InBackground ==
  ASSUME IInv,
         \/ \E t \in Thread : InSession(S!WithRuns(t))
         \/ \E p \in S!Proc : InSession(S!Announce(p))
         \/ \E g \in S!Gens : InSession(S!TimerFires(g)) \/ InSession(S!AutoLockBody(g))
         \/ InSession(S!Tick)
  PROVE  IInv' /\ UNCHANGED Map!vars
<1>1. UNCHANGED <<req, ans, step, writeMu, work, file, bak>>
  BY DEF InSession, vault
<1>2. Shape /\ WritersHoldOwner /\ VaultKeepsOwner /\ Types /\ \A t \in Thread : InStep(t)
  BY DEF IInv
<1>3. Shape' /\ OthersRunOn(Thread)
  BY <1>2, BackgroundDisturbsNobody DEF InSession
<1>4. WritersHoldOwner' /\ VaultKeepsOwner'
  BY <1>1, <1>2, <1>3 DEF WritersHoldOwner, VaultKeepsOwner, OthersRunOn
<1>5. Types'
  BY <1>1, <1>2 DEF Types
<1>6. \A t \in Thread : InStep(t)'
  BY <1>1, <1>2 DEF InStep, Pending, Changed
<1>7. UNCHANGED Map!vars
  BY <1>1 DEF Map!vars
<1> QED
  BY <1>3, <1>4, <1>5, <1>6, <1>7 DEF IInv

\* The changed table is fixed under the mutex, against a vault nobody else
\* will touch before the write is over.
LEMMA Modifying ==
  ASSUME IInv, NEW t \in Thread, Modify(t)
  PROVE  IInv' /\ UNCHANGED Map!vars
<1>0. Types /\ InStep(t)
  BY DEF IInv
<1>1. /\ step[t] = "modify" /\ step' = [step EXCEPT ![t] = "backup"]
      /\ UNCHANGED <<req, ans, writeMu, file, bak>>
      /\ ModifyError(t) = "none" /\ work' = [work EXCEPT ![t] = Changed(t, file.data)]
  BY DEF Modify, At, Goto, Changed, vault
<1>2. /\ file # Absent /\ req[t].n # BadName
      /\ req[t].m = "delete" => file.data[req[t].n] # None
  BY <1>1 DEF ModifyError, ReadError
<1>3. req[t] \in Map!Requests /\ req[t].m \in {"store", "delete"}
  BY <1>0, <1>1 DEF InStep
<1>4. req[t].n \in Name
  BY <1>2, <1>3, RequestForms
<1>5. Shape' /\ WritersHoldOwner' /\ VaultKeepsOwner'
  BY OwnerWrites
<1>6. "backup" \in Steps
  BY DEF Steps
<1>7. Types' /\ \A u \in Thread \ {t} : InStep(u)'
  BY <1>1, <1>6, OneMoves
<1>8. InStep(t)'
  <2>1. step'[t] = "backup" /\ work'[t] = Changed(t, file.data)
    BY <1>0, <1>1 DEF Types
  <2>2. Pending(t, file.data)'
    BY <1>1, <1>2, <1>4, <2>1 DEF Pending, Changed
  <2> QED
    BY <1>0, <1>1, <1>2, <1>3, <2>1, <2>2 DEF InStep, WriteSteps, Before, After
<1>9. UNCHANGED Map!vars
  BY <1>1 DEF Map!vars
<1> QED
  BY <1>5, <1>7, <1>8, <1>9, StepIsGood

\* The old vault becomes the backup; what can be recovered is the same.
LEMMA BackingUp ==
  ASSUME IInv, NEW t \in Thread, Backup(t)
  PROVE  IInv' /\ UNCHANGED Map!vars
<1>0. Types /\ InStep(t)
  BY DEF IInv
<1>1. /\ step[t] = "backup" /\ step' = [step EXCEPT ![t] = "rename"]
      /\ UNCHANGED <<req, ans, writeMu, work>>
      /\ bak' = (IF file = Absent THEN bak ELSE file) /\ file' = Absent
  BY DEF Backup, At, Goto
<1>2. file # Absent /\ Pending(t, file.data) /\ bak' = file
  BY <1>0, <1>1 DEF InStep
<1>3. Shape' /\ WritersHoldOwner' /\ VaultKeepsOwner'
  BY OwnerWrites
<1>4. "rename" \in Steps /\ step[t] \in WriteSteps
  BY <1>1 DEF Steps, WriteSteps
<1>5. /\ file' \in Vaults \cup {Absent} /\ bak' \in Vaults \cup {Absent}
      /\ file' = Absent => bak' # Absent
  BY <1>0, <1>1, <1>2 DEF Types
<1>6. Types' /\ \A u \in Thread \ {t} : InStep(u)'
  BY <1>1, <1>4, <1>5, OneMoves
<1>7. InStep(t)'
  <2>1. step'[t] = "rename"
    BY <1>0, <1>1 DEF Types
  <2>2. Pending(t, bak.data)'
    BY <1>1, <1>2 DEF Pending, Changed
  <2> QED
    BY <1>0, <1>1, <2>1, <2>2 DEF InStep, WriteSteps, Before, After
<1>8. UNCHANGED Map!vars
  BY <1>1, <1>2 DEF Map!vars
<1> QED
  BY <1>3, <1>6, <1>7, <1>8, StepIsGood

\* The moment a store or a delete takes effect.
LEMMA Replacing ==
  ASSUME IInv, NEW t \in Thread, Replace(t)
  PROVE  IInv' /\ Map!Next
<1>0. /\ Types /\ InStep(t) /\ WritersHoldOwner
  BY DEF IInv
<1>1. /\ step[t] = "rename" /\ step' = [step EXCEPT ![t] = "written"]
      /\ UNCHANGED <<req, writeMu, work, bak>>
      /\ file' = [owner |-> seen[t], data |-> work[t]]
  BY DEF Replace, At, Goto
<1>2. PICK c \in {"ok", "INTERNAL"} : Decide(t, Map!Code(c))
  BY DEF Replace
<1>3. /\ file = Absent /\ bak \in Vaults /\ Pending(t, bak.data) /\ seen[t] = Owner
      /\ ans[t] = Map!Open /\ req[t] \in Map!Requests /\ req[t].m \in {"store", "delete"}
  BY <1>0, <1>1 DEF InStep, Types, WritersHoldOwner, Before
<1>4. work[t] = Changed(t, bak.data) /\ req[t].n \in Name
  BY <1>3 DEF Pending
<1>5. bak.data \in Tables /\ work[t] \in Tables
  BY <1>3, <1>4, RequestForms DEF Vaults, Tables, Changed
<1>6. file' \in Vaults
  BY <1>1, <1>3, <1>5, OwnerAssumption DEF Vaults
<1>7. Shape' /\ WritersHoldOwner' /\ VaultKeepsOwner'
  BY OwnerWrites
<1>8. /\ "written" \in Steps /\ step[t] \in WriteSteps
      /\ ans' = [ans EXCEPT ![t] = Map!Code(c)]
  BY <1>1, <1>2 DEF Steps, WriteSteps, Decide
<1>9. file' # Absent
  BY <1>6, AbsentAssumption
<1>10. Types' /\ \A u \in Thread \ {t} : InStep(u)'
  BY <1>1, <1>3, <1>6, <1>8, <1>9, OneMoves
<1>11. InStep(t)'
  <2>1. step'[t] = "written" /\ ans'[t] = Map!Code(c) /\ req'[t] = req[t]
    BY <1>0, <1>1, <1>8 DEF Types
  <2> QED
    BY <1>0, <1>1, <1>3, <2>1, CodesAreAnswers DEF InStep, WriteSteps, Before, After
<1>12. Map!Decide(t, Map!Code(c), Changed(t, bak.data))
  BY <1>1, <1>3, <1>4, <1>8, <1>9 DEF Map!Decide
<1>13. Map!Store(t) \/ Map!Delete(t)
  <2>1. CASE req[t].m = "store"
    BY <1>2, <1>3, <1>4, <1>12, <2>1 DEF Map!Store, Changed
  <2>2. CASE req[t].m = "delete"
    BY <1>2, <1>3, <1>4, <1>12, <2>2 DEF Map!Delete, Changed, Pending
  <2> QED
    BY <1>3, <2>1, <2>2
<1> QED
  BY <1>7, <1>10, <1>11, <1>13, StepIsGood DEF Map!Next

\* A write that fails has changed nothing that could not be recovered.
LEMMA Failing ==
  ASSUME IInv, NEW t \in Thread, WriteFails(t)
  PROVE  IInv' /\ Map!Next
<1>0. Types /\ InStep(t)
  BY DEF IInv
<1>1. /\ step[t] \in {"backup", "rename"} /\ step' = [step EXCEPT ![t] = "written"]
      /\ ans' = [ans EXCEPT ![t] = Map!Code("INTERNAL")]
      /\ UNCHANGED <<req, writeMu, work, file, bak>>
  BY DEF WriteFails, Goto, Decide
<1>2. ans[t] = Map!Open /\ req[t] \in Map!Requests
  BY <1>0, <1>1 DEF InStep, Before
<1>3. Shape' /\ WritersHoldOwner' /\ VaultKeepsOwner'
  BY OwnerWrites
<1>4. "written" \in Steps
  BY DEF Steps
<1>5. Types' /\ \A u \in Thread \ {t} : InStep(u)'
  BY <1>1, <1>4, OneMoves
<1>6. InStep(t)'
  <2>1. step'[t] = "written" /\ ans'[t] = Map!Code("INTERNAL") /\ req'[t] = req[t]
    BY <1>0, <1>1 DEF Types
  <2> QED
    BY <1>0, <1>1, <1>2, <2>1, CodesAreAnswers DEF InStep, WriteSteps, Before, After
<1>7. Map!Decide(t, Map!Code("INTERNAL"), Table)
  BY <1>1, <1>2 DEF Map!Decide, Table
<1>8. Map!Next
  BY <1>2, <1>7, RequestForms, Refusing
<1> QED
  BY <1>3, <1>5, <1>6, <1>8, StepIsGood

-----------------------------------------------------------------------------
(* The session under the server *)

\* What SessionProofs proves of every session holds of the one in here.  The
\* two instances of Session have the same definitions, word for word.
SP == INSTANCE SessionProofs

LEMMA SessionAssumed ==
  /\ SP!ThreadAssumption /\ SP!FiniteAssumption /\ SP!NilAssumption
  /\ SP!NoProcAssumption /\ SP!DurationAssumption /\ SP!BoundAssumption
BY SessionAssumption
   DEF SP!ThreadAssumption, SP!FiniteAssumption, SP!NilAssumption, SP!NoProcAssumption,
       SP!DurationAssumption, SP!BoundAssumption, SP!Proc, SP!Gens,
       IsFiniteSet, SP!IsFiniteSet

LEMMA SameSteps == [S!Next]_(S!vars) => [SP!Next]_(SP!vars)
BY DEF S!vars, SP!vars, S!fields, SP!fields, S!Next, SP!Next, S!Call, SP!Call,
         S!Step, SP!Step, S!Tick, SP!Tick, S!CallUnlock, SP!CallUnlock,
         S!Enter, SP!Enter, S!RejectUnlock, SP!RejectUnlock, S!CallLock, SP!CallLock,
         S!CallWith, SP!CallWith, S!CallStatus, SP!CallStatus,
         S!CallReader, SP!CallReader, S!Unlocking, SP!Unlocking,
         S!Cardinality, SP!Cardinality, S!IsFiniteSet, SP!IsFiniteSet, S!Proc, SP!Proc,
         S!Gens, SP!Gens, S!Plain, SP!Plain, S!NoJob, SP!NoJob,
         S!ReadStatus, SP!ReadStatus, S!WithLocked, SP!WithLocked,
         S!WithRuns, SP!WithRuns, S!WithReturns, SP!WithReturns,
         S!ReturnReader, SP!ReturnReader, S!Leave, SP!Leave, S!Announce, SP!Announce,
         S!CanAnnounce, SP!CanAnnounce, S!Announced, SP!Announced, S!RLocked, SP!RLocked,
         S!RUnlocked, SP!RUnlocked, S!Unlocked, SP!Unlocked, S!Owns, SP!Owns,
         S!TimerStopped, SP!TimerStopped, S!BufferDestroyed, SP!BufferDestroyed,
         S!Drop, SP!Drop, S!Limited, SP!Limited, S!UnlockBody, SP!UnlockBody,
         S!LockBody, SP!LockBody, S!SameSession, SP!SameSession,
         S!AutoLockBody, SP!AutoLockBody, S!TimerFires, SP!TimerFires

LEMMA SameInit == S!Init => SP!Init
BY DEF S!Init, SP!Init, S!Unheld, SP!Unheld, S!Proc, SP!Proc, S!Gens, SP!Gens,
       S!NoJob, SP!NoJob, S!Plain, SP!Plain

\* The session's inductive invariant, and the parts of it that matter here.
Guarded == SP!IInv /\ SP!LockBooks /\ SP!CallsFit /\ SP!Buffers

LEMMA GuardedParts ==
  ASSUME Guarded
  PROVE  /\ S!RunningKeepsIdentity /\ S!BufferIsIdentity /\ S!NoDeadlock
         /\ \A t \in Thread : pc[t] \in {"idle", "rlock", "run", "wlock", "drain"}
         /\ timer \in Int /\ gen \in Int
<1>1. SP!RunningKeepsIdentity /\ SP!BufferIsIdentity /\ SP!OwnSteps /\ SP!TypeOK
  BY DEF Guarded, SP!IInv
<1>2. S!RunningKeepsIdentity /\ S!BufferIsIdentity
  BY <1>1 DEF S!RunningKeepsIdentity, SP!RunningKeepsIdentity, S!BufferIsIdentity,
     SP!BufferIsIdentity
<1>3. SP!NoDeadlock
  BY SessionAssumed, SP!NoCircle DEF Guarded
<1>4. S!NoDeadlock
  BY <1>3 DEF S!NoDeadlock, SP!NoDeadlock, S!InCall, SP!InCall, S!CanGoOn, SP!CanGoOn,
     S!CanStep, SP!CanStep, S!CanAnnounce, SP!CanAnnounce, S!Owns, SP!Owns,
     S!Proc, SP!Proc, S!Gens, SP!Gens
<1>5. timer \in Int /\ gen \in Int
  BY <1>1, SessionAssumption DEF SP!TypeOK, SP!Gens
<1> QED
  BY <1>1, <1>2, <1>4, <1>5 DEF SP!OwnSteps

LEMMA StillGuarded ==
  ASSUME Guarded, [S!Next]_(S!vars)
  PROVE  Guarded'
BY SessionAssumed, SameSteps, SP!NextIInv, SP!BooksKept, SP!BuffersCounted
   DEF Guarded

\* Every step of the server is a step of the session, or none.
LEMMA ServerStepsSession ==
  ASSUME [Next]_vars
  PROVE  [S!Next]_(S!vars)
<1>1. ASSUME NEW t \in Thread, Request(t) PROVE [S!Next]_(S!vars)
  BY <1>1 DEF Request, ArriveRead, ArriveWrite, ArriveUnlock, ArriveLock, ArriveStatus,
     S!Next, S!Call, session, S!vars, S!fields
<1>2. ASSUME NEW t \in Thread, Work(t) \/ BeginWrite(t) PROVE [S!Next]_(S!vars)
  <2>1. CASE \/ Modify(t) \/ Backup(t) \/ Replace(t) \/ WriteFails(t) \/ Reply(t)
    BY <2>1 DEF Modify, Backup, Replace, WriteFails, Reply, session, S!vars, S!fields
  <2>2. CASE \/ BeginUnlock(t) \/ RejectUnlock(t) \/ BeginVerify(t) \/ BeginRelock(t)
             \/ BeginWrite(t)
    <3>1. S!Call(t)
      BY <2>2 DEF BeginUnlock, RejectUnlock, BeginVerify, BeginRelock, BeginWrite, S!Call
    <3> QED
      BY <3>1 DEF S!Next
  <2>3. CASE \/ Locked(t) \/ Get(t) \/ List(t) \/ Lock(t) \/ Status(t) \/ AbortWrite(t)
             \/ EndWrite(t) \/ Unlocked(t) \/ Verify(t) \/ VerifyLocked(t) \/ Relock(t)
             \/ InSession(S!WithRuns(t))
    <3>1. S!Step(t)
      BY <2>3 DEF Locked, Get, List, Lock, Status, AbortWrite, EndWrite, Unlocked, Verify,
         VerifyLocked, Relock, InSession, S!Step
    <3> QED
      BY <3>1 DEF S!Next
  <2> QED
    BY <1>2, <2>1, <2>2, <2>3 DEF Work
<1>3. CASE \/ \E p \in S!Proc : InSession(S!Announce(p))
           \/ \E g \in S!Gens : InSession(S!TimerFires(g)) \/ InSession(S!AutoLockBody(g))
           \/ InSession(S!Tick)
  BY <1>3 DEF InSession, S!Next
<1>4. CASE UNCHANGED vars
  BY <1>4 DEF vars, session, S!vars, S!fields
<1> QED
  BY <1>1, <1>2, <1>3, <1>4 DEF Next

-----------------------------------------------------------------------------
(* Unlocks are verified *)

\* An unlock of t is under way, from its installation of an identity on.
Unsettled(t) == step[t] \in {"unlocked", "verify", "failed", "relock"}

LEMMA SettledAgain ==
  ASSUME IInv, Guarded, SettledIdentityOpensVault, [Next]_vars
  PROVE  SettledIdentityOpensVault'
<1>0. /\ step \in [Thread -> Steps] /\ VaultKeepsOwner
      /\ S!RunningKeepsIdentity /\ S!BufferIsIdentity
  BY GuardedParts DEF IInv, Types
<1> SUFFICES ASSUME ~SettledIdentityOpensVault' PROVE FALSE
  OBVIOUS
<1>1. (\A t \in Thread : ~Unsettled(t)') /\ id' \notin {Nil, Owner}
  BY DEF SettledIdentityOpensVault, Unsettled
<1>2. (\E t \in Thread : Unsettled(t)) \/ id \in {Nil, Owner}
  BY DEF SettledIdentityOpensVault, Unsettled
\* A handler that settles has just seen the vault's own identity, or locks.
<1>3. ASSUME NEW t \in Thread, Verify(t) \/ Relock(t) PROVE FALSE
  <2>1. CASE Relock(t)
    <3>1. id' \in {id, Nil} /\ (buf = Nil => id' = id) /\ (buf # Nil => id' = Nil)
      BY <2>1 DEF Relock, S!LockBody, S!Drop, S!fields
    <3> QED
      BY <1>0, <1>1, <3>1 DEF S!BufferIsIdentity
  <2>2. CASE Verify(t)
    <3>1. id' = id /\ pc[t] = "run" /\ step[t] = "verify"
          /\ step' = [step EXCEPT ![t] = IF ReadError(seen[t]) = "none" THEN "reply"
                                                                     ELSE "failed"]
      BY <2>2 DEF Verify, S!WithReturns, S!ReturnReader, S!fields, Conclude, Goto
    <3>2. ReadError(seen[t]) = "none"
      BY <1>0, <1>1, <3>1 DEF Unsettled
    <3>3. file # Absent /\ file.owner = seen[t]
      BY <3>2 DEF ReadError
    <3> QED
      BY <1>0, <1>1, <3>1, <3>3 DEF VaultKeepsOwner, S!RunningKeepsIdentity
  <2> QED
    BY <1>3, <2>1, <2>2
<1>4. ASSUME NEW t \in Thread, Unlocked(t) PROVE FALSE
  BY <1>0, <1>1, <1>4 DEF Unlocked, At, Goto, Unsettled
\* Nobody else settles, and nobody else brings an identity.
<1>5. ASSUME NEW t \in Thread, id' \in {id, Nil},
             NEW from, NEW to, from \notin {"unlocked", "verify", "failed", "relock"}
                          \/ to \in {"unlocked", "verify", "failed", "relock"},
             step[t] = from, step' = [step EXCEPT ![t] = to]
      PROVE  FALSE
  BY <1>0, <1>1, <1>2, <1>5 DEF Unsettled
<1>6. ASSUME id' \in {id, Nil}, UNCHANGED step PROVE FALSE
  BY <1>1, <1>2, <1>6 DEF Unsettled
<1>7. ASSUME NEW t \in Thread, Request(t) PROVE FALSE
  <2>1. /\ step[t] = "idle" /\ \E to : step' = [step EXCEPT ![t] = to]
        /\ id' = id
    BY <1>7 DEF Request, Arrive, ArriveRead, ArriveWrite, ArriveUnlock, ArriveLock,
       ArriveStatus, Goto, session, S!CallWith, S!CallLock, S!CallStatus, S!CallReader,
       S!fields
  <2> QED
    BY <1>5, <2>1
<1>8. ASSUME NEW t \in Thread,
             \/ Locked(t) \/ Get(t) \/ List(t) \/ Lock(t) \/ Status(t)
             \/ AbortWrite(t) \/ Modify(t) \/ Backup(t) \/ Replace(t)
             \/ WriteFails(t) \/ EndWrite(t) \/ BeginUnlock(t) \/ RejectUnlock(t)
             \/ BeginVerify(t) \/ VerifyLocked(t) \/ BeginRelock(t)
             \/ Reply(t) \/ BeginWrite(t)
      PROVE  FALSE
  <2>1. id' \in {id, Nil}
    BY <1>8 DEF Locked, Get, List, Lock, Status, AbortWrite, Modify, Backup, Replace,
       WriteFails, EndWrite, BeginUnlock, RejectUnlock, BeginVerify, VerifyLocked,
       BeginRelock, Reply, BeginWrite, session, S!WithLocked, S!WithReturns,
       S!ReturnReader, S!ReadStatus, S!LockBody, S!Drop, S!CallWith, S!CallLock,
       S!CallReader, S!CallUnlock, S!RejectUnlock, S!fields
  <2>2. \E from, to :
           /\ from \notin {"unlocked", "verify", "failed", "relock"}
              \/ to \in {"unlocked", "verify", "failed", "relock"}
           /\ step[t] = from /\ step' = [step EXCEPT ![t] = to]
    BY <1>8 DEF Locked, Get, List, Lock, Status, AbortWrite, Modify, Backup, Replace,
       WriteFails, EndWrite, BeginUnlock, RejectUnlock, BeginVerify, VerifyLocked,
       BeginRelock, Reply, BeginWrite, At, Goto, Conclude
  <2> QED
    BY <1>5, <2>1, <2>2
<1>9. CASE \/ \E t \in Thread : InSession(S!WithRuns(t))
           \/ \E p \in S!Proc : InSession(S!Announce(p))
           \/ \E g \in S!Gens : InSession(S!TimerFires(g)) \/ InSession(S!AutoLockBody(g))
           \/ InSession(S!Tick)
           \/ UNCHANGED vars
  <2>1. UNCHANGED step
    BY <1>9 DEF InSession, vars
  <2>2. id' \in {id, Nil}
    BY <1>9 DEF InSession, vars, session, S!WithRuns, S!Announce, S!TimerFires,
       S!AutoLockBody, S!Drop, S!Tick, S!fields
  <2> QED
    BY <1>6, <2>1, <2>2
<1> QED
  BY <1>3, <1>4, <1>7, <1>8, <1>9 DEF Next, Work

-----------------------------------------------------------------------------
(* The theorems *)

LEMMA InitIInv == Init => IInv /\ Map!Init
<1> SUFFICES ASSUME Init PROVE IInv /\ Map!Init
  OBVIOUS
<1>1. file = [owner |-> Owner, data |-> Empty] /\ bak = Absent
  BY DEF Init
<1>2. Empty \in Tables
  BY DEF Empty, Tables
<1>3. file \in Vaults
  BY <1>1, <1>2, OwnerAssumption DEF Vaults
<1>4. file # Absent
  BY <1>3, AbsentAssumption
<1>5. Shape
  BY DEF Init, S!Init, Shape
<1>6. WritersHoldOwner /\ VaultKeepsOwner
  BY <1>1 DEF Init, WritersHoldOwner, VaultKeepsOwner
<1>7. Types
  BY <1>1, <1>3, <1>4 DEF Init, Types, Steps
<1>8. \A t \in Thread : InStep(t)
  BY DEF Init, InStep, WriteSteps, Before, After
<1>9. Map!Init
  BY <1>1, <1>2, <1>4 DEF Init, Map!Init, Tables
<1> QED
  BY <1>5, <1>6, <1>7, <1>8, <1>9 DEF IInv

LEMMA NextIInv == IInv /\ [Next]_vars => IInv' /\ [Map!Next]_(Map!vars)
<1> SUFFICES ASSUME IInv, [Next]_vars PROVE IInv' /\ [Map!Next]_(Map!vars)
  OBVIOUS
<1>1. ASSUME NEW t \in Thread, Work(t) PROVE IInv' /\ [Map!Next]_(Map!vars)
  <2>1. CASE Locked(t) \/ RejectUnlock(t) \/ VerifyLocked(t)
    BY <2>1, LockedOut
  <2>2. CASE Get(t) \/ List(t)
    BY <2>2, Reading
  <2>3. CASE Lock(t) \/ Status(t)
    BY <2>3, Locking
  <2>4. CASE AbortWrite(t)
    BY <2>4, Aborting
  <2>5. CASE Modify(t)
    BY <2>5, Modifying
  <2>6. CASE Backup(t)
    BY <2>6, BackingUp
  <2>7. CASE Replace(t)
    BY <2>7, Replacing
  <2>8. CASE WriteFails(t)
    BY <2>8, Failing
  <2>9. CASE \/ BeginUnlock(t) \/ Unlocked(t) \/ BeginVerify(t) \/ BeginRelock(t)
             \/ Relock(t) \/ EndWrite(t)
    BY <2>9, GoingOn
  <2>10. CASE Verify(t)
    BY <2>10, Verifying
  <2>11. CASE Reply(t)
    BY <2>11, Replying
  <2>12. CASE InSession(S!WithRuns(t))
    BY <2>12, InBackground
  <2> QED
    BY <1>1, <2>1, <2>2, <2>3, <2>4, <2>5, <2>6, <2>7, <2>8, <2>9, <2>10, <2>11, <2>12
       DEF Work
<1>2. CASE \E t \in Thread : Request(t)
  BY <1>2, Arriving
<1>3. CASE \E t \in Thread : BeginWrite(t)
  BY <1>3, GoingOn
<1>4. CASE \/ \E p \in S!Proc : InSession(S!Announce(p))
           \/ \E g \in S!Gens : InSession(S!TimerFires(g)) \/ InSession(S!AutoLockBody(g))
           \/ InSession(S!Tick)
  BY <1>4, InBackground
<1>5. CASE UNCHANGED vars
  <2>1. /\ UNCHANGED <<pc, seen, gen>>
        /\ UNCHANGED <<req, ans, step, writeMu, work, file, bak>>
    BY <1>5 DEF vars, session, vault
  <2>2. Shape' /\ WritersHoldOwner' /\ VaultKeepsOwner' /\ Types'
    BY <2>1 DEF IInv, Shape, WritersHoldOwner, VaultKeepsOwner, Types
  <2>3. \A t \in Thread : InStep(t)'
    BY <2>1 DEF IInv, InStep, Pending, Changed
  <2>4. UNCHANGED Map!vars
    BY <2>1 DEF Map!vars
  <2> QED
    BY <2>2, <2>3, <2>4 DEF IInv
<1> QED
  BY <1>1, <1>2, <1>3, <1>4, <1>5 DEF Next

\* The argument as a whole: it starts in the invariant and never leaves it.
THEOREM InvariantHolds == Safety => []IInv
BY InitIInv, NextIInv, PTL DEF Safety

LEMMA AlwaysGuarded == Safety => []Guarded
<1>1. Init => Guarded
  <2>1. S!Init => SP!IInv /\ SP!LockBooks /\ SP!CallsFit /\ SP!Buffers
    BY SameInit, SessionAssumed, SP!InitIInv, SP!InitBooks, SP!InitBuffers
  <2> QED
    BY <2>1 DEF Init, Guarded
<1>2. Guarded /\ [Next]_vars => Guarded'
  BY ServerStepsSession, StillGuarded
<1> QED
  BY <1>1, <1>2, PTL DEF Safety

\* What the session promises it keeps inside the server, whose steps are all it
\* sees: running requests keep their identity (session.go:34), an announced lock
\* time has its timer (session.go:92), and no locked memory is lost.
THEOREM SessionInServer ==
  Safety => [](S!RunningKeepsIdentity /\ S!DeadlineHasTimer /\ S!NoBufferLeaks)
<1>1. Guarded => S!RunningKeepsIdentity
  BY GuardedParts
<1>2. Guarded => S!DeadlineHasTimer
  BY DEF Guarded, SP!IInv, S!DeadlineHasTimer, SP!DeadlineHasTimer
<1>3. Guarded => S!NoBufferLeaks
  BY DEF Guarded, SP!Buffers, S!NoBufferLeaks, SP!NoBufferLeaks, S!Unlocking, SP!Unlocking,
     S!Cardinality, SP!Cardinality, S!IsFiniteSet, SP!IsFiniteSet
<1> QED
  BY <1>1, <1>2, <1>3, AlwaysGuarded, PTL

\* The server, too, implements LockState: whatever its requests make of the
\* session, it lets go of an identity only on request, after a verification in
\* vain, or when that very identity's time has come (session.go:112).
THEOREM SessionPromises == Safety => S!KeepsPromise
<1>1. Init => SP!Init
  BY SameInit DEF Init
<1>2. [Next]_vars => [SP!Next]_(SP!vars)
  BY ServerStepsSession, SameSteps
<1>3. Safety => SP!Safety
  BY <1>1, <1>2, PTL DEF Safety, SP!Safety
<1>4. Safety => SP!KeepsPromise
  BY <1>3, SessionAssumed, SP!Refinement
<1>5. SP!Promise!Init => S!Promise!Init
  BY DEF SP!Promise!Init, S!Promise!Init
<1>6. [SP!Promise!Next]_(SP!Promise!vars) => [S!Promise!Next]_(S!Promise!vars)
  BY DEF SP!Promise!Next, S!Promise!Next, SP!Promise!vars, S!Promise!vars,
     SP!Promise!Unlock, S!Promise!Unlock, SP!Promise!Lock, S!Promise!Lock,
     SP!Promise!AutoLock, S!Promise!AutoLock, SP!Promise!LetGo, S!Promise!LetGo,
     SP!Promise!Tick, S!Promise!Tick
<1> QED
  BY <1>4, <1>5, <1>6, PTL
     DEF S!KeepsPromise, SP!KeepsPromise, S!Promise!Safety, SP!Promise!Safety

\* However unlocks with identities that open nothing, locks, timers and failing
\* writes fall between the steps of a write (store.go:110), vault.age and its
\* backup stay encrypted for the identity the vault was created for.
THEOREM OwnerKeepsVault == Safety => []VaultKeepsOwner
<1>1. IInv => VaultKeepsOwner
  BY DEF IInv
<1> QED
  BY <1>1, InvariantHolds, PTL

\* For any number of handlers, Server.call and Store behave like steps on one
\* map (store.go:45): each request takes effect at one moment, a refused one has
\* none, and only a failing disk leaves its client in doubt.
THEOREM StoreIsAMap == Safety => Linearizable
BY InitIInv, NextIInv, PTL DEF Safety, Linearizable, Map!Spec

\* A wrong identity does not stay: once every unlock under way has verified
\* what the session holds (server.go:225), or has locked it again, the session
\* is locked or holds the identity that opens the vault.
THEOREM WrongIdentityLeaves == Safety => []SettledIdentityOpensVault
<1>1. Init => SettledIdentityOpensVault
  BY DEF Init, S!Init, SettledIdentityOpensVault
<1> QED
  BY <1>1, SettledAgain, AlwaysGuarded, InvariantHolds, PTL DEF Safety

-----------------------------------------------------------------------------
(* No handler waits for itself *)

\* Where the session has a handler that is at a step of Server.call.
PlaceOf(s) ==
    IF s \in {"status", "read", "modify", "verify"} THEN {"rlock", "run"}
    ELSE IF s \in {"lock", "unlock", "relock"} THEN {"wlock", "drain"}
    ELSE IF s \in {"backup", "rename", "written"} THEN {"run"}
    ELSE {"idle"}

InPlace == \A t \in Thread : pc[t] \in PlaceOf(step[t])

\* What each step of the session does to the one that takes it.
LEMMA Moves ==
  ASSUME Shape, Guarded, NEW t \in Thread
  PROVE  /\ S!CallWith(t) \/ S!CallStatus(t) => pc' = [pc EXCEPT ![t] = "rlock"]
         /\ S!CallLock(t) => pc' = [pc EXCEPT ![t] = "wlock"]
         /\ \A i, d : S!CallUnlock(t, i, d) => pc' = [pc EXCEPT ![t] = "wlock"]
         /\ S!RejectUnlock(t) => pc' = pc
         /\ S!ReadStatus(t) \/ S!WithLocked(t) => pc' = [pc EXCEPT ![t] = "idle"]
         /\ \A r : S!WithReturns(t, r) => pc' = [pc EXCEPT ![t] = "idle"]
BY DEF S!CallWith, S!CallStatus, S!CallReader, S!CallLock, S!CallUnlock, S!Enter,
   S!RejectUnlock, S!ReadStatus, S!WithLocked, S!WithReturns, S!ReturnReader

LEMMA BodyMoves ==
  ASSUME Shape, Guarded, NEW t \in Thread, S!UnlockBody(t) \/ S!LockBody(t)
  PROVE  pc'[t] = "idle" /\ \A u \in Thread \ {t} : pc'[u] = pc[u]
<1>1. /\ \A u \in Thread : pc[u] # "armed" /\ u \notin Int
      /\ timer \in Int /\ gen' \in Int
  BY GuardedParts, HandlersAreNoTimers DEF S!UnlockBody, S!LockBody, S!Drop, S!fields
<1>2. /\ S!TimerStopped = [p \in S!Proc |-> S!TimerStopped[p]]
      /\ \A u \in Thread : S!TimerStopped[u] = pc[u]
  BY <1>1, TimerStoppedOnly
<1>3. \/ pc' = [S!TimerStopped EXCEPT ![gen'] = "armed", ![t] = "idle"]
      \/ pc' = [S!TimerStopped EXCEPT ![t] = "idle"]
      \/ pc' = [pc EXCEPT ![t] = "idle"]
  BY DEF S!UnlockBody, S!LockBody
<1> QED
  BY <1>1, <1>2, <1>3, HandlersAreNoTimers DEF Shape

\* A handler that goes to another step, its place with it.
LEMMA OneInPlace ==
  ASSUME Types, Shape, InPlace, NEW t \in Thread, NEW to, step' = [step EXCEPT ![t] = to],
         pc'[t] \in PlaceOf(to), \A u \in Thread \ {t} : pc'[u] = pc[u]
  PROVE  InPlace'
<1>1. step'[t] = to /\ \A u \in Thread \ {t} : step'[u] = step[u]
  BY DEF Types
<1>2. ASSUME NEW u \in Thread PROVE pc'[u] \in PlaceOf(step'[u])
  BY <1>1, <1>2 DEF InPlace
<1> QED
  BY <1>2 DEF InPlace

LEMMA GoesInPlace ==
  ASSUME Types, Shape, InPlace, NEW t \in Thread, NEW to, step' = [step EXCEPT ![t] = to],
         NEW at \in PlaceOf(to), pc' = [pc EXCEPT ![t] = at]
  PROVE  InPlace'
BY OneInPlace, HandlersAreNoTimers DEF Shape

LEMMA StaysInPlace ==
  ASSUME Types, Shape, InPlace, NEW t \in Thread, NEW to, step' = [step EXCEPT ![t] = to],
         UNCHANGED pc, pc[t] \in PlaceOf(to)
  PROVE  InPlace'
BY OneInPlace

LEMMA PlacesOfSteps ==
  /\ \A s \in {"status", "read", "modify", "verify"} : PlaceOf(s) = {"rlock", "run"}
  /\ \A s \in {"lock", "unlock", "relock"} : PlaceOf(s) = {"wlock", "drain"}
  /\ \A s \in {"backup", "rename", "written"} : PlaceOf(s) = {"run"}
  /\ \A s \in {"idle", "reply", "mutex", "parse", "unlocked", "failed"} : PlaceOf(s) = {"idle"}
BY DEF PlaceOf

LEMMA PlacesKept == IInv /\ Guarded /\ InPlace /\ [Next]_vars => InPlace'
<1> SUFFICES ASSUME IInv, Guarded, InPlace, [Next]_vars PROVE InPlace'
  OBVIOUS
<1>0. /\ Types /\ Shape
      /\ \A to \in {"status", "read", "modify", "verify"} : "rlock" \in PlaceOf(to)
      /\ \A to \in {"lock", "unlock", "relock"} : "wlock" \in PlaceOf(to)
      /\ \A to \in {"idle", "reply", "mutex", "parse", "unlocked", "failed"} :
            "idle" \in PlaceOf(to)
  BY PlacesOfSteps DEF IInv
<1>1. ASSUME NEW t \in Thread, Request(t) PROVE InPlace'
  <2>1. CASE \E r : ArriveRead(t, r) \/ ArriveStatus(t, r)
    <3>1. /\ pc' = [pc EXCEPT ![t] = "rlock"]
          /\ \E to \in {"read", "status"} : step' = [step EXCEPT ![t] = to]
      BY <1>0, <2>1, Moves DEF ArriveRead, ArriveStatus, Goto
    <3> QED
      BY <1>0, <3>1, GoesInPlace
  <2>2. CASE \E r : ArriveLock(t, r)
    <3>1. pc' = [pc EXCEPT ![t] = "wlock"] /\ step' = [step EXCEPT ![t] = "lock"]
      BY <1>0, <2>2, Moves DEF ArriveLock, Goto
    <3> QED
      BY <1>0, <3>1, GoesInPlace
  <2>3. CASE \E r : ArriveWrite(t, r) \/ ArriveUnlock(t, r)
    <3>1. /\ UNCHANGED pc /\ step[t] = "idle"
          /\ \E to \in {"mutex", "parse"} : step' = [step EXCEPT ![t] = to]
      BY <2>3 DEF ArriveWrite, ArriveUnlock, Arrive, Goto, session
    <3>2. pc[t] = "idle"
      BY <3>1, PlacesOfSteps DEF InPlace
    <3>3. PICK to \in {"mutex", "parse"} : step' = [step EXCEPT ![t] = to]
      BY <3>1
    <3>4. pc[t] \in PlaceOf(to)
      BY <1>0, <3>2
    <3> QED
      BY <1>0, <3>1, <3>3, <3>4, StaysInPlace
  <2> QED
    BY <1>1, <2>1, <2>2, <2>3 DEF Request
\* The session lets t go.
<1>2. ASSUME NEW t \in Thread,
             \/ Locked(t) \/ Get(t) \/ List(t) \/ Status(t) \/ AbortWrite(t)
             \/ EndWrite(t) \/ Verify(t) \/ VerifyLocked(t)
      PROVE  InPlace'
  <2>1. S!WithLocked(t) \/ S!ReadStatus(t) \/ \E r : S!WithReturns(t, r)
    BY <1>2 DEF Locked, Get, List, Status, AbortWrite, EndWrite, Verify, VerifyLocked
  <2>2. pc' = [pc EXCEPT ![t] = "idle"]
    BY <1>0, <2>1, Moves
  <2>3. \E to \in {"reply", "failed"} : step' = [step EXCEPT ![t] = to]
    BY <1>2 DEF Locked, Get, List, Status, AbortWrite, EndWrite, Verify, VerifyLocked,
       Conclude, At, Goto
  <2> QED
    BY <1>0, <2>2, <2>3, GoesInPlace
<1>3. ASSUME NEW t \in Thread, Lock(t) \/ Unlocked(t) \/ Relock(t) PROVE InPlace'
  <2>1. S!UnlockBody(t) \/ S!LockBody(t)
    BY <1>3 DEF Lock, Unlocked, Relock
  <2>2. pc'[t] = "idle" /\ \A u \in Thread \ {t} : pc'[u] = pc[u]
    BY <1>0, <2>1, BodyMoves
  <2>3. \E to \in {"reply", "unlocked"} : step' = [step EXCEPT ![t] = to]
    BY <1>3 DEF Lock, Unlocked, Relock, Conclude, At, Goto
  <2> QED
    BY <1>0, <2>2, <2>3, OneInPlace
\* Another call.
<1>4. ASSUME NEW t \in Thread, BeginWrite(t) \/ BeginVerify(t) PROVE InPlace'
  <2>1. /\ pc' = [pc EXCEPT ![t] = "rlock"]
        /\ \E to \in {"modify", "verify"} : step' = [step EXCEPT ![t] = to]
    BY <1>0, <1>4, Moves DEF BeginWrite, BeginVerify, At, Goto
  <2> QED
    BY <1>0, <2>1, GoesInPlace
<1>5. ASSUME NEW t \in Thread, BeginUnlock(t) \/ BeginRelock(t) PROVE InPlace'
  <2>1. /\ pc' = [pc EXCEPT ![t] = "wlock"]
        /\ \E to \in {"unlock", "relock"} : step' = [step EXCEPT ![t] = to]
    BY <1>0, <1>5, Moves DEF BeginUnlock, BeginRelock, At, Goto
  <2> QED
    BY <1>0, <2>1, GoesInPlace
\* The session has no part in it.
<1>6. ASSUME NEW t \in Thread,
             RejectUnlock(t) \/ Modify(t) \/ Backup(t) \/ Replace(t) \/ WriteFails(t) \/ Reply(t)
      PROVE  InPlace'
  <2>1. UNCHANGED pc
    BY <1>0, <1>6, Moves DEF RejectUnlock, Modify, Backup, Replace, WriteFails, Reply, session
  <2>2. \/ /\ step[t] \in {"parse", "reply"}
           /\ \E to \in {"reply", "idle"} : step' = [step EXCEPT ![t] = to]
        \/ /\ step[t] \in {"backup", "rename"} \/ pc[t] = "run"
           /\ \E to \in {"backup", "rename", "written"} : step' = [step EXCEPT ![t] = to]
    BY <1>6 DEF RejectUnlock, Modify, Backup, Replace, WriteFails, Reply, Conclude, At, Goto
  <2>3. /\ step[t] \in {"parse", "reply"} => pc[t] = "idle"
        /\ step[t] \in {"backup", "rename"} => pc[t] = "run"
    BY PlacesOfSteps DEF InPlace
  <2> QED
    BY <1>0, <2>1, <2>2, <2>3, OneInPlace, PlacesOfSteps
\* The session goes on by itself.
<1>7. CASE \/ \E t \in Thread : InSession(S!WithRuns(t))
           \/ \E p \in S!Proc : InSession(S!Announce(p))
           \/ \E g \in S!Gens : InSession(S!TimerFires(g)) \/ InSession(S!AutoLockBody(g))
           \/ InSession(S!Tick)
           \/ UNCHANGED vars
  <2>1. UNCHANGED step
    BY <1>7 DEF InSession, vars
  <2>2. \A u \in Thread : \/ pc'[u] = pc[u]
                          \/ pc[u] = "rlock" /\ pc'[u] = "run"
                          \/ pc[u] = "wlock" /\ pc'[u] = "drain"
    <3>1. ASSUME NEW p \in S!Proc, S!WithRuns(p) \/ S!Announce(p)
          PROVE  \A u \in Thread : \/ pc'[u] = pc[u]
                                   \/ pc[u] = "rlock" /\ pc'[u] = "run"
                                   \/ pc[u] = "wlock" /\ pc'[u] = "drain"
      BY <1>0, <3>1, HandlersAreNoTimers DEF S!WithRuns, S!Announce, Shape
    <3>2. ASSUME NEW g \in S!Gens, S!TimerFires(g) \/ S!AutoLockBody(g)
          PROVE  \A u \in Thread : pc'[u] = pc[u]
      <4>1. g \in S!Proc \ Thread
        BY HandlersAreNoTimers DEF S!Gens, S!Proc
      <4>2. /\ S!TimerStopped = [p \in S!Proc |-> S!TimerStopped[p]]
            /\ \A u \in Thread : S!TimerStopped[u] = pc[u]
        BY <1>0, GuardedParts, TimerStoppedOnly
      <4>3. \E at : pc' = [pc EXCEPT ![g] = at] \/ pc' = [S!TimerStopped EXCEPT ![g] = at]
        BY <3>2 DEF S!TimerFires, S!AutoLockBody
      <4> QED
        BY <1>0, <4>1, <4>2, <4>3, HandlersAreNoTimers DEF Shape
    <3>3. CASE InSession(S!Tick) \/ UNCHANGED vars
      BY <3>3 DEF InSession, S!Tick, vars, session
    <3> QED
      BY <1>7, <3>1, <3>2, <3>3, HandlersAreNoTimers DEF InSession
  <2>3. ASSUME NEW u \in Thread PROVE pc'[u] \in PlaceOf(step[u])
    BY <2>2, <2>3 DEF InPlace, PlaceOf
  <2> QED
    BY <2>1, <2>3 DEF InPlace
<1> QED
  BY <1>1, <1>2, <1>3, <1>4, <1>5, <1>6, <1>7 DEF Next, Work

\* Whoever waits for the store's mutex waits for a handler that the session
\* knows; and in the session nobody waits in a circle.
LEMMA NoCircle == IInv /\ Guarded /\ InPlace => NoDeadlock
<1> SUFFICES ASSUME IInv, Guarded, InPlace, NEW t \in Thread, step[t] # "idle"
             PROVE  (\E u \in Thread : CanGoOn(u)) \/ \E g \in S!Gens : S!CanGoOn(g)
  BY DEF NoDeadlock
<1>0. /\ step \in [Thread -> Steps] /\ writeMu \in Thread \cup {NoProc}
      /\ \A u \in Thread : writeMu = u <=> step[u] \in WriteSteps
      /\ \A u \in Thread : pc[u] \in PlaceOf(step[u])
  BY DEF IInv, Types, InStep, InPlace
<1> DEFINE InSessionNow(u) ==
              step[u] \in {"read", "modify", "verify", "status", "lock", "unlock", "relock",
                           "written", "backup", "rename"}
<1>1. ASSUME NEW u \in Thread
      PROVE  InSessionNow(u) <=> S!InCall(u)
  BY <1>0, <1>1, PlacesOfSteps DEF S!InCall, Steps, PlaceOf
<1>2. CASE \E p \in S!Proc : S!InCall(p)
  <2>1. PICK q \in S!Proc : S!CanGoOn(q)
    BY <1>2, GuardedParts DEF S!NoDeadlock
  <2>2. CASE q \in Thread
    <3>1. S!InCall(q)
      BY <2>1 DEF S!CanGoOn, S!CanStep, S!InCall
    <3>2. InSessionNow(q)
      BY <1>1, <2>2, <3>1
    <3>3. CanGoOn(q)
      BY <2>1, <3>2 DEF CanGoOn
    <3> QED
      BY <2>2, <3>3
  <2> QED
    BY <2>1, <2>2 DEF S!Proc
<1>3. CASE ~\E p \in S!Proc : S!InCall(p)
  <2>1. \A u \in Thread : ~InSessionNow(u)
    BY <1>1, <1>3, HandlersAreNoTimers
  <2>2. writeMu = NoProc
    BY <1>0, <2>1 DEF WriteSteps
  <2>3. /\ step[t] \in {"reply", "mutex", "parse", "unlocked", "failed"}
        /\ pc[t] = "idle"
    BY <1>0, <2>1, PlacesOfSteps DEF Steps
  <2>4. CanGoOn(t)
    BY <2>2, <2>3 DEF CanGoOn
  <2> QED
    BY <2>4
<1> QED
  BY <1>2, <1>3

\* The server never deadlocks, with any number of handlers: with Store.writeMu
\* outside and the session's mutex inside (store.go:149), and unlocks and locks
\* that take the latter alone, an unanswered request finds somebody who goes on.
THEOREM DeadlockFree == Safety => []NoDeadlock
<1>1. Init => InPlace
  BY HandlersAreNoTimers DEF Init, S!Init, InPlace, PlaceOf
<1> QED
  BY <1>1, PlacesKept, NoCircle, AlwaysGuarded, InvariantHolds, PTL DEF Safety
=============================================================================

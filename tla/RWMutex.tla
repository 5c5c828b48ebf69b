------------------------------- MODULE RWMutex -------------------------------
(***************************************************************************)
(* sync.RWMutex of the Go standard library, as the session uses it.  The   *)
(* lock is a record:                                                       *)
(*                                                                         *)
(*   ticket   the writer that has announced itself, or NoProc.  Lock()     *)
(*            first takes the inner mutex, so there is one at a time, and  *)
(*            from then on RLock() blocks newcomers.                       *)
(*   readers  the goroutines that hold the read lock.                      *)
(*   queued   the goroutines whose RLock() waits behind the ticket; the    *)
(*            writer's Unlock() hands all of them the read lock.           *)
(*                                                                         *)
(* A writer owns the lock once it has the ticket and the readers are gone. *)
(***************************************************************************)
CONSTANT NoProc

Unheld == [ticket |-> NoProc, readers |-> {}, queued |-> {}]

RWMutexes(P) ==
    [ticket: P \cup {NoProc}, readers: SUBSET P, queued: SUBSET P]

RLocked(m, p) ==
    IF m.ticket = NoProc THEN [m EXCEPT !.readers = @ \cup {p}]
                         ELSE [m EXCEPT !.queued = @ \cup {p}]

RUnlocked(m, p) == [m EXCEPT !.readers = @ \ {p}]

CanAnnounce(m) == m.ticket = NoProc

Announced(m, p) == [m EXCEPT !.ticket = p]

Owns(m, p) == m.ticket = p /\ m.readers = {}

Unlocked(m) == [ticket |-> NoProc, readers |-> m.queued, queued |-> {}]
=============================================================================

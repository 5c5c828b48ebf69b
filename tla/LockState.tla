------------------------------ MODULE LockState ------------------------------
(***************************************************************************)
(* What the daemon's session promises its users, without its mutex, its    *)
(* timers or its buffers: it holds at most one identity, a deadline may    *)
(* come with it, and it lets go of the identity for exactly two reasons:   *)
(* somebody asked, or the deadline of THIS identity has passed.            *)
(***************************************************************************)
EXTENDS Integers

CONSTANTS Identity,     \* the identities clients may present
          Nil,          \* no identity
          MaxTime       \* last tick of the clock

VARIABLES held,         \* the identity, or Nil while locked
          deadline,     \* when it locks by itself; 0 means never
          reason,       \* how the session got into its present state
          now           \* the clock

vars == <<held, deadline, reason, now>>

Init ==
    /\ held = Nil
    /\ deadline = 0
    /\ reason = "start"
    /\ now = 0

\* A client presents an identity: it replaces whatever was held.
Unlock ==
    /\ held' \in Identity
    /\ deadline' = 0 \/ deadline' > now
    /\ reason' = "unlock"
    /\ UNCHANGED now

LetGo(why) ==
    /\ held # Nil
    /\ held' = Nil
    /\ deadline' = 0
    /\ reason' = why
    /\ UNCHANGED now

Lock == LetGo("manual")

AutoLock ==
    /\ deadline # 0
    /\ deadline <= now
    /\ LetGo("auto")

Tick ==
    /\ now < MaxTime
    /\ now' = now + 1
    /\ UNCHANGED <<held, deadline, reason>>

Next == Unlock \/ Lock \/ AutoLock \/ Tick

Safety == Init /\ [][Next]_vars

\* An identity whose deadline has passed is dropped, or replaced, at last.
Spec == Safety /\ WF_vars(AutoLock)
=============================================================================

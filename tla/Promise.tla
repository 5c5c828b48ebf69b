------------------------------- MODULE Promise -------------------------------
(***************************************************************************)
(* What a method of the Client (pkg/keycell) promises whoever calls it.    *)
(* The daemon decides a request at most once, and what the method returns  *)
(* says what it knows about that: a result or one of the daemon's codes is *)
(* the daemon's decision; ErrNotRunning, a failed dial and an argument the *)
(* method has refused itself say that there is none and never will be;     *)
(* ErrProtocol and the context's error leave the caller in doubt, and the  *)
(* request may still be decided after the method has returned.             *)
(***************************************************************************)
CONSTANT Call

VARIABLES asked,        \* calls that have begun
          decided,      \* what the daemon has decided, or Open
          told          \* what the call has returned, or Open

vars == <<asked, decided, told>>

Open      == "none"
Decisions == {"ok", "code"}
Unheard   == {"invalid", "not running", "dial"}
Doubt     == {"protocol", "context"}

Init ==
    /\ asked = {}
    /\ decided = [k \in Call |-> Open]
    /\ told = [k \in Call |-> Open]

Ask(k) ==
    /\ k \notin asked
    /\ asked' = asked \cup {k}
    /\ UNCHANGED <<decided, told>>

\* Perhaps long after the caller has given up.
Decide(k) ==
    /\ k \in asked /\ decided[k] = Open
    /\ told[k] \in Doubt \cup {Open}
    /\ \E d \in Decisions : decided' = [decided EXCEPT ![k] = d]
    /\ UNCHANGED <<asked, told>>

Tell(k) ==
    /\ k \in asked /\ told[k] = Open
    /\ \E o \in Doubt \cup (IF decided[k] = Open THEN Unheard ELSE {decided[k]}) :
          told' = [told EXCEPT ![k] = o]
    /\ UNCHANGED <<asked, decided>>

Next == \E k \in Call : Ask(k) \/ Decide(k) \/ Tell(k)

Spec == Init /\ [][Next]_vars
=============================================================================

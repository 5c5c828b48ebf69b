------------------------------ MODULE MCSession ------------------------------
(* Small instances of Session for TLC. *)
EXTENDS Session

\* An unlimited session, as the overflow of a long duration gives one.
MCDurations == {-1}

\* What CanGoOn says of a goroutine's guards is what ENABLED says of its steps.
CanGoOnIsEnabled ==
    /\ \A t \in Thread : CanGoOn(t) <=> ENABLED (Step(t) \/ Announce(t))
    /\ \A g \in Gens : CanGoOn(g) <=> ENABLED (AutoLockBody(g) \/ Announce(g))
=============================================================================

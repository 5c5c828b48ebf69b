------------------------------ MODULE MCDaemon ------------------------------
(* Small instances of Daemon for TLC. *)
EXTENDS Daemon, TLC

\* Handlers are interchangeable.
Symmetry == Permutations(Thread)

\* What CanGoOn says of a handler's guards is what ENABLED says of its steps.
CanGoOnIsEnabled ==
    /\ \A t \in Thread :
          CanGoOn(t) <=> ENABLED (Work(t) \/ BeginWrite(t) \/ InSession(S!Announce(t)))
    /\ \A g \in S!Gens :
          S!CanGoOn(g) <=> ENABLED (InSession(S!AutoLockBody(g)) \/ InSession(S!Announce(g)))
=============================================================================

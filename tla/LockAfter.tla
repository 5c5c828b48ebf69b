------------------------------ MODULE LockAfter ------------------------------
(***************************************************************************)
(* The way of an auto-lock's duration to the session: from the             *)
(* configuration as it is; from `keycell unlock --for` and UnlockFor       *)
(* (pkg/keycell/keycell.go) as whole seconds in a request, which the       *)
(* daemon multiplies up again; or from a client of its own, which sends    *)
(* any number of seconds (docs/PROTOCOL.md).                               *)
(*                                                                         *)
(* A duration is a signed word of nanoseconds, and so is the count of      *)
(* seconds: what a multiplication carries out of the word is lost.         *)
(***************************************************************************)
EXTENDS Integers

CONSTANTS Half,         \* words are the integers from -Half up to Half - 1
          OneSecond     \* time.Second, in nanoseconds

ASSUME WordAssumption == Half \in Nat \ {0}
ASSUME SecondAssumption == OneSecond \in 2 .. Half - 1

Word == -Half .. Half - 1

\* Who asks for a limit, in nanoseconds or, from the wire, in seconds.
GoClients == {"cli", "package"}
Asking    == GoClients \cup {"config", "wire"}

\* The 64-bit product.
Wrapped(n) == ((n + Half) % (2 * Half)) - Half

\* A slip: a begun second counts.
BegunSeconds(d) == IF d < 0 THEN -((-d) \div OneSecond) ELSE (d + OneSecond - 1) \div OneSecond

\* UnlockFor: Go divides towards zero.
WholeSeconds(d) == IF d < 0 THEN -((-d) \div OneSecond) ELSE d \div OneSecond

\* parseAutoLock, and unlock with its flag, take no negative duration.
Rejects(from, d) == from \in {"config", "cli"} /\ d < 0

\* Server.call: seconds from the wire.
Multiplied(n) == Wrapped(n * OneSecond)

\* What Session.Unlock is given.
Given(from, d) ==
    CASE from = "config" -> d
      [] from = "wire"   -> Multiplied(d)
      [] OTHER           -> Multiplied(WholeSeconds(d))

\* Session.Unlock: anything else switches the auto-lock off.
Arms(d) == d > 0

-----------------------------------------------------------------------------
(* Properties *)

\* So many seconds are a duration.
Fits(n) == n * OneSecond \in Word

\* The session locks no later than it was asked to, and less than a second
\* early; it goes on for ever only if asked to, or for less than a second, or
\* by more seconds than a duration holds (keycell.go:155, server.go:222): the
\* detour over seconds and back never wraps for the package's clients.
LocksInTime ==
    \A from \in Asking, d \in Word : ~Rejects(from, d) =>
        LET g == Given(from, d) IN
        /\ Arms(g) /\ from # "wire" => g \in 1 .. d /\ d - g < OneSecond
        /\ Arms(g) /\ from = "wire" /\ Fits(d) => g = d * OneSecond
        /\ ~Arms(g) => \/ d <= 0
                       \/ from \in GoClients /\ d < OneSecond
                       \/ from = "wire" /\ ~Fits(d)
=============================================================================

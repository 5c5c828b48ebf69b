-------------------------------- MODULE Prompt --------------------------------
(***************************************************************************)
(* tty.Read (internal/tty): one line from the terminal without echo.  A    *)
(* process prompts several times, one prompt after the other; each has its *)
(* own open file, and a goroutine that waits for SIGINT, SIGTERM or        *)
(* SIGHUP, which may outlive it.  Command is the process.                  *)
(***************************************************************************)
EXTENDS Integers

CONSTANTS Pass,         \* what a user may type, besides nothing
          Long,         \* those that outgrow the buffer they are first read into:
                        \* over 256 bytes from a terminal, 512 from a pipe
          MaxPrompts,   \* bound: prompts of a process
          MaxSignals    \* bound: signals

ASSUME PassAssumption == Long \subseteq Pass /\ Pass \cap {"none", "error", "interrupted"} = {}
ASSUME PromptBoundAssumption == MaxPrompts \in Nat /\ MaxSignals \in Nat

VARIABLES life,         \* of the process
          echo,         \* the terminal's; on to begin with
          nth,          \* the prompt that is asked, or was asked last
          at,           \* where it is in Read
          line,         \* what Read returns
          saved,        \* the echo that it restores
          deadline,     \* a read deadline has been set
          goroutine,    \* of each prompt
          inbox,        \* its channel holds a signal
          signals

prompt == <<life, echo, nth, at, line, saved, deadline, goroutine, inbox, signals>>

Nth   == 1 .. MaxPrompts
Lines == Pass \cup {"empty"}

PromptTypeOK ==
    /\ life \in {"running", "exited", "killed"}
    /\ echo \in BOOLEAN /\ saved \in BOOLEAN /\ deadline \in BOOLEAN
    /\ nth \in 0 .. MaxPrompts
    /\ at \in {"idle", "open", "silent", "reading", "stopping", "restoring", "answered"}
    /\ line \in Lines \cup {"none", "error", "interrupted"}
    /\ goroutine \in [Nth -> {"none", "waits", "took", "restored", "over"}]
    /\ inbox \in [Nth -> BOOLEAN]
    /\ signals \in 0 .. MaxSignals

PromptInit ==
    /\ life = "running" /\ echo = TRUE /\ saved = TRUE /\ deadline = FALSE
    /\ nth = 0 /\ at = "idle" /\ line = "none"
    /\ goroutine = [i \in Nth |-> "none"] /\ inbox = [i \in Nth |-> FALSE]
    /\ signals = 0

\* The terminal as prompt i has opened it.
Open(i) == i = nth /\ at \in {"silent", "reading", "stopping", "restoring"}

\* signal.Notify is in effect, until signal.Stop.
Notified == at \in {"reading", "stopping"}

-----------------------------------------------------------------------------
(* Read *)

Reaches(from, to) == life = "running" /\ at = from /\ at' = to

\* A command asks; where it has been asked all it may, the model ends.
Ask ==
    /\ nth < MaxPrompts
    /\ nth' = nth + 1 /\ at' = "open" /\ line' = "none" /\ deadline' = FALSE
    /\ UNCHANGED <<life, echo, saved, goroutine, inbox, signals>>

\* The terminal is opened, and its echo turned off.
GoSilent ==
    /\ Reaches("open", "silent")
    /\ saved' = echo /\ echo' = FALSE
    /\ UNCHANGED <<life, nth, line, deadline, goroutine, inbox, signals>>

\* There is no terminal, or it has no attributes.
NoTTY ==
    /\ Reaches("open", "answered")
    /\ line' = "error"
    /\ UNCHANGED <<life, echo, nth, saved, deadline, goroutine, inbox, signals>>

\* Only from here on a signal does not kill the process.
Notify ==
    /\ Reaches("silent", "reading")
    /\ goroutine' = [goroutine EXCEPT ![nth] = "waits"]
    /\ UNCHANGED <<life, echo, nth, line, saved, deadline, inbox, signals>>

ReadReturns(l) ==
    /\ Reaches("reading", "stopping")
    /\ line' = l
    /\ UNCHANGED <<life, echo, nth, saved, deadline, goroutine, inbox, signals>>

\* A line, or what there is of it at the end of the input.
Type(l)   == ~deadline /\ ReadReturns(l)
ReadFails == ~deadline /\ ReadReturns("error")
Interrupt == deadline /\ ReadReturns("interrupted")

\* The deferred calls, the last one first: no more signals, and the goroutine
\* may go, which has nothing to do if none has come; then the terminal as it
\* was, and closed.
StopNotify ==
    /\ Reaches("stopping", "restoring")
    /\ goroutine' = [goroutine EXCEPT ![nth] = IF @ = "waits" /\ ~inbox[nth] THEN "over" ELSE @]
    /\ UNCHANGED <<life, echo, nth, line, saved, deadline, inbox, signals>>

Restore ==
    /\ Reaches("restoring", "answered")
    /\ echo' = saved
    /\ UNCHANGED <<life, nth, line, saved, deadline, goroutine, inbox, signals>>

Reading == GoSilent \/ NoTTY \/ Notify \/ Interrupt \/ StopNotify \/ Restore

-----------------------------------------------------------------------------
(* The goroutine of prompt i *)

Runs(i, from, to) ==
    /\ life = "running" /\ goroutine[i] = from
    /\ goroutine' = [goroutine EXCEPT ![i] = to]

Take(i) ==
    /\ inbox[i] /\ Runs(i, "waits", "took")
    /\ inbox' = [inbox EXCEPT ![i] = FALSE]
    /\ UNCHANGED <<life, echo, nth, at, line, saved, deadline, signals>>

\* done is closed, and a signal is there as well: either may be chosen.
Leave(i) ==
    /\ Runs(i, "waits", "over")
    /\ ~(i = nth /\ Notified)
    /\ UNCHANGED <<life, echo, nth, at, line, saved, deadline, inbox, signals>>

\* A slip: the terminal is restored by its number, which the next prompt's
\* terminal may have by now.
RestoreByNumber(i) == echo' = TRUE

\* On a closed file this does nothing.
RestoreOpen(i) == echo' = IF Open(i) THEN saved ELSE echo

GoroutineRestores(i) ==
    /\ Runs(i, "took", "restored")
    /\ RestoreOpen(i)
    /\ UNCHANGED <<life, nth, at, line, saved, deadline, inbox, signals>>

\* A slip: the read is not woken up.
LetRead(i) == UNCHANGED deadline

SetReadDeadline(i) == deadline' = (deadline \/ Open(i))

Wake(i) ==
    /\ Runs(i, "restored", "over")
    /\ SetReadDeadline(i)
    /\ UNCHANGED <<life, echo, nth, at, line, saved, inbox, signals>>

Goroutine(i) == Take(i) \/ Leave(i) \/ GoroutineRestores(i) \/ Wake(i)

-----------------------------------------------------------------------------
(* Signals *)

\* A slip: the signal is none of those that Read asks for.
NotCaught == FALSE

Caught == Notified

\* One of the three signals: the channel has room for one; where nobody has
\* asked for it, the process dies on the spot.
Signal ==
    /\ life = "running" /\ signals < MaxSignals
    /\ signals' = signals + 1
    /\ IF Caught
       THEN inbox' = [inbox EXCEPT ![nth] = TRUE] /\ UNCHANGED life
       ELSE life' = "killed" /\ UNCHANGED inbox
    /\ UNCHANGED <<echo, nth, at, line, saved, deadline, goroutine>>

-----------------------------------------------------------------------------
(* Properties *)

\* tty.go:33, 55: however the process ends, the terminal echoes again.  A
\* signal can only leave it silent in two moments: before Read has asked for
\* it, and after it has stopped asking but has not restored the terminal yet.
EchoRestored ==
    life # "running" /\ ~echo => life = "killed" /\ at \in {"silent", "restoring"}

\* tty.go:67: the goroutine of one prompt never makes the terminal echo what
\* the user types at the next one.  What is typed is seen only after a signal
\* that came during this prompt.
TypedInSilence ==
    [][at = "reading" /\ line' \in Lines => ~echo \/ goroutine[nth] = "restored"]_prompt

\* tty.go:68: a signal ends the prompt, even if the user types nothing more.
SignalEndsPrompt ==
    \A i \in Nth : nth = i /\ at = "reading" /\ inbox[i] ~> at # "reading" \/ nth # i
=============================================================================

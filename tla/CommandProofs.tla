----------------------------- MODULE CommandProofs -----------------------------
(***************************************************************************)
(* Theorems about Command, and so about Settings, Prompt and LockAfter,    *)
(* for any commands, passphrases, signals and prompts, and for words of    *)
(* any width: whatever the user does, and whatever fails, the terminal     *)
(* echoes again, buffers are cleared, and the identity files and limits    *)
(* are the ones asked for.                                                 *)
(***************************************************************************)
EXTENDS Command, SequenceTheorems, WellFoundedInduction, TLAPS

-----------------------------------------------------------------------------
(* LockAfter, for a second of any length in a word of any width *)

USE WordAssumption, SecondAssumption

\* n is the whole seconds of duration d.
Whole(d, n) ==
    IF d >= 0 THEN n >= 0 /\ n * OneSecond <= d /\ d < n * OneSecond + OneSecond
              ELSE n <= 0 /\ n * OneSecond >= d

\* d, after its detour over whole seconds.
Cut(d, v) ==
    IF d >= 0 THEN v >= 0 /\ v <= d /\ d - v < OneSecond ELSE v <= 0

\* Division, as far as it is needed.
LEMMA Division ==
  ASSUME NEW n \in Nat
  PROVE  /\ n \div OneSecond \in Nat
         /\ (n \div OneSecond) * OneSecond <= n /\ n < (n \div OneSecond) * OneSecond + OneSecond
OBVIOUS

\* A duration in whole seconds is no longer than the duration.
LEMMA SecondsOfWord ==
  ASSUME NEW d \in Word
  PROVE  WholeSeconds(d) \in Word /\ Whole(d, WholeSeconds(d))
<1>1. CASE d >= 0
  <2>1. WholeSeconds(d) = d \div OneSecond /\ d \in Nat
    BY <1>1 DEF WholeSeconds, Word
  <2> DEFINE n == d \div OneSecond
  <2>2. n \in Nat /\ n * OneSecond <= d /\ d < n * OneSecond + OneSecond
    BY <2>1, Division
  <2>3. n <= n * OneSecond
    BY <2>2
  <2>4. n \in Word
    BY <2>2, <2>3 DEF Word
  <2> QED
    BY <1>1, <2>1, <2>2, <2>4 DEF Whole
<1>2. CASE d < 0
  <2> DEFINE n == (-d) \div OneSecond
  <2>1. WholeSeconds(d) = -n /\ -d \in Nat
    BY <1>2 DEF WholeSeconds, Word
  <2>2. n \in Nat /\ n * OneSecond <= -d
    BY <2>1, Division
  <2>3. n <= n * OneSecond
    BY <2>2
  <2>4. (-n) * OneSecond = -(n * OneSecond) /\ n * OneSecond \in Int
    BY <2>2
  <2> HIDE DEF n
  <2>5. -n \in Word
    BY <2>2, <2>3, <2>4 DEF Word
  <2> QED
    BY <1>2, <2>1, <2>2, <2>4, <2>5 DEF Whole, Word
<1> QED
  BY <1>1, <1>2 DEF Word

\* What fits into a word is left alone, and everything else ends in one, too.
LEMMA Wrapping ==
  ASSUME NEW n \in Int
  PROVE  Wrapped(n) \in Word /\ (n \in Word => Wrapped(n) = n)
<1> DEFINE m == 2 * Half
<1>1. m \in Nat \ {0} /\ n + Half \in Int
  OBVIOUS
<1> HIDE DEF m
<1>2. (n + Half) % m \in 0 .. m - 1
  BY <1>1
<1>3. n + Half \in 0 .. m - 1 => (n + Half) % m = n + Half
  BY <1>1
<1> QED
  BY <1>2, <1>3 DEF Wrapped, Word, m

\* Back from whole seconds, which never carries out of the word.
LEMMA Detour ==
  ASSUME NEW d \in Word
  PROVE  LET g == Multiplied(WholeSeconds(d)) IN g \in Int /\ Cut(d, g)
<1> DEFINE n == WholeSeconds(d)
<1>1. n \in Int /\ d \in Int /\ Whole(d, n)
  BY SecondsOfWord DEF Word
<1> HIDE DEF n
<1>2. n * OneSecond \in Int
  BY <1>1
<1>3. n >= 0 => n * OneSecond >= 0
  BY <1>1
<1>4. n <= 0 => n * OneSecond <= 0
  BY <1>1
<1>5. n * OneSecond \in Word
  BY <1>1, <1>2, <1>3, <1>4 DEF Whole, Word
<1>6. Multiplied(n) = n * OneSecond
  BY <1>2, <1>5, Wrapping DEF Multiplied
<1>7. Cut(d, n * OneSecond)
  BY <1>1, <1>2, <1>3, <1>4 DEF Whole, Cut
<1> QED
  BY <1>2, <1>6, <1>7 DEF n

\* At the width of the code as at any other, the detour of UnlockFor over
\* seconds (keycell.go:155, server.go:222) makes no limit longer, and none
\* shorter by a second.
THEOREM LimitsKept == LocksInTime
<1> SUFFICES ASSUME NEW from \in Asking, NEW d \in Word, ~Rejects(from, d),
                    NEW g, g = Given(from, d)
             PROVE  /\ Arms(g) /\ from # "wire" => g \in 1 .. d /\ d - g < OneSecond
                    /\ Arms(g) /\ from = "wire" /\ Fits(d) => g = d * OneSecond
                    /\ ~Arms(g) => \/ d <= 0
                                   \/ from \in GoClients /\ d < OneSecond
                                   \/ from = "wire" /\ ~Fits(d)
  BY DEF LocksInTime
<1>0. d \in Int
  BY DEF Word
<1>1. CASE from = "config"
  BY <1>0, <1>1 DEF Given, Arms
<1>2. CASE from = "wire"
  <2>1. d * OneSecond \in Int /\ (d > 0 => d * OneSecond > 0)
    BY <1>0
  <2>2. Fits(d) => g = d * OneSecond
    BY <1>2, <2>1, Wrapping DEF Given, Multiplied, Fits
  <2> QED
    BY <1>0, <1>2, <2>1, <2>2 DEF Arms
<1>3. CASE from \in GoClients
  <2>1. g \in Int /\ Cut(d, g)
    BY <1>3, Detour DEF Given, GoClients
  <2> QED
    BY <1>0, <1>3, <2>1 DEF Cut, Arms, GoClients
<1> QED
  BY <1>1, <1>2, <1>3 DEF Asking

-----------------------------------------------------------------------------
(* The inductive invariant *)

\* The steps at which a command waits for a prompt.
Prompting == {"entry", "first", "second", "value"}

Idle == at \in {"idle", "answered"}

\* Where the terminal may be silent, and whose doing an echo at a prompt is;
\* no goroutine runs for a prompt before it reads.
Terminal ==
    /\ PromptTypeOK
    /\ saved
    /\ echo \/ at \in {"silent", "reading", "stopping", "restoring"}
    /\ at = "silent" => ~echo
    /\ at = "reading" => ~echo \/ goroutine[nth] = "restored" \/ deadline
    /\ at \in {"open", "silent", "reading"} => line = "none"
    /\ at # "idle" => nth \in Nth
    /\ \A i \in Nth : i > nth \/ (i = nth /\ at \in {"open", "silent"}) => goroutine[i] = "none"

\* A command is killed by a signal only where Read has not asked for it, and
\* exits, like everything it does between its prompts, while none is open.
Life ==
    /\ life = "exited" \/ step \notin Prompting => Idle
    /\ life = "killed" => at \notin {"reading", "stopping"}
    /\ life = "exited" <=> step = "over"

\* Which commands come to which step, and on what files.
OnItsWay ==
    /\ step = "entry" => cmd.do \in {"passphrase", "unlock"} /\ Form = "age"
    /\ step \in {"first", "second"} =>
          ~cmd.flag /\ (cmd.do = "init" \/ (cmd.do = "passphrase" /\ Form \in {"age", "txt"}))
    /\ step = "print" => cmd.do = "get"
    /\ step = "value" => cmd.do = "store"
    /\ step = "apply" => cmd.do \in {"init", "passphrase", "unlock", "store"}
    /\ step = "send" => cmd.do = "unlock"
    /\ step = "resolve" \/ env # <<>> => cmd.do = "exec" /\ step = "resolve"

\* The buffers that may hold something, at each step.
InUse ==
    CASE step = "print"  -> {"value"}
      [] step = "entry"  -> IF cmd.do = "passphrase" THEN {"next"} ELSE {}
      [] step = "first"  -> IF Form = "age" THEN {"entry"} ELSE {}
      [] step = "second" -> {"first"} \cup IF Form = "age" THEN {"entry"} ELSE {}
      [] step = "apply"  -> CASE cmd.do = "unlock" -> {"entry"}
                              [] cmd.do = "store"  -> {"value"}
                              [] OTHER -> {"next"} \cup IF Form = "age" THEN {"entry"} ELSE {}
      [] step = "send"   -> {"identity"}
      [] OTHER           -> {}

Blanks == {"none", "zero", "empty"}

\* What may be left behind by reading.
Leftovers == {"none"} \cup Long

Wiped ==
    /\ buf = [b \in Buffers |-> buf[b]]
    /\ buf["outgrown"] \in Leftovers
    /\ \A b \in Buffers \ {"outgrown"} : buf[b] \in Blanks \/ b \in InUse

\* The new passphrase on its way from the prompts to the file.
Setting == cmd.do \in {"init", "passphrase"} /\ ~cmd.flag
Confirming ==
    /\ exit = -1 <=> step # "over"
    /\ exit = -1 => files = cmd.files
    /\ step \in {"config", "begin"} => buf["next"] = "none"
    /\ step = "entry" /\ Setting => buf["next"] \in {"none", confirmed}
    /\ step = "apply" /\ Setting => buf["next"] = confirmed

\* What is settled at the start stays: the configuration, and that --for was sound.
Settled ==
    /\ cmd \in Commands
    /\ step # "config" => settings = Load(cmd.input)
    /\ cmd.do = "unlock" /\ step \in {"entry", "apply", "send"} => ForIsSound
    /\ step # "over" => sent = {}

\* What the command itself keeps, and what it shares with its prompts.
Data ==
    /\ OnItsWay /\ Wiped /\ Confirming /\ Settled
    /\ SetsWhatWasConfirmed /\ LimitIsAskedFor

IInv == Terminal /\ Life /\ Data

-----------------------------------------------------------------------------
(* The terminal *)

USE PassAssumption, PromptBoundAssumption

\* A command asks, between two prompts.
LEMMA AskKeeps ==
  ASSUME Terminal, Life, life = "running", Idle, Ask, step' \in Prompting
  PROVE  Terminal' /\ Life'
<1>0. deadline' \in BOOLEAN /\ line' \in Lines \cup {"none", "error", "interrupted"}
  BY Zenon DEF Ask
<1>1. PromptTypeOK'
  BY <1>0 DEF Terminal, PromptTypeOK, Ask
<1>2. Terminal'
  BY <1>1 DEF Terminal, PromptTypeOK, Ask, Idle, Nth
<1> QED
  BY <1>2 DEF Life, Ask, Idle, Prompting

\* A command ends, between two prompts.
LEMMA EndKeeps ==
  ASSUME Terminal, Life, life = "running", Idle, NEW code, EndsWith(code)
  PROVE  Terminal' /\ Life'
BY DEF Terminal, PromptTypeOK, Life, EndsWith, Idle, Prompting

\* It goes on with what was typed, or without a prompt.
LEMMA GoKeeps ==
  ASSUME Terminal, Life, life = "running", Idle, step' \notin Prompting \cup {"over"},
         UNCHANGED <<life, echo, nth, line, saved, deadline, goroutine, inbox, signals>>,
         at' \in {at, "idle"}
  PROVE  Terminal' /\ Life'
BY DEF Terminal, PromptTypeOK, Life, Idle, Prompting

\* The steps of Read, one after the other.
LEMMA ReadingKeeps ==
  ASSUME Terminal, Life, UNCHANGED step,
         Reading \/ (\E l \in Lines : Type(l)) \/ ReadFails
  PROVE  Terminal' /\ Life'
<1>0. life = "running" /\ life' = life /\ (Idle => at = "answered")
  BY DEF Reading, GoSilent, NoTTY, Notify, Interrupt, StopNotify, Restore, Type, ReadFails,
     ReadReturns, Reaches, Idle
<1>1. CASE GoSilent \/ NoTTY
  BY <1>1 DEF GoSilent, NoTTY, Reaches, Terminal, PromptTypeOK, Life, Idle, Nth
<1>2. CASE Notify
  BY <1>2 DEF Notify, Reaches, Terminal, PromptTypeOK, Life, Idle, Nth
<1>3. ASSUME NEW l \in Lines \cup {"error", "interrupted"}, ReadReturns(l)
      PROVE  Terminal' /\ Life'
  BY <1>3 DEF ReadReturns, Reaches, Terminal, PromptTypeOK, Life, Idle
<1>4. CASE StopNotify
  BY <1>4 DEF StopNotify, Reaches, Terminal, PromptTypeOK, Life, Idle, Nth
<1>5. CASE Restore
  BY <1>5 DEF Restore, Reaches, Terminal, PromptTypeOK, Life, Idle, Nth
<1> QED
  BY <1>1, <1>2, <1>3, <1>4, <1>5 DEF Reading, Type, ReadFails, Interrupt

\* A goroutine touches the terminal of its own prompt only, and says so.
LEMMA GoroutineKeeps ==
  ASSUME Terminal, Life, UNCHANGED step, NEW i \in Nth, Goroutine(i)
  PROVE  Terminal' /\ Life'
<1>1. life = "running" /\ UNCHANGED <<life, nth, at, line, saved>>
  BY DEF Goroutine, Take, Leave, GoroutineRestores, Wake, Runs
<1>2. goroutine[i] # "none" /\ i <= nth /\ i \in Nat /\ nth \in Nat
  <2>1. goroutine[i] # "none"
    BY DEF Goroutine, Take, Leave, GoroutineRestores, Wake, Runs
  <2>2. nth \in 0 .. MaxPrompts /\ (i > nth => goroutine[i] = "none")
    BY DEF Terminal, PromptTypeOK
  <2> QED
    BY <2>1, <2>2 DEF Nth
<1>3. PromptTypeOK'
  BY <1>1 DEF Goroutine, Take, Leave, GoroutineRestores, Wake, Runs, RestoreOpen,
     SetReadDeadline, Terminal, PromptTypeOK
<1>4. CASE Take(i) \/ Leave(i)
  BY <1>1, <1>2, <1>3, <1>4 DEF Take, Leave, Runs, Notified, Terminal, PromptTypeOK, Life, Idle
<1>5. CASE GoroutineRestores(i)
  <2>1. /\ goroutine' = [goroutine EXCEPT ![i] = "restored"]
        /\ goroutine \in [Nth -> {"none", "waits", "took", "restored", "over"}]
        /\ UNCHANGED <<step, deadline, inbox, signals>>
    BY <1>5 DEF GoroutineRestores, Runs, Terminal, PromptTypeOK
  <2>2. \A j \in Nth : j # i => goroutine'[j] = goroutine[j]
    BY <2>1
  <2>3. Life' /\ (at = "reading" => nth \in Nth)
    BY <1>1, <2>1 DEF Life, Idle, Terminal
  <2>4. CASE Open(i)
    <3>1. echo' = TRUE /\ at # "silent" /\ i = nth /\ at # "open"
      BY <1>2, <1>5, <2>4 DEF GoroutineRestores, RestoreOpen, Open, Terminal, PromptTypeOK
    <3> QED
      BY <1>1, <1>2, <1>3, <2>1, <2>2, <2>3, <3>1 DEF Terminal
  <2>5. CASE ~Open(i)
    <3>1. echo' = echo /\ (at = "reading" => i # nth)
      BY <1>5, <2>5 DEF GoroutineRestores, RestoreOpen, Open
    <3> QED
      BY <1>1, <1>2, <1>3, <2>1, <2>2, <2>3, <3>1 DEF Terminal
  <2> QED
    BY <2>4, <2>5
<1>6. CASE Wake(i)
  BY <1>1, <1>2, <1>3, <1>6 DEF Wake, SetReadDeadline, Open, Runs, Terminal, PromptTypeOK,
     Life, Idle
<1> QED
  BY <1>4, <1>5, <1>6 DEF Goroutine

LEMMA SignalKeeps ==
  ASSUME Terminal, Life, UNCHANGED step, Signal
  PROVE  Terminal' /\ Life'
<1>1. CASE Caught
  <2>1. /\ inbox' = [inbox EXCEPT ![nth] = TRUE] /\ signals' = signals + 1
        /\ signals < MaxSignals
        /\ UNCHANGED <<life, echo, nth, at, line, saved, deadline, goroutine>>
    BY <1>1 DEF Signal
  <2>2. inbox' \in [Nth -> BOOLEAN]
    <3>1. inbox \in [Nth -> BOOLEAN]
      BY DEF Terminal, PromptTypeOK
    <3> QED
      BY <2>1, <3>1, Zenon
  <2>3. signals' \in 0 .. MaxSignals
    BY <2>1 DEF Terminal, PromptTypeOK
  <2>4. PromptTypeOK'
    BY <2>1, <2>2, <2>3 DEF Terminal, PromptTypeOK
  <2> QED
    BY <2>1, <2>4 DEF Terminal, Life, Idle
<1>2. CASE ~Caught
  BY <1>2 DEF Signal, Caught, Notified, Terminal, PromptTypeOK, Life, Idle, Nth
<1> QED
  BY <1>1, <1>2

\* What a step of the command itself does to its prompts: it is over, it asks,
\* or it goes on without a prompt.
Over == \E code \in -1 .. 2 : EndsWith(code)
AsksOne == Ask /\ step' \in Prompting
GoesOn ==
    /\ step' \notin Prompting \cup {"over"}
    /\ UNCHANGED <<life, echo, nth, line, saved, deadline, goroutine, inbox, signals>>
    /\ at' \in {at, "idle"}

Itself ==
    \/ Configure \/ Usage \/ Status \/ List \/ Fetch \/ Writes
    \/ BeginInit \/ BeginPassphrase \/ BeginUnlock \/ BeginStore \/ BeginsNot
    \/ Entry \/ First \/ Second \/ Value \/ PromptFails
    \/ Create \/ Sets \/ Changed \/ Fails \/ Store \/ LoadIdentity \/ Send \/ Retry
    \/ BeginExec \/ BadMapping \/ Get \/ ResolveFails \/ NotStarted \/ Execve

LEMMA ItselfActs ==
  ASSUME Life, Itself
  PROVE  /\ life = "running" /\ Idle
         /\ Over \/ AsksOne \/ GoesOn
<1>1. CASE Usage \/ Status \/ List \/ Writes \/ BadMapping
  BY <1>1 DEF Usage, Status, List, Writes, BadMapping, Do, At, Ends, EndsOn, Over, Life, Prompting
<1>2. CASE BeginsNot \/ Fails \/ Store
  <2>1. life = "running" /\ step \in {"begin", "apply"}
    BY <1>2 DEF BeginsNot, Fails, Store, Applies, Do, At
  <2>2. \E code \in {0, 1} : \E b, S : EndsOn(code, b, S)
    BY <1>2, Zenon DEF BeginsNot, Fails, Store, Ends
  <2> QED
    BY <2>1, <2>2 DEF EndsOn, Over, Life, Prompting
<1>3. CASE PromptFails
  BY <1>3 DEF PromptFails, FailsWith, Returned, At, Ends, EndsOn, Over, Idle
<1>4. CASE Create \/ Sets \/ Changed
  BY <1>4 DEF Create, Sets, Changed, Changes, Applies, At, Over, Life, Prompting
<1>5. CASE Send \/ ResolveFails \/ NotStarted \/ Execve
  BY <1>5 DEF Send, ResolveFails, NotStarted, Execve, Resolved, Resolves, Abandons, At, Over,
     Life, Prompting
<1>6. CASE Configure
  <2>1. life = "running" /\ Idle
    BY <1>6 DEF Configure, At, Life, Prompting
  <2>2. CASE Load(cmd.input).error = "none"
    BY <1>6, <2>1, <2>2 DEF Configure, GoesOn, prompt, Prompting
  <2>3. CASE Load(cmd.input).error # "none"
    BY <1>6, <2>1, <2>3 DEF Configure, Over
  <2> QED
    BY <2>1, <2>2, <2>3
<1>7. CASE Fetch \/ BeginExec \/ LoadIdentity \/ Get
  BY <1>7 DEF Fetch, BeginExec, LoadIdentity, Get, Resolves, Applies, Skips, Goes, Do, At,
     GoesOn, prompt, Life, Prompting
<1>8. CASE BeginInit \/ BeginPassphrase \/ BeginUnlock \/ BeginStore
  <2>1. life = "running" /\ Idle
    BY <1>8 DEF BeginInit, BeginPassphrase, BeginUnlock, BeginStore, Do, At, Life, Prompting
  <2>2. \/ \E s \in Prompting : Asks("begin", s)
        \/ Skips("begin", "apply")
    BY <1>8 DEF BeginInit, BeginPassphrase, BeginUnlock, BeginStore, Prompting
  <2> QED
    BY <2>1, <2>2 DEF Asks, Skips, Goes, AsksOne, GoesOn, prompt, Prompting
<1>9. CASE Entry \/ First \/ Second \/ Value
  BY <1>9 DEF Entry, First, Second, Value, Returned, Asks, Resumes, Goes, AsksOne, GoesOn, At,
     Idle, Prompting
<1>10. CASE Retry
  BY <1>10 DEF Retry, Asks, Goes, At, AsksOne, Life, Prompting
<1> QED
  BY <1>1, <1>2, <1>3, <1>4, <1>5, <1>6, <1>7, <1>8, <1>9, <1>10 DEF Itself

LEMMA InitTerminal == Init => Terminal /\ Life
<1> SUFFICES ASSUME Init PROVE Terminal /\ Life
  OBVIOUS
<1>1. /\ life = "running" /\ echo = TRUE /\ saved = TRUE /\ deadline = FALSE
      /\ nth = 0 /\ at = "idle" /\ line = "none" /\ signals = 0 /\ step = "config"
      /\ goroutine = [i \in Nth |-> "none"]
  BY DEF Init, PromptInit
<1>2. inbox \in [Nth -> BOOLEAN]
  BY Zenon DEF Init, PromptInit
<1>3. echo \in BOOLEAN /\ saved \in BOOLEAN /\ deadline \in BOOLEAN
  BY <1>1, Zenon
<1>4. PromptTypeOK
  BY <1>1, <1>2, <1>3 DEF PromptTypeOK
<1> QED
  BY <1>1, <1>4 DEF Terminal, Life, Idle, Prompting

LEMMA NextTerminal == Terminal /\ Life /\ [Next]_vars => Terminal' /\ Life'
<1> SUFFICES ASSUME Terminal, Life, [Next]_vars
             PROVE  Terminal' /\ Life'
  OBVIOUS
<1>1. CASE Itself
  <2>1. /\ life = "running" /\ Idle
        /\ Over \/ AsksOne \/ GoesOn
    BY <1>1, ItselfActs
  <2> QED
    BY <2>1, AskKeeps, EndKeeps, GoKeeps DEF Over, AsksOne, GoesOn
<1>2. CASE Reading /\ Others
  BY <1>2, ReadingKeeps DEF Others
<1>3. CASE \E i \in Nth : Goroutine(i) /\ Others
  BY <1>3, GoroutineKeeps DEF Others
<1>4. CASE User /\ Others
  BY <1>4, ReadingKeeps, SignalKeeps DEF User, Others
<1>5. CASE UNCHANGED vars
  BY <1>5 DEF vars, prompt, Terminal, PromptTypeOK, Life, Idle
<1> QED
  BY <1>1, <1>2, <1>3, <1>4, <1>5 DEF Next, Running, Itself

LEMMA TerminalHolds == Spec => [](Terminal /\ Life)
<1> QED
  BY InitTerminal, NextTerminal, PTL DEF Spec

\* tty.go:33, 55: when keycell has ended the terminal echoes again, unless a
\* signal has killed it in one of the two moments where Read has not asked for
\* any; for every command, however often it prompts.
THEOREM TerminalRestored == Spec => []EchoRestored
<1>1. Terminal /\ Life => EchoRestored
  BY DEF Terminal, PromptTypeOK, Life, Idle, EchoRestored
<1> QED
  BY <1>1, TerminalHolds, PTL

\* tty.go:67: whatever the goroutines of earlier prompts still do, a line is
\* typed in silence, or after a signal to this prompt.
THEOREM NobodySeesTheLine == Spec => TypedInSilence
<1>1. ASSUME Terminal, Life, [Next]_vars
      PROVE  [at = "reading" /\ line' \in Lines => ~echo \/ goroutine[nth] = "restored"]_prompt
  <2> SUFFICES ASSUME at = "reading", line' \in Lines
               PROVE  ~echo \/ goroutine[nth] = "restored"
    OBVIOUS
  <2>1. line = "none" /\ "none" \notin Lines /\ line' # line
    <3>1. "none" \notin Pass
      BY PassAssumption
    <3> QED
      BY <1>1, <3>1 DEF Terminal, Lines
  <2>2. \E l \in Lines : Type(l)
    <3>1. CASE Itself
      BY <1>1, <3>1, ItselfActs DEF Idle
    <3>2. CASE Reading
      BY <2>1, <3>2 DEF Reading, GoSilent, NoTTY, Notify, Interrupt, ReadReturns, StopNotify,
         Restore, Reaches, Lines
    <3>3. CASE (\E i \in Nth : Goroutine(i)) \/ Signal \/ UNCHANGED vars
      BY <2>1, <3>3 DEF Goroutine, Take, Leave, GoroutineRestores, Wake, Signal, vars, prompt
    <3>4. CASE ReadFails
      BY <2>1, <3>4 DEF ReadFails, ReadReturns, Lines
    <3> QED
      BY <1>1, <3>1, <3>2, <3>3, <3>4 DEF Next, Running, Itself, User
  <2> QED
    BY <1>1, <2>2 DEF Type, Terminal
<1>2. Terminal /\ Life /\ [Next]_vars
        => [at = "reading" /\ line' \in Lines => ~echo \/ goroutine[nth] = "restored"]_prompt
  BY <1>1
<1> QED
  BY <1>2, TerminalHolds, PTL DEF Spec, TypedInSilence

-----------------------------------------------------------------------------
(* Buffers and files *)

\* Clearing has no effect on what has been left behind.
LEMMA ClearedStays ==
  ASSUME NEW b, NEW S, "outgrown" \notin S
  PROVE  /\ Cleared(b, S) = [x \in Buffers |-> Cleared(b, S)[x]]
         /\ Cleared(b, S)["outgrown"] = b["outgrown"]
BY DEF Cleared, Buffers

\* A command that ends without having changed a file has cleared what it used.
LEMMA EndsClean ==
  ASSUME Data, step \notin {"config", "over", "resolve"},
         NEW code \in {0, 1, 2}, NEW b, NEW S, EndsOn(code, b, S),
         b["outgrown"] \in Leftovers, "outgrown" \notin S,
         \A x \in Buffers \ {"outgrown"} : b[x] \in Blanks \/ x \in S,
         code = 0 => ~Setting
  PROVE  Data'
<1>1. /\ step' = "over" /\ exit' = code /\ buf' = Cleared(b, S)
      /\ UNCHANGED <<cmd, settings, files, confirmed, env, sent>>
  BY DEF EndsOn, EndsWith, exec
<1>2. env = <<>> /\ exit = -1 /\ sent = {} /\ step # "resolve"
  BY DEF Data, OnItsWay, Confirming, Settled
<1>3. OnItsWay'
  BY <1>1, <1>2 DEF OnItsWay
<1>4. Wiped'
  BY <1>1, ClearedStays DEF Wiped, Cleared, Blanks
<1>5. Confirming' /\ SetsWhatWasConfirmed'
  BY <1>1, <1>2 DEF Data, Confirming, SetsWhatWasConfirmed, Setting
<1>6. Settled' /\ LimitIsAskedFor'
  BY <1>1, <1>2 DEF Data, Settled, LimitIsAskedFor
<1> QED
  BY <1>3, <1>4, <1>5, <1>6 DEF Data

\* Nothing but a step of the command itself touches its data.
LEMMA OthersKeep ==
  ASSUME Data, UNCHANGED <<cmd, step, settings, buf, files, confirmed, env, sent, exit>>
  PROVE  Data'
<1>1. UNCHANGED <<Form, InUse, Setting, ForIsSound>>
  BY DEF Form, InUse, Setting, ForIsSound
<1>2. OnItsWay' /\ Wiped'
  BY <1>1 DEF Data, OnItsWay, Wiped
<1>3. Confirming' /\ SetsWhatWasConfirmed'
  BY <1>1 DEF Data, Confirming, SetsWhatWasConfirmed
<1>4. Settled' /\ LimitIsAskedFor'
  BY <1>1 DEF Data, Settled, LimitIsAskedFor
<1> QED
  BY <1>2, <1>3, <1>4 DEF Data

\* A command that goes on leaves the files alone, and so which form they have.
LEMMA GoesKeeps ==
  ASSUME Data, step \notin {"over", "config"}, step' \notin {"over", "config"},
         UNCHANGED <<cmd, settings, files, env, sent, exit>>,
         OnItsWay', Wiped',
         step' = "begin" => buf'["next"] = "none",
         step' = "entry" /\ Setting => buf'["next"] \in {"none", confirmed'},
         step' = "apply" /\ Setting => buf'["next"] = confirmed',
         cmd.do = "unlock" /\ step' \in {"entry", "apply", "send"} => ForIsSound
  PROVE  Data'
<1>1. UNCHANGED <<Setting, ForIsSound>>
  BY DEF Setting, ForIsSound
<1>2. exit = -1 /\ exit' = -1 /\ files' = cmd'.files
  BY DEF Data, Confirming
<1>3. Confirming' /\ SetsWhatWasConfirmed'
  BY <1>1, <1>2 DEF Confirming, SetsWhatWasConfirmed
<1>4. Settled' /\ LimitIsAskedFor'
  BY <1>1 DEF Data, Settled, LimitIsAskedFor
<1> QED
  BY <1>3, <1>4 DEF Data

LEMMA ConfigureKeeps ==
  ASSUME Data, Configure
  PROVE  Data'
<1>1. /\ step = "config" /\ settings' = Load(cmd.input)
      /\ UNCHANGED <<cmd, buf, files, confirmed, env, sent>>
      /\ \/ step' = "begin" /\ exit' = exit
         \/ step' = "over" /\ exit' = 1
  BY DEF Configure, At, EndsWith, data, exec
<1>2. UNCHANGED <<Form, Setting>>
  BY <1>1 DEF Form, Setting
<1>3. InUse = {} /\ InUse' = {}
  BY <1>1 DEF InUse
<1>4. buf["next"] = "none"
  BY <1>1 DEF Data, Confirming
<1>5. OnItsWay' /\ Wiped'
  BY <1>1, <1>3 DEF Data, OnItsWay, Wiped
<1>6. Confirming' /\ SetsWhatWasConfirmed'
  BY <1>1, <1>2, <1>4 DEF Data, Confirming, SetsWhatWasConfirmed, Setting
<1>7. Settled' /\ LimitIsAskedFor'
  BY <1>1 DEF Data, Settled, LimitIsAskedFor
<1> QED
  BY <1>5, <1>6, <1>7 DEF Data

\* What is read goes into one buffer, and perhaps into the one that nobody clears.
LEMMA ReadInto ==
  ASSUME buf = [x \in Buffers |-> buf[x]], buf["outgrown"] \in Leftovers,
         NEW b \in Buffers \ {"outgrown"}, NEW l
  PROVE  /\ Into(b, l) = [x \in Buffers |-> Into(b, l)[x]]
         /\ Into(b, l)[b] = l
         /\ Into(b, l)["outgrown"] \in Leftovers
         /\ \A x \in Buffers \ {"outgrown", b} : Into(b, l)[x] = buf[x]
BY DEF Into, Buffers, Leftovers

LEMMA TypedInto ==
  ASSUME Wiped, NEW b \in Buffers \ {"outgrown"}
  PROVE  /\ Typed(b) = [x \in Buffers |-> Typed(b)[x]]
         /\ Typed(b)[b] = line
         /\ Typed(b)["outgrown"] \in Leftovers
         /\ \A x \in Buffers \ {"outgrown", b} : Typed(b)[x] = buf[x]
BY ReadInto DEF Wiped, Typed

LEMMA BeginKeeps ==
  ASSUME Data,
         Usage \/ Status \/ List \/ Fetch \/ BeginInit \/ BeginPassphrase \/ BeginUnlock
               \/ BeginStore \/ BeginsNot \/ BeginExec \/ BadMapping
  PROVE  Data'
<1>1. step = "begin"
  BY DEF Usage, Status, List, Fetch, BeginInit, BeginPassphrase, BeginUnlock, BeginStore,
     BeginsNot, BeginExec, BadMapping, Do, At
<1>2. /\ buf = [b \in Buffers |-> buf[b]] /\ buf["next"] = "none" /\ env = <<>>
      /\ buf["outgrown"] \in Leftovers
      /\ \A b \in Buffers \ {"outgrown"} : buf[b] \in Blanks
  BY <1>1 DEF Data, Wiped, InUse, Confirming, OnItsWay
<1>3. ASSUME NEW code \in {0, 1, 2}, Ends(code, {}),
             code = 0 => cmd.do \in {"status", "list", "unlock"}
      PROVE  Data'
  BY <1>1, <1>2, <1>3, EndsClean DEF Ends, Setting
<1>4. CASE Usage \/ Status \/ List \/ BadMapping
  BY <1>3, <1>4 DEF Usage, Status, List, BadMapping, Do
<1>5. ASSUME NEW v
      PROVE  /\ Into("value", v) = [x \in Buffers |-> Into("value", v)[x]]
             /\ Into("value", v)["outgrown"] \in Leftovers
             /\ \A x \in Buffers \ {"outgrown"} : Into("value", v)[x] \in Blanks \/ x = "value"
  <2>1. "value" \in Buffers \ {"outgrown"}
    BY DEF Buffers
  <2> QED
    BY <1>2, <2>1, ReadInto
<1>6. CASE BeginsNot
  <2>1. \/ \E code \in {0, 1} : Ends(code, {}) /\ (code = 0 => cmd.do = "unlock")
        \/ \E v \in Lines : EndsOn(1, Into("value", v), {"value"})
    BY <1>6 DEF BeginsNot, Do
  <2>2. ASSUME NEW v \in Lines, EndsOn(1, Into("value", v), {"value"})
        PROVE  Data'
    BY <1>1, <1>5, <2>2, EndsClean
  <2> QED
    BY <1>3, <2>1, <2>2
<1>7. CASE Fetch
  <2>1. /\ step' = "print" /\ cmd.do = "get" /\ \E v \in Lines : buf' = [buf EXCEPT !["value"] = v]
        /\ UNCHANGED <<cmd, settings, files, env, sent, exit>>
    BY <1>7 DEF Fetch, Do, Skips, Goes, exec
  <2>2. OnItsWay'
    BY <1>2, <2>1 DEF OnItsWay
  <2>3. Wiped'
    BY <1>2, <2>1 DEF Wiped, InUse, Buffers
  <2> QED
    BY <1>1, <2>1, <2>2, <2>3, GoesKeeps
<1>8. CASE BeginInit \/ BeginPassphrase \/ BeginUnlock \/ BeginExec
  <2>1. /\ UNCHANGED <<cmd, settings, buf, files, confirmed, env, sent, exit>>
        /\ UNCHANGED <<Form, ForIsSound>>
    BY <1>8 DEF BeginInit, BeginPassphrase, BeginUnlock, BeginExec, Unchanged, data, exec, Form,
       ForIsSound
  <2>2. \/ cmd.do = "init" /\ step' = IF cmd.flag THEN "apply" ELSE "first"
        \/ /\ cmd.do = "passphrase" /\ Form \in {"age", "txt"}
           /\ step' = IF Form = "txt" THEN "first" ELSE "entry"
           /\ Form = "txt" => ~cmd.flag
        \/ /\ cmd.do = "unlock" /\ Form \in {"age", "txt"} /\ ForIsSound
           /\ step' = IF Form = "txt" THEN "apply" ELSE "entry"
        \/ cmd.do = "exec" /\ step' = "resolve"
    BY <1>8 DEF BeginInit, BeginPassphrase, BeginUnlock, BeginExec, Wrong, Form, Do, Skips,
       Asks, Goes
  <2>3. OnItsWay'
    BY <1>2, <2>1, <2>2 DEF OnItsWay
  <2>4. Wiped'
    BY <1>2, <2>1 DEF Wiped
  <2> QED
    BY <1>1, <1>2, <2>1, <2>2, <2>3, <2>4, GoesKeeps DEF Setting
<1>9. CASE BeginStore
  <2>1. /\ cmd.do = "store" /\ UNCHANGED <<cmd, settings, files, env, sent, exit>>
        /\ \/ step' = "apply" /\ \E v \in Lines : buf' = Into("value", v)
           \/ step' = "value" /\ buf' = buf
    BY <1>9 DEF BeginStore, Do, Skips, Asks, Goes, exec
  <2>2. OnItsWay'
    BY <1>2, <2>1 DEF OnItsWay
  <2>3. Wiped'
    <3>1. CASE step' = "value" /\ buf' = buf
      BY <1>2, <3>1 DEF Wiped
    <3>2. ASSUME step' = "apply", NEW v \in Lines, buf' = Into("value", v)
          PROVE  Wiped'
      BY <1>5, <2>1, <3>2 DEF Wiped, InUse
    <3> QED
      BY <2>1, <3>1, <3>2
  <2> QED
    BY <1>1, <2>1, <2>2, <2>3, GoesKeeps DEF Setting
<1> QED
  BY <1>4, <1>6, <1>7, <1>8, <1>9

LEMMA EntryKeeps ==
  ASSUME Data, Entry
  PROVE  Data'
<1>1. /\ step = "entry" /\ buf' = Typed("entry")
      /\ UNCHANGED <<cmd, settings, files, confirmed, env, sent, exit, Form, ForIsSound>>
      /\ step' = IF cmd.do = "passphrase" /\ ~cmd.flag /\ buf["next"] = "none"
                 THEN "first" ELSE "apply"
  BY DEF Entry, Returned, At, Asks, Resumes, Goes, exec, Form, ForIsSound
<1>2. /\ buf' = [x \in Buffers |-> buf'[x]] /\ buf'["outgrown"] \in Leftovers
      /\ \A x \in Buffers \ {"outgrown", "entry"} : buf'[x] = buf[x]
  BY <1>1, TypedInto DEF Data, Buffers
<1>3. /\ cmd.do \in {"passphrase", "unlock"} /\ Form = "age" /\ env = <<>>
      /\ cmd.do = "unlock" => ForIsSound
      /\ Setting => buf["next"] \in {"none", confirmed}
  BY <1>1 DEF Data, OnItsWay, Settled, Confirming
<1>4. OnItsWay'
  BY <1>1, <1>3 DEF OnItsWay
<1>5. \A x \in Buffers \ {"outgrown", "entry"} :
         buf'[x] \in Blanks \/ (x = "next" /\ cmd.do = "passphrase")
  BY <1>1, <1>2 DEF Data, Wiped, InUse
<1>6. Wiped'
  BY <1>1, <1>2, <1>3, <1>5 DEF Wiped, InUse, Blanks, Buffers
<1>7. step' = "apply" /\ Setting => buf'["next"] = confirmed
  BY <1>1, <1>2, <1>3 DEF Setting, Buffers
<1> QED
  BY <1>1, <1>3, <1>4, <1>6, <1>7, GoesKeeps

LEMMA FirstKeeps ==
  ASSUME Data, First
  PROVE  Data'
<1>1. /\ step = "first" /\ step' = "second" /\ buf' = Typed("first")
      /\ UNCHANGED <<cmd, settings, files, confirmed, env, sent, exit, Form, ForIsSound>>
  BY DEF First, Returned, At, Asks, Goes, exec, Form, ForIsSound
<1>2. /\ buf' = [x \in Buffers |-> buf'[x]] /\ buf'["outgrown"] \in Leftovers
      /\ \A x \in Buffers \ {"outgrown", "first"} : buf'[x] = buf[x]
  BY <1>1, TypedInto DEF Data, Buffers
<1>3. OnItsWay'
  BY <1>1 DEF Data, OnItsWay
<1>4. Wiped'
  BY <1>1, <1>2 DEF Data, Wiped, InUse
<1> QED
  BY <1>1, <1>3, <1>4, GoesKeeps

LEMMA SecondKeeps ==
  ASSUME Data, Second
  PROVE  Data'
<1>1. /\ step = "second" /\ step' = "apply" /\ line = buf["first"] /\ confirmed' = line
      /\ buf' = [Cleared(Typed("second"), {"second"})
                    EXCEPT !["first"] = "none", !["next"] = buf["first"]]
      /\ UNCHANGED <<cmd, settings, files, env, sent, exit, Form, ForIsSound>>
  BY DEF Second, Returned, At, Resumes, Goes, exec, Form, ForIsSound
<1>2. /\ Typed("second") = [x \in Buffers |-> Typed("second")[x]]
      /\ Typed("second")["outgrown"] \in Leftovers
      /\ \A x \in Buffers \ {"outgrown", "second"} : Typed("second")[x] = buf[x]
  BY TypedInto DEF Data, Buffers
<1>3. /\ buf' = [x \in Buffers |-> buf'[x]] /\ buf'["outgrown"] \in Leftovers
      /\ buf'["first"] = "none" /\ buf'["next"] = confirmed'
      /\ buf'["second"] \in Blanks
      /\ \A x \in Buffers \ {"outgrown", "first", "second", "next"} : buf'[x] = buf[x]
  BY <1>1, <1>2 DEF Cleared, Buffers, Blanks
<1>4. /\ cmd.do \in {"init", "passphrase"} /\ env = <<>>
      /\ \A x \in Buffers \ {"outgrown", "first"} :
            buf[x] \in Blanks \/ (x = "entry" /\ Form = "age")
  BY <1>1 DEF Data, OnItsWay, Wiped, InUse
<1>5. OnItsWay'
  BY <1>1, <1>4 DEF OnItsWay
<1>6. \A x \in Buffers \ {"outgrown"} : buf'[x] \in Blanks \/ x = "next" \/ (x = "entry" /\ Form = "age")
  BY <1>3, <1>4 DEF Blanks
<1>7. Wiped'
  BY <1>1, <1>3, <1>4, <1>6 DEF Wiped, InUse
<1> QED
  BY <1>1, <1>3, <1>4, <1>5, <1>7, GoesKeeps

LEMMA ValueKeeps ==
  ASSUME Data, Value
  PROVE  Data'
<1>1. /\ step = "value" /\ step' = "apply" /\ buf' = Typed("value")
      /\ UNCHANGED <<cmd, settings, files, confirmed, env, sent, exit, Form, ForIsSound>>
  BY DEF Value, Returned, At, Resumes, Goes, exec, Form, ForIsSound
<1>2. /\ buf' = [x \in Buffers |-> buf'[x]] /\ buf'["outgrown"] \in Leftovers
      /\ \A x \in Buffers \ {"outgrown", "value"} : buf'[x] = buf[x]
  BY <1>1, TypedInto DEF Data, Buffers
<1>3. cmd.do = "store" /\ env = <<>>
  BY <1>1 DEF Data, OnItsWay
<1>4. OnItsWay'
  BY <1>1, <1>3 DEF OnItsWay
<1>5. Wiped'
  BY <1>1, <1>2, <1>3 DEF Data, Wiped, InUse, Blanks
<1> QED
  BY <1>1, <1>3, <1>4, <1>5, GoesKeeps DEF Setting

LEMMA PromptFailsKeeps ==
  ASSUME Data, PromptFails
  PROVE  Data'
<1>1. buf = [x \in Buffers |-> buf[x]] /\ buf["outgrown"] \in Leftovers /\ step \in Prompting
  BY DEF Data, Wiped, PromptFails, Returned, At, Prompting
<1>2. ASSUME NEW b, NEW S, EndsOn(1, b, S), b["outgrown"] \in Leftovers, "outgrown" \notin S,
             \A x \in Buffers \ {"outgrown"} : b[x] \in Blanks \/ x \in S
      PROVE  Data'
  BY <1>1, <1>2, EndsClean DEF Prompting
\* A prompt that fails while the command holds what is in S.
<1>3. ASSUME NEW S, FailsWith(S) \/ Ends(1, S), "outgrown" \notin S,
             \A x \in Buffers \ {"outgrown"} : buf[x] \in Blanks \/ x \in S
      PROVE  Data'
  <2>1. PICK b \in Abandoned \cup {buf} : EndsOn(1, b, S)
    BY <1>3 DEF FailsWith, Ends
  <2>2. /\ b["outgrown"] \in Leftovers
        /\ \A x \in Buffers \ {"outgrown"} : b[x] = buf[x]
    BY <1>1 DEF Abandoned, Leftovers, Buffers
  <2> QED
    BY <1>2, <1>3, <2>1, <2>2
<1>4. CASE Returned("entry") /\ FailsWith({"next"})
  BY <1>3, <1>4 DEF Returned, At, Data, Wiped, InUse
<1>5. CASE Returned("first") /\ (FailsWith({"entry"}) \/ Ends(1, {"entry"}))
  BY <1>3, <1>5 DEF Returned, At, Data, Wiped, InUse
<1>6. CASE Returned("second") /\ FailsWith(ClearsFirst)
  BY <1>3, <1>6 DEF Returned, At, ClearsFirst, Data, Wiped, InUse
<1>7. CASE Returned("value") /\ FailsWith({})
  BY <1>3, <1>7 DEF Returned, At, Data, Wiped, InUse
<1>8. CASE Returned("second") /\ EndsOn(1, Typed("second"), ClearsFirst \cup {"second"})
  <2>1. /\ \A x \in Buffers \ {"outgrown", "second"} : Typed("second")[x] = buf[x]
        /\ Typed("second")["outgrown"] \in Leftovers
    BY TypedInto DEF Data, Buffers
  <2>2. \A x \in Buffers \ {"outgrown"} : buf[x] \in Blanks \/ x \in ClearsFirst
    BY <1>8 DEF Returned, At, ClearsFirst, Data, Wiped, InUse
  <2>3. "outgrown" \notin ClearsFirst \cup {"second"}
    BY DEF ClearsFirst
  <2> QED
    BY <1>2, <1>8, <2>1, <2>2, <2>3
<1> QED
  BY <1>4, <1>5, <1>6, <1>7, <1>8 DEF PromptFails

LEMMA WritesKeeps ==
  ASSUME Data, Writes
  PROVE  Data'
<1>1. PICK code \in {0, 1} : step = "print" /\ EndsOn(code, buf, {"value"})
  BY DEF Writes, At, Ends
<1>2. /\ buf["outgrown"] \in Leftovers
      /\ \A x \in Buffers \ {"outgrown"} : buf[x] \in Blanks \/ x \in {"value"}
  BY <1>1 DEF Data, Wiped, InUse
<1>3. ~Setting
  <2>1. step = "print" => cmd.do = "get"
    BY DEF Data, OnItsWay
  <2> QED
    BY <1>1, <2>1 DEF Setting
<1> QED
  BY <1>1, <1>2, <1>3, EndsClean

\* At the end of its prompts a command holds these and no others.
LEMMA HeldAtApply ==
  ASSUME Data, step = "apply"
  PROVE  /\ env = <<>> /\ exit = -1 /\ sent = {} /\ files = cmd.files
         /\ files \in [age: Pass \cup {"absent"}, txt: BOOLEAN]
         /\ Setting => buf["next"] = confirmed
         /\ buf["outgrown"] \in Leftovers
         /\ \A x \in Buffers \ {"outgrown"} :
               \/ buf[x] \in Blanks
               \/ x = "entry" /\ (cmd.do = "unlock" \/ Form = "age")
               \/ x = "next" /\ cmd.do \notin {"unlock", "store"}
               \/ x = "value" /\ cmd.do = "store"
<1>1. env = <<>> /\ exit = -1 /\ sent = {} /\ files = cmd.files /\ cmd \in Commands
  BY DEF Data, OnItsWay, Confirming, Settled
<1>2. files \in [age: Pass \cup {"absent"}, txt: BOOLEAN]
  BY <1>1, CommandAssumption
<1>3. \A x \in Buffers \ {"outgrown"} :
         \/ buf[x] \in Blanks
         \/ x = "entry" /\ (cmd.do = "unlock" \/ Form = "age")
         \/ x = "next" /\ cmd.do \notin {"unlock", "store"}
         \/ x = "value" /\ cmd.do = "store"
  BY DEF Data, Wiped, InUse
<1> QED
  BY <1>1, <1>2, <1>3 DEF Data, Wiped, Confirming

LEMMA ChangeClean ==
  ASSUME Data, step = "apply", NEW f, NEW S, Changes(f, S), "outgrown" \notin S,
         \A x \in Buffers \ {"outgrown"} : buf[x] \in Blanks \/ x \in S,
         Setting => f.age = confirmed
  PROVE  Data'
<1>1. /\ step' = "over" /\ exit' = 0 /\ buf' = Cleared(buf, S) /\ files' = f
      /\ UNCHANGED <<cmd, settings, confirmed, env, sent>>
  BY DEF Changes, EndsWith, exec
<1>2. env = <<>> /\ sent = {} /\ buf["outgrown"] \in Leftovers
  BY HeldAtApply
<1>3. OnItsWay' /\ Wiped'
  BY <1>1, <1>2, ClearedStays DEF OnItsWay, Wiped, Cleared, Blanks
<1>4. Confirming' /\ SetsWhatWasConfirmed'
  BY <1>1 DEF Confirming, SetsWhatWasConfirmed, Setting
<1>5. Settled' /\ LimitIsAskedFor'
  BY <1>1, <1>2 DEF Data, Settled, LimitIsAskedFor
<1> QED
  BY <1>3, <1>4, <1>5 DEF Data

LEMMA ChangesKeep ==
  ASSUME Data, Create \/ Sets \/ Changed
  PROVE  Data'
<1>1. step = "apply" /\ cmd.do \in {"init", "passphrase"}
  BY DEF Create, Sets, Changed, Applies, At
<1>2. /\ files \in [age: Pass \cup {"absent"}, txt: BOOLEAN]
      /\ Setting => buf["next"] = confirmed
      /\ \A x \in Buffers \ {"outgrown"} :
            buf[x] \in Blanks \/ (x = "entry" /\ Form = "age") \/ x = "next"
  BY <1>1, HeldAtApply
<1>3. CASE Create
  <2>1. /\ Form = "none"
        /\ Changes(IF cmd.flag THEN [files EXCEPT !.txt = TRUE]
                               ELSE [files EXCEPT !.age = buf["next"]], {"next"})
    BY <1>3 DEF Create
  <2>2. ~cmd.flag => [files EXCEPT !.age = buf["next"]].age = buf["next"]
    BY <1>2
  <2> QED
    BY <1>1, <1>2, <2>1, <2>2, ChangeClean DEF Setting
<1>4. CASE Sets
  <2>1. Form = "txt" /\ Changes([age |-> buf["next"], txt |-> FALSE], {"next"})
    BY <1>4 DEF Sets
  <2> QED
    BY <1>1, <1>2, <2>1, ChangeClean
<1>5. CASE Changed
  <2>1. Changes(IF cmd.flag THEN [age |-> "absent", txt |-> TRUE]
                            ELSE [files EXCEPT !.age = buf["next"]], {"entry", "next"})
    BY <1>5 DEF Changed
  <2>2. ~cmd.flag => [files EXCEPT !.age = buf["next"]].age = buf["next"]
    BY <1>2
  <2> QED
    BY <1>1, <1>2, <2>1, <2>2, ChangeClean DEF Setting
<1> QED
  BY <1>3, <1>4, <1>5

LEMMA FailsKeeps ==
  ASSUME Data, Fails \/ Store
  PROVE  Data'
<1>1. step = "apply"
  BY DEF Fails, Store, Applies, At
<1>2. \A x \in Buffers \ {"outgrown"} :
         \/ buf[x] \in Blanks
         \/ x = "entry" /\ cmd.do # "store"
         \/ x = "next" /\ cmd.do \notin {"unlock", "store"}
         \/ x = "value" /\ cmd.do = "store"
  <2>1. Form = "age" /\ cmd.do = "store" => buf["entry"] \in Blanks
    BY <1>1 DEF Data, Wiped, InUse, Buffers
  <2> QED
    BY <1>1, <2>1, HeldAtApply
<1>3. \E code \in {0, 1}, S \in {{"entry", "next"}, {"entry"}, {"value"}} :
         /\ EndsOn(code, buf, S) /\ (code = 0 => ~Setting)
         /\ \A x \in Buffers \ {"outgrown"} : buf[x] \in Blanks \/ x \in S
  BY <1>2 DEF Fails, Store, Applies, Ends, Setting
<1> QED
  BY <1>1, <1>3, HeldAtApply, EndsClean

LEMMA LoadIdentityKeeps ==
  ASSUME Data, LoadIdentity
  PROVE  Data'
<1>1. /\ step = "apply" /\ step' = "send" /\ cmd.do = "unlock"
      /\ buf' = [Cleared(buf, {"entry"}) EXCEPT !["identity"] = "key"]
      /\ UNCHANGED <<cmd, settings, files, confirmed, env, sent, exit, ForIsSound>>
  BY DEF LoadIdentity, Applies, At, Skips, Goes, exec, ForIsSound
<1>2. /\ buf["outgrown"] \in Leftovers
      /\ \A x \in Buffers \ {"outgrown"} : buf[x] \in Blanks \/ x = "entry"
  BY <1>1, HeldAtApply
<1>3. env = <<>> /\ ForIsSound
  BY <1>1 DEF Data, OnItsWay, Settled
<1>4. OnItsWay'
  BY <1>1, <1>3 DEF OnItsWay
<1>5. Wiped'
  BY <1>1, <1>2 DEF Wiped, InUse, Cleared, Blanks, Buffers
<1> QED
  BY <1>1, <1>3, <1>4, <1>5, GoesKeeps

LEMMA RetryKeeps ==
  ASSUME Data, Retry
  PROVE  Data'
<1>1. /\ step = "apply" /\ step' = "entry" /\ cmd.do \in {"passphrase", "unlock"}
      /\ Form = "age" /\ buf' = Cleared(buf, {"entry"})
      /\ UNCHANGED <<cmd, settings, files, confirmed, env, sent, exit, Form, ForIsSound>>
  BY DEF Retry, At, Asks, Goes, WipesEntry, exec, Form, ForIsSound
<1>2. /\ \A x \in Buffers \ {"outgrown"} :
            buf[x] \in Blanks \/ x = "entry" \/ (x = "next" /\ cmd.do = "passphrase")
      /\ Setting => buf["next"] = confirmed
      /\ buf["outgrown"] \in Leftovers
  BY <1>1, HeldAtApply
<1>3. env = <<>> /\ (cmd.do = "unlock" => ForIsSound)
  BY <1>1 DEF Data, OnItsWay, Settled
<1>4. OnItsWay'
  BY <1>1, <1>3 DEF OnItsWay
<1>5. Wiped' /\ buf'["next"] = buf["next"]
  BY <1>1, <1>2 DEF Wiped, InUse, Cleared, Blanks, Buffers
<1> QED
  BY <1>1, <1>2, <1>3, <1>4, <1>5, GoesKeeps

\* unlock has got to the session what --for asked for.
LEMMA SendKeeps ==
  ASSUME Data, Send
  PROVE  Data'
<1>1. /\ step = "send" /\ step' = "over" /\ exit' \in {0, 1}
      /\ buf' = Cleared(buf, {"identity"})
      /\ sent' = {IF cmd.for = <<>> THEN <<>> ELSE <<Given("cli", cmd.for[1])>>}
      /\ UNCHANGED <<cmd, settings, files, confirmed, env>>
  BY DEF Send, At, EndsWith, exec
<1>2. /\ cmd \in Commands /\ cmd.do = "unlock" /\ ForIsSound /\ env = <<>> /\ exit = -1
      /\ files = cmd.files /\ buf["outgrown"] \in Leftovers
      /\ \A x \in Buffers \ {"outgrown"} : buf[x] \in Blanks \/ x = "identity"
  BY <1>1 DEF Data, OnItsWay, Wiped, InUse, Settled, Confirming
<1>3. OnItsWay' /\ Wiped'
  BY <1>1, <1>2, ClearedStays DEF OnItsWay, Wiped, Cleared, Blanks
<1>4. Confirming' /\ SetsWhatWasConfirmed'
  BY <1>1, <1>2 DEF Confirming, SetsWhatWasConfirmed
<1>5. LimitIsAskedFor'
  <2>1. CASE cmd.for = <<>>
    BY <1>1, <2>1 DEF LimitIsAskedFor
  <2>2. ASSUME NEW d \in Word, cmd.for = <<d>>
        PROVE  LimitIsAskedFor'
    <3> DEFINE g == Given("cli", d)
    <3>1. sent' = {<<g>>} /\ cmd'.for = <<d>>
      BY <1>1, <2>2
    <3>2. ~Rejects("cli", d)
      BY <1>2, <2>2 DEF ForIsSound, ToSet
    <3>3. d \in Int /\ d >= 0
      BY <3>2 DEF Rejects, Word
    <3>4. /\ Arms(g) => g \in 1 .. d /\ d - g < OneSecond
          /\ ~Arms(g) => d <= 0 \/ d < OneSecond
      BY <3>2, LimitsKept DEF LocksInTime, Asking, GoClients
    <3>5. Arms(g) => g <= d /\ d - g < OneSecond
      BY <3>3, <3>4
    <3>6. ~Arms(g) => d \in 0 .. OneSecond - 1
      BY <3>3, <3>4
    <3> HIDE DEF g
    <3> QED
      BY <3>1, <3>5, <3>6 DEF LimitIsAskedFor
  <2> QED
    BY <1>2, <2>1, <2>2, CommandAssumption
<1>6. Settled'
  BY <1>1 DEF Data, Settled
<1> QED
  BY <1>3, <1>4, <1>5, <1>6 DEF Data

\* exec keeps its secrets in its environment, and nothing in buffers.
LEMMA ExecKeeps ==
  ASSUME Data, Get \/ ResolveFails \/ NotStarted \/ Execve
  PROVE  Data'
<1>1. /\ step = "resolve" /\ UNCHANGED <<cmd, settings, buf, files, confirmed, sent>>
      /\ \/ UNCHANGED <<step, exit>>
         \/ step' = "over" /\ env' = <<>> /\ exit' \in {0, 1}
  BY DEF Get, ResolveFails, NotStarted, Execve, Resolves, Resolved, Abandons, At, EndsWith, data
<1>2. /\ cmd.do = "exec" /\ exit = -1 /\ files = cmd.files /\ sent = {}
      /\ buf = [x \in Buffers |-> buf[x]] /\ buf["outgrown"] \in Leftovers
      /\ \A x \in Buffers \ {"outgrown"} : buf[x] \in Blanks
  BY <1>1 DEF Data, OnItsWay, Wiped, InUse, Confirming, Settled
<1>3. OnItsWay' /\ Wiped'
  BY <1>1, <1>2 DEF OnItsWay, Wiped
<1>4. Confirming' /\ SetsWhatWasConfirmed'
  BY <1>1, <1>2 DEF Confirming, SetsWhatWasConfirmed
<1>5. Settled' /\ LimitIsAskedFor'
  BY <1>1, <1>2 DEF Data, Settled, LimitIsAskedFor
<1> QED
  BY <1>3, <1>4, <1>5 DEF Data

LEMMA InitData == Init => Data
<1> SUFFICES ASSUME Init PROVE Data
  OBVIOUS
<1>1. /\ cmd \in Commands /\ step = "config" /\ buf = [b \in Buffers |-> "none"]
      /\ files = cmd.files /\ env = <<>> /\ sent = {} /\ exit = -1
  BY DEF Init
<1>2. buf["next"] = "none" /\ buf["outgrown"] \in Leftovers
  BY <1>1 DEF Buffers, Leftovers
<1> QED
  BY <1>1, <1>2 DEF Data, OnItsWay, Wiped, Blanks, Confirming, Settled, SetsWhatWasConfirmed,
     LimitIsAskedFor

LEMMA NextData == Data /\ [Next]_vars => Data'
<1> SUFFICES ASSUME Data, [Next]_vars
             PROVE  Data'
  OBVIOUS
<1>1. CASE Configure
  BY <1>1, ConfigureKeeps
<1>2. CASE Usage \/ Status \/ List \/ Fetch \/ BeginInit \/ BeginPassphrase \/ BeginUnlock
              \/ BeginStore \/ BeginsNot \/ BeginExec \/ BadMapping
  BY <1>2, BeginKeeps
<1>3. CASE Entry \/ First \/ Second \/ Value \/ PromptFails
  BY <1>3, EntryKeeps, FirstKeeps, SecondKeeps, ValueKeeps, PromptFailsKeeps
<1>4. CASE Create \/ Sets \/ Changed \/ Fails \/ Store \/ Writes
  BY <1>4, ChangesKeep, FailsKeeps, WritesKeeps
<1>5. CASE LoadIdentity \/ Retry \/ Send
  BY <1>5, LoadIdentityKeeps, RetryKeeps, SendKeeps
<1>6. CASE Get \/ ResolveFails \/ NotStarted \/ Execve
  BY <1>6, ExecKeeps
<1>7. CASE Others \/ UNCHANGED vars
  BY <1>7, OthersKeep DEF Others, vars, data, exec
<1> QED
  BY <1>1, <1>2, <1>3, <1>4, <1>5, <1>6, <1>7 DEF Next, Running

THEOREM InvariantHolds == Spec => []IInv
<1> QED
  BY TerminalHolds, InitData, NextData, PTL DEF Spec, IInv

\* setup.go:81: whatever the user types, and however often the current
\* passphrase was wrong, init and passphrase leave the passphrase that was
\* entered twice, or what was there.
THEOREM ConfirmedIsSet == Spec => []SetsWhatWasConfirmed
<1>1. IInv => SetsWhatWasConfirmed
  BY DEF IInv, Data
<1> QED
  BY <1>1, InvariantHolds, PTL

\* unlock.go, keycell.go:155, server.go:222: at any width of the words, the
\* session locks when `unlock --for` said.
THEOREM LimitReachesSession == Spec => []LimitIsAskedFor
<1>1. IInv => LimitIsAskedFor
  BY DEF IInv, Data
<1> QED
  BY <1>1, InvariantHolds, PTL

\* docs/CLI.md:328: no command ends, on any path, with a secret in a buffer that
\* it uses.  What readLine and io.ReadAll have outgrown is all that stays, and
\* nothing of a line or value that is not long.
THEOREM NothingHeld == Spec => []ZeroedAfterUse
<1>1. IInv => ZeroedAfterUse
  <2> SUFFICES ASSUME IInv PROVE ZeroedAfterUse
    OBVIOUS
  <2>1. /\ buf["outgrown"] \in Leftovers
        /\ \A b \in Buffers \ {"outgrown"} : buf[b] \in Blanks \/ b \in InUse
    BY DEF IInv, Data, Wiped
  <2>2. /\ life = "exited" => step = "over" /\ env = <<>> /\ InUse = {}
        /\ step = "entry" => InUse \subseteq {"next"}
    BY DEF IInv, Data, Life, OnItsWay, InUse
  <2> QED
    BY <2>1, <2>2 DEF ZeroedAfterUse, Blanks, Leftovers
<1> QED
  BY <1>1, InvariantHolds, PTL

-----------------------------------------------------------------------------
(* The configuration *)

\* A configuration under way, with the fields of its record.
IsConfig(c) ==
    /\ c = [of |-> c.of, error |-> c.error, key |-> c.key]
    /\ c.of = [f \in Fields |-> c.of[f]]

\* A layer that passes is sound, and settles what it sets.
LEMMA ApplyPasses ==
  ASSUME NEW c, NEW from, NEW l, NEW home, NEW r,
         r = Apply(c, from, l, home), IsConfig(c), from # "none", r.error = "none"
  PROVE  /\ IsConfig(r) /\ c.error = "none"
         /\ \A f \in Fields : /\ r.of[f] = IF l[f] # "unset" THEN from ELSE c.of[f]
                              /\ l[f] # "unset" => Valid(f, l[f], home)
<1> DEFINE invalid == {i \in DOMAIN Order : l[Order[i]] # "unset" /\ ~Valid(Order[i], l[Order[i]], home)}
           failed == [c EXCEPT !.error = from, !.key = Order[Min(invalid)]]
           passed == [c EXCEPT !.of = [f \in Fields |-> IF l[f] # "unset" THEN from ELSE c.of[f]]]
<1>1. Apply(c, from, l, home) = IF c.error # "none" THEN c ELSE IF invalid # {} THEN failed ELSE passed
  BY DEF Apply
<1>2. failed.error = from
  BY DEF IsConfig
<1> HIDE DEF invalid, failed
<1>3. c.error = "none" /\ invalid = {} /\ Apply(c, from, l, home) = passed
  BY <1>1, <1>2
<1>4. \A f \in Fields : l[f] # "unset" => Valid(f, l[f], home)
  BY <1>3 DEF invalid, Fields, ToSet
<1>5. passed = [of |-> [f \in Fields |-> IF l[f] # "unset" THEN from ELSE c.of[f]],
                error |-> c.error, key |-> c.key]
  BY DEF IsConfig
<1> HIDE DEF passed
<1> QED
  BY <1>3, <1>4, <1>5 DEF IsConfig

\* No step of Load spoils the configuration's shape.
LEMMA ApplyShape ==
  ASSUME NEW c, NEW from, NEW l, NEW home, IsConfig(c)
  PROVE  IsConfig(Apply(c, from, l, home))
<1> DEFINE invalid == {i \in DOMAIN Order : l[Order[i]] # "unset" /\ ~Valid(Order[i], l[Order[i]], home)}
           slot   == Order[Min(invalid)]
           failed == [c EXCEPT !.error = from, !.key = slot]
           passed == [c EXCEPT !.of = [f \in Fields |-> IF l[f] # "unset" THEN from ELSE c.of[f]]]
<1>1. Apply(c, from, l, home) = IF c.error # "none" THEN c ELSE IF invalid # {} THEN failed ELSE passed
  BY DEF Apply
<1> HIDE DEF invalid, slot
<1>2. failed = [of |-> c.of, error |-> from, key |-> slot]
  <2> DEFINE middle == [c EXCEPT !.error = from]
  <2>1. middle = [of |-> c.of, error |-> from, key |-> c.key]
    BY DEF IsConfig
  <2>2. failed = [middle EXCEPT !.key = slot]
    OBVIOUS
  <2> HIDE DEF middle, failed
  <2> QED
    BY <2>1, <2>2
<1>3. passed = [of |-> [f \in Fields |-> IF l[f] # "unset" THEN from ELSE c.of[f]],
                error |-> c.error, key |-> c.key]
  BY DEF IsConfig
<1> HIDE DEF failed, passed
<1>4. IsConfig(failed)
  BY <1>2 DEF IsConfig
<1>5. IsConfig(passed)
  BY <1>3 DEF IsConfig
<1> QED
  BY <1>1, <1>4, <1>5

\* When Load passes, each setting is of the uppermost layer that has it, and
\* every layer is sound, also where an upper one overrides it.
LEMMA LoadPasses ==
  ASSUME NEW in, Load(in).error = "none"
  PROVE  LET file == IF in.disk = "good" THEN in.file ELSE NoLayer IN
         \A f \in Fields :
            /\ Load(in).of[f] = IF in.flags[f] # "unset" THEN "flag"
                                ELSE IF in.env[f] # "unset" THEN "env"
                                ELSE IF file[f] # "unset" THEN "file" ELSE "default"
            /\ file[f] # "unset" => Valid(f, file[f], in.home)
            /\ in.env[f] # "unset" => Valid(f, in.env[f], in.home)
            /\ in.flags[f] # "unset" => Valid(f, in.flags[f], in.home)
<1> DEFINE start == [of |-> [f \in Fields |-> "default"], error |-> "none", key |-> "none"]
           read  == ReadFile(start, in)
           file  == IF in.disk = "good" THEN in.file ELSE NoLayer
           given == in.env
           typed == in.flags
           home  == in.home
           one   == Apply(read, "file", file, home)
           two   == Apply(one, "env", given, home)
           three == Apply(two, "flag", typed, home)
<1>1. IsConfig(start) /\ start.error = "none" /\ \A f \in Fields : start.of[f] = "default"
  BY DEF IsConfig
<1>2. Load(in) = Defaults(three, in)
  BY DEF Load
<1> HIDE DEF start, file, given, typed, home
<1>3. IsConfig(read) /\ (read.error = "none" => read = start)
  <2>1. \A e : IsConfig(Failed(start, e)) /\ Failed(start, e).error = e
    BY <1>1 DEF Failed, IsConfig
  <2>2. read = start \/ read = Failed(start, "config path") \/ read = Failed(start, "config file")
    BY DEF ReadFile
  <2> HIDE DEF read
  <2>3. CASE read = start
    BY <1>1, <2>3
  <2>4. CASE read = Failed(start, "config path")
    <3>1. IsConfig(read) /\ read.error = "config path"
      BY <2>1, <2>4
    <3> QED
      BY <3>1
  <2>5. CASE read = Failed(start, "config file")
    <3>1. IsConfig(read) /\ read.error = "config file"
      BY <2>1, <2>5
    <3> QED
      BY <3>1
  <2> QED
    BY <2>2, <2>3, <2>4, <2>5
<1> HIDE DEF read
<1>4. IsConfig(one)
  BY <1>3, ApplyShape
<1> HIDE DEF one
<1>5. IsConfig(two)
  BY <1>4, ApplyShape
<1> HIDE DEF two
<1>6. IsConfig(three)
  BY <1>5, ApplyShape
<1> HIDE DEF three
<1>7. three.error = "none" /\ Load(in) = three
  <2>1. \A e : Failed(three, e).error = e
    BY <1>6 DEF Failed, IsConfig
  <2>2. \/ Load(in) = three
        \/ Load(in) = Failed(three, "no data dir")
        \/ Load(in) = Failed(three, "no runtime dir")
    BY <1>2 DEF Defaults
  <2> QED
    BY <2>1, <2>2
<1>8. /\ two.error = "none"
      /\ \A f \in Fields : /\ three.of[f] = IF typed[f] # "unset" THEN "flag" ELSE two.of[f]
                           /\ typed[f] # "unset" => Valid(f, typed[f], home)
  <2>1. three = Apply(two, "flag", typed, home)
    BY DEF three
  <2> QED
    BY <1>5, <1>7, <2>1, ApplyPasses
<1>9. /\ one.error = "none"
      /\ \A f \in Fields : /\ two.of[f] = IF given[f] # "unset" THEN "env" ELSE one.of[f]
                           /\ given[f] # "unset" => Valid(f, given[f], home)
  <2>1. two = Apply(one, "env", given, home)
    BY DEF two
  <2> QED
    BY <1>4, <1>8, <2>1, ApplyPasses
<1>10. /\ read.error = "none"
       /\ \A f \in Fields : /\ one.of[f] = IF file[f] # "unset" THEN "file" ELSE read.of[f]
                            /\ file[f] # "unset" => Valid(f, file[f], home)
  <2>1. one = Apply(read, "file", file, home)
    BY DEF one
  <2> QED
    BY <1>3, <1>9, <2>1, ApplyPasses
<1>11. \A f \in Fields : read.of[f] = "default"
  BY <1>1, <1>3, <1>10
<1>12. \A f \in Fields :
            /\ Load(in).of[f] = IF typed[f] # "unset" THEN "flag"
                                ELSE IF given[f] # "unset" THEN "env"
                                ELSE IF file[f] # "unset" THEN "file" ELSE "default"
            /\ file[f] # "unset" => Valid(f, file[f], home)
            /\ given[f] # "unset" => Valid(f, given[f], home)
            /\ typed[f] # "unset" => Valid(f, typed[f], home)
  BY <1>7, <1>8, <1>9, <1>10, <1>11
<1> QED
  BY <1>12 DEF file, given, typed, home

\* config.go:81-109: a command that has got past its configuration runs with
\* each setting from the uppermost layer that has it, and no layer that has
\* one had an unusable one.
THEOREM TopLayerWins == Spec => []SettingsFromTopLayer
<1> DEFINE in   == cmd.input
           used == [file |-> IF in.disk = "good" THEN in.file ELSE NoLayer,
                    env |-> in.env, flag |-> in.flags]
           has(f) == {l \in DOMAIN used : used[l][f] # "unset"}
<1>1. ASSUME IInv PROVE SettingsFromTopLayer
  <2> SUFFICES ASSUME step # "config", settings.error = "none", NEW f \in Fields
               PROVE  /\ settings.of[f] = IF "flag" \in has(f) THEN "flag"
                                  ELSE IF "env" \in has(f) THEN "env"
                                  ELSE IF "file" \in has(f) THEN "file" ELSE "default"
                      /\ \A l \in has(f) : Valid(f, used[l][f], in.home)
    BY DEF SettingsFromTopLayer
  <2>1. settings = Load(in)
    BY <1>1 DEF IInv, Data, Settled
  <2>2. /\ settings.of[f] = IF used.flag[f] # "unset" THEN "flag"
                            ELSE IF used.env[f] # "unset" THEN "env"
                            ELSE IF used.file[f] # "unset" THEN "file" ELSE "default"
        /\ used.file[f] # "unset" => Valid(f, used.file[f], in.home)
        /\ used.env[f] # "unset" => Valid(f, used.env[f], in.home)
        /\ used.flag[f] # "unset" => Valid(f, used.flag[f], in.home)
    BY <2>1, LoadPasses
  <2>3. DOMAIN used = {"file", "env", "flag"}
    OBVIOUS
  <2>4. \A l \in has(f) : l \in {"file", "env", "flag"} /\ used[l][f] # "unset"
    BY <2>3
  <2>5. \A l \in {"file", "env", "flag"} : l \in has(f) <=> used[l][f] # "unset"
    BY <2>3
  <2> HIDE DEF used
  <2>6. \A l \in has(f) : Valid(f, used[l][f], in.home)
    BY <2>2, <2>4
  <2>7. /\ "flag" \in has(f) <=> used.flag[f] # "unset"
        /\ "env" \in has(f) <=> used.env[f] # "unset"
        /\ "file" \in has(f) <=> used.file[f] # "unset"
    BY <2>5
  <2> HIDE DEF has
  <2> QED
    BY <2>2, <2>6, <2>7
<1> QED
  BY <1>1, InvariantHolds, PTL

-----------------------------------------------------------------------------
(* The environment of exec *)

\* A set of naturals has a least element; this stands for induction, whose
\* theorems have a parameter that the provers cannot instantiate.
LEMMA Least ==
  ASSUME NEW T, T \subseteq Nat, T # {}
  PROVE  \E m \in T : \A k \in T : m <= k
<1>1. IsWellFoundedOn(OpToRel(<, Nat), Nat)
  BY NatLessThanWellFounded
<1>2. \E m \in T : \A k \in T : ~ (<<k, m>> \in OpToRel(<, Nat))
  BY <1>1, WFMin
<1>3. \A m, k \in Nat : <<k, m>> \in OpToRel(<, Nat) <=> k < m
  BY DEF OpToRel
<1>4. \E m \in T : \A k \in T : ~(k < m)
  BY <1>2, <1>3, Zenon
<1> QED
  BY <1>4

\* Likewise, a bounded one has a greatest.
LEMMA Greatest ==
  ASSUME NEW n \in Nat, NEW T, T \subseteq 0 .. n, T # {}
  PROVE  \E m \in T : \A k \in T : k <= m
<1> DEFINE D == {n - k : k \in T}
<1>1. D \subseteq Nat /\ D # {}
  <2>1. \A k \in T : k \in Int /\ n - k \in Nat
    OBVIOUS
  <2>2. PICK k \in T : TRUE
    OBVIOUS
  <2> QED
    BY <2>1, <2>2
<1>2. PICK d \in D : \A k \in D : d <= k
  BY <1>1, Least
<1>3. PICK m \in T : d = n - m
  BY <1>2
<1>4. ASSUME NEW k \in T PROVE k <= m
  <2>1. d <= n - k /\ k \in Int /\ m \in Int
    BY <1>2
  <2> QED
    BY <1>3, <2>1
<1> QED
  BY <1>4

\* Of the first n entries, the i-th is the last that maps v.
Maps(es, i, v) == es[i] # Blank /\ es[i].var = v
Decides(es, n, v, i) == i \in 1 .. n /\ Maps(es, i, v) /\ \A j \in 1 .. n : Maps(es, j, v) => j <= i
Decisive(es, n, v) == CHOOSE i : Decides(es, n, v, i)

\* What the first n entries amount to.
Mapped(es, n) == {es[i].var : i \in {j \in 1 .. n : es[j] # Blank}}
Final(es, n) == [v \in Mapped(es, n) |-> es[Decisive(es, n, v)].name]

LEMMA DecisiveIs ==
  ASSUME NEW es, NEW n \in Nat, NEW v, NEW i, Decides(es, n, v, i)
  PROVE  Decisive(es, n, v) = i
<1> DEFINE c == Decisive(es, n, v)
<1>1. Decides(es, n, v, c)
  BY DEF Decisive
<1> HIDE DEF c
<1>2. c \in 1 .. n /\ i \in 1 .. n /\ c <= i /\ i <= c
  BY <1>1 DEF Decides
<1>3. c = i
  BY <1>2
<1> QED
  BY <1>3 DEF c

LEMMA OneDecides ==
  ASSUME NEW es, NEW n \in Nat, NEW v \in Mapped(es, n)
  PROVE  Decides(es, n, v, Decisive(es, n, v))
<1> DEFINE T == {i \in 1 .. n : Maps(es, i, v)}
<1>1. T # {} /\ T \subseteq 0 .. n
  BY DEF Mapped, Maps
<1>2. PICK m \in T : \A k \in T : k <= m
  BY <1>1, Greatest
<1>3. Decides(es, n, v, m)
  BY <1>2 DEF Decides
<1> QED
  BY <1>3 DEF Decisive

\* One more entry: ByVar's own step.
LEMMA FinalStep ==
  ASSUME NEW es, NEW n \in Nat, n > 0
  PROVE  Final(es, n) = IF es[n] = Blank THEN Final(es, n - 1) ELSE Override(Final(es, n - 1), es[n])
<1>1. CASE es[n] = Blank
  <2>1. Mapped(es, n) = Mapped(es, n - 1)
    BY <1>1 DEF Mapped
  <2>2. \A v, i : Decides(es, n, v, i) <=> Decides(es, n - 1, v, i)
    BY <1>1 DEF Decides, Maps
  <2>3. \A v \in Mapped(es, n) : Decisive(es, n, v) = Decisive(es, n - 1, v)
    BY <2>2 DEF Decisive
  <2> QED
    BY <1>1, <2>1, <2>3 DEF Final
<1>2. CASE es[n] # Blank
  <2>1. Mapped(es, n) = Mapped(es, n - 1) \cup {es[n].var}
    BY <1>2 DEF Mapped
  <2>2. Decisive(es, n, es[n].var) = n
    <3>1. Decides(es, n, es[n].var, n)
      BY <1>2 DEF Decides, Maps
    <3> QED
      BY <3>1, DecisiveIs
  <2>3. ASSUME NEW v \in Mapped(es, n - 1), v # es[n].var
        PROVE  Decisive(es, n, v) = Decisive(es, n - 1, v)
    <3>1. \A i : Decides(es, n, v, i) <=> Decides(es, n - 1, v, i)
      BY <2>3 DEF Decides, Maps
    <3> QED
      BY <3>1 DEF Decisive
  <2>4. Override(Final(es, n - 1), es[n])
          = [v \in {es[n].var} \cup Mapped(es, n - 1) |->
                IF v = es[n].var THEN es[n].name ELSE Final(es, n - 1)[v]]
    BY DEF Override, Put, Final
  <2> QED
    BY <1>2, <2>1, <2>2, <2>3, <2>4 DEF Final
<1> QED
  BY <1>1, <1>2

\* What the fold over the entries comes to.
LEMMA ByVarIs ==
  ASSUME NEW es, Len(es) \in Nat
  PROVE  ByVar(es)[Len(es)] = Final(es, Len(es))
<1> DEFINE Rec(f) == [n \in 0 .. Len(es) |-> IF n = 0 THEN <<>>
                                             ELSE IF es[n] = Blank THEN f[n - 1]
                                             ELSE Override(f[n - 1], es[n])]
           w == [n \in 0 .. Len(es) |-> Final(es, n)]
           b == ByVar(es)
<1>1. b = CHOOSE f : f = Rec(f)
  BY DEF ByVar
<1>2. w = Rec(w)
  <2>1. Final(es, 0) = <<>>
    BY DEF Final, Mapped
  <2>2. \A n \in 0 .. Len(es) : n # 0 =>
          w[n] = IF es[n] = Blank THEN w[n - 1] ELSE Override(w[n - 1], es[n])
    BY FinalStep
  <2> QED
    BY <2>1, <2>2
<1>3. b = Rec(b)
  BY <1>1, <1>2
<1> HIDE DEF b, w
\* By induction: there is no first place where they differ.
<1>4. \A n \in 0 .. Len(es) : b[n] = w[n]
  <2> DEFINE T == {n \in 0 .. Len(es) : b[n] # w[n]}
  <2> SUFFICES ASSUME T # {} PROVE FALSE
    OBVIOUS
  <2>1. T \subseteq Nat
    OBVIOUS
  <2> HIDE DEF T
  <2>2. PICK m \in T : \A k \in T : m <= k
    BY <2>1, Least
  <2> USE DEF T
  <2>3. m # 0
    BY <1>2, <1>3
  <2>4. b[m - 1] = w[m - 1]
    BY <2>2, <2>3
  <2> QED
    BY <1>2, <1>3, <2>2, <2>3, <2>4
<1> QED
  BY <1>4 DEF b, w

\* The mapping of a command: each variable that a line or a flag maps, once,
\* with the name of the last flag, or else of the last line.
Gives(v, n) == IF For(cmd.flags, v) = {} THEN LastFor(cmd.lines, v, n) ELSE LastFor(cmd.flags, v, n)

LEMMA NamesAre ==
  ASSUME cmd \in Commands, ParsesAll(cmd.lines, cmd.flags)
  PROVE  /\ Bad \notin ToSet(cmd.lines) \cup ToSet(cmd.flags)
         /\ \A i \in DOMAIN Names :
               i \in DOMAIN VarOrder /\ Names[i].var = VarOrder[i] /\ Gives(VarOrder[i], Names[i].name)
         /\ \A i \in DOMAIN VarOrder :
               i \in DOMAIN Names <=> For(cmd.lines, VarOrder[i]) \cup For(cmd.flags, VarOrder[i]) # {}
<1> DEFINE l == cmd.lines
           f == cmd.flags
           es == l \o f
<1>1. /\ l \in Seq(ToSet(l)) /\ f \in Seq(ToSet(f)) /\ Blank \notin ToSet(f)
      /\ \A i \in DOMAIN l : l[i] \in {Blank, Bad} \/ l[i].var \in Vars
  BY CommandAssumption DEF IsMapping
<1>2. /\ Len(l) \in Nat /\ Len(f) \in Nat /\ DOMAIN l = 1 .. Len(l) /\ DOMAIN f = 1 .. Len(f)
  BY <1>1
<1>3. /\ Len(es) = Len(l) + Len(f) /\ DOMAIN es = 1 .. Len(es)
      /\ \A i \in 1 .. Len(l) : es[i] = l[i]
      /\ \A i \in 1 .. Len(f) : es[Len(l) + i] = f[i]
  <2> DEFINE S == ToSet(l) \cup ToSet(f)
  <2>1. l \in Seq(S) /\ f \in Seq(S)
    BY <1>1, SeqMonotonic
  <2>2. /\ es \in Seq(S) /\ Len(es) = Len(l) + Len(f)
        /\ \A i \in 1 .. Len(l) + Len(f) : es[i] = IF i <= Len(l) THEN l[i] ELSE f[i - Len(l)]
    BY <2>1, ConcatProperties
  <2>3. DOMAIN es = 1 .. Len(es)
    BY <2>2, LenProperties
  <2> HIDE DEF l, f, es, S
  <2>4. ASSUME NEW i \in 1 .. Len(f) PROVE es[Len(l) + i] = f[i]
    <3>1. Len(l) + i \in 1 .. Len(l) + Len(f) /\ ~(Len(l) + i <= Len(l)) /\ (Len(l) + i) - Len(l) = i
      BY <1>2
    <3> QED
      BY <2>2, <3>1
  <2> QED
    BY <1>2, <2>2, <2>3, <2>4
<1> HIDE DEF l, f, es
<1>4. Bad \notin ToSet(l) \cup ToSet(f)
  <2>1. \A i \in DOMAIN es : es[i] # Bad
    BY DEF ParsesAll, es, l, f
  <2>2. \A i \in 1 .. Len(l) : i \in DOMAIN es
    BY <1>2, <1>3
  <2>3. \A i \in 1 .. Len(f) : Len(l) + i \in DOMAIN es
    BY <1>2, <1>3
  <2>4. \A i \in 1 .. Len(l) : l[i] # Bad
    BY <1>3, <2>1, <2>2
  <2>5. \A i \in 1 .. Len(f) : f[i] # Bad
    BY <1>3, <2>1, <2>3
  <2> QED
    BY <1>2, <2>4, <2>5 DEF ToSet
<1>5. Names = [i \in {j \in DOMAIN VarOrder : VarOrder[j] \in Mapped(es, Len(es))} |->
                  [var |-> VarOrder[i], name |-> Final(es, Len(es))[VarOrder[i]]]]
  <2>1. Len(es) \in Nat
    BY <1>2, <1>3
  <2>2. ByVar(es)[Len(es)] = Final(es, Len(es))
    BY <2>1, ByVarIs
  <2>3. DOMAIN Final(es, Len(es)) = Mapped(es, Len(es))
    BY DEF Final
  <2> QED
    BY <2>2, <2>3 DEF Names, Mapping, es, l, f
<1>6. ASSUME NEW v \in Vars
      PROVE  /\ v \in Mapped(es, Len(es)) <=> For(l, v) \cup For(f, v) # {}
             /\ v \in Mapped(es, Len(es)) =>
                    LET n == Final(es, Len(es))[v] IN
                    IF For(f, v) = {} THEN LastFor(l, v, n) ELSE LastFor(f, v, n)
  <2>1. \A i \in 1 .. Len(es) : Maps(es, i, v) <=> es[i].var = v
    BY VarAssumption DEF Maps
  <2>2. v \in Mapped(es, Len(es)) <=> \E i \in 1 .. Len(es) : es[i].var = v
    BY <2>1 DEF Maps, Mapped
  <2>3. (\E i \in 1 .. Len(es) : es[i].var = v) <=> For(l, v) \cup For(f, v) # {}
    <3>1. \A i \in 1 .. Len(es) : i \in 1 .. Len(l) \/ (i - Len(l) \in 1 .. Len(f) /\ i = Len(l) + (i - Len(l)))
      BY <1>2, <1>3
    <3>2. \A i \in 1 .. Len(l) : i \in 1 .. Len(es)
      BY <1>2, <1>3
    <3>3. \A i \in 1 .. Len(f) : Len(l) + i \in 1 .. Len(es)
      BY <1>2, <1>3
    <3>4. \A i \in 1 .. Len(es) : i \in 1 .. Len(l) \/ (i - Len(l) \in 1 .. Len(f) /\ es[i] = f[i - Len(l)])
      BY <1>3, <3>1
    <3>5. (\E i \in 1 .. Len(es) : es[i].var = v)
            <=> (\E i \in 1 .. Len(l) : l[i].var = v) \/ (\E i \in 1 .. Len(f) : f[i].var = v)
      BY <1>3, <3>2, <3>3, <3>4
    <3> QED
      BY <1>2, <3>5 DEF For
  <2>4. ASSUME v \in Mapped(es, Len(es))
        PROVE  LET n == Final(es, Len(es))[v] IN
               IF For(f, v) = {} THEN LastFor(l, v, n) ELSE LastFor(f, v, n)
    <3> DEFINE d == Decisive(es, Len(es), v)
               n == Final(es, Len(es))[v]
    <3>1. Len(es) \in Nat
      BY <1>2, <1>3
    <3>2. Decides(es, Len(es), v, d)
      BY <2>4, <3>1, OneDecides
    <3>3. n = es[d].name
      BY <2>4 DEF Final
    <3> HIDE DEF d, n
    <3>4. d \in 1 .. Len(es) /\ es[d].var = v /\ \A j \in 1 .. Len(es) : es[j].var = v => j <= d
      BY <2>1, <3>2 DEF Decides
    <3>5. CASE For(f, v) = {}
      <4>1. d \in 1 .. Len(l)
        <5>1. SUFFICES ASSUME d - Len(l) \in 1 .. Len(f) PROVE FALSE
          BY <1>2, <1>3, <3>4
        <5>2. f[d - Len(l)].var = v
          BY <1>2, <1>3, <3>4, <5>1
        <5> QED
          BY <1>2, <3>5, <5>1, <5>2 DEF For
      <4>2. d \in For(l, v) /\ l[d].name = n
        BY <1>2, <1>3, <3>3, <3>4, <4>1 DEF For
      <4>3. \A j \in For(l, v) : j <= d
        BY <1>2, <1>3, <3>4 DEF For
      <4> QED
        BY <3>5, <4>2, <4>3 DEF LastFor, n
    <3>6. CASE For(f, v) # {}
      <4>1. PICK k \in 1 .. Len(f) : f[k].var = v
        BY <1>2, <3>6 DEF For
      <4>2. Len(l) + k <= d
        BY <1>2, <1>3, <3>4, <4>1
      <4>3. d - Len(l) \in 1 .. Len(f) /\ d = Len(l) + (d - Len(l))
        BY <1>2, <1>3, <3>4, <4>1, <4>2
      <4>4. d - Len(l) \in For(f, v) /\ f[d - Len(l)].name = n
        BY <1>2, <1>3, <3>3, <3>4, <4>3 DEF For
      <4>5. ASSUME NEW j \in For(f, v) PROVE j <= d - Len(l)
        <5>1. j \in 1 .. Len(f) /\ Len(l) + j \in 1 .. Len(es) /\ es[Len(l) + j].var = v
          BY <1>2, <1>3, <4>5 DEF For
        <5> QED
          BY <1>2, <3>4, <4>3, <5>1
      <4> QED
        BY <3>6, <4>4, <4>5 DEF LastFor, n
    <3> QED
      BY <3>5, <3>6 DEF n
  <2> QED
    BY <2>2, <2>3, <2>4
<1>7. \A i \in DOMAIN VarOrder : VarOrder[i] \in Vars
  BY DEF Vars, ToSet
<1> QED
  BY <1>4, <1>5, <1>6, <1>7 DEF Gives, l, f

\* What the environment holds while it is gathered.
Gathered ==
    /\ step = "resolve" => ParsesAll(cmd.lines, cmd.flags)
    /\ \A i \in DOMAIN env : /\ i \in DOMAIN Names /\ Names[i].name \in cmd.has
                             /\ env[i] = [var |-> Names[i].var, value |-> Names[i].name]
    /\ ExecEnvironment

\* execve: everything that was mapped is there.
LEMMA ExecveGives ==
  ASSUME cmd \in Commands, step = "resolve", Gathered, Execve
  PROVE  ExecEnvironment'
<1>1. /\ cmd' = cmd /\ DOMAIN env = DOMAIN Names
      /\ child' = MergeEnv(cmd.base, Names, env)
  BY DEF Execve, Resolved, Complete
<1>2. ParsesAll(cmd.lines, cmd.flags)
  BY DEF Gathered
<1>3. /\ Bad \notin ToSet(cmd.lines) \cup ToSet(cmd.flags)
      /\ \A i \in DOMAIN Names :
            i \in DOMAIN VarOrder /\ Names[i].var = VarOrder[i] /\ Gives(VarOrder[i], Names[i].name)
      /\ \A i \in DOMAIN VarOrder :
            i \in DOMAIN Names <=> For(cmd.lines, VarOrder[i]) \cup For(cmd.flags, VarOrder[i]) # {}
  BY <1>2, NamesAre
<1>4. /\ child'.own = {i \in DOMAIN cmd.base : \A j \in DOMAIN Names : Names[j].var # cmd.base[i].var}
      /\ child'.secrets = env
  BY <1>1 DEF MergeEnv
<1>5. \A i \in DOMAIN env : /\ Names[i].name \in cmd.has
                            /\ env[i].var = VarOrder[i] /\ env[i].value = Names[i].name
  BY <1>1, <1>3 DEF Gathered
<1>6. ASSUME NEW v \in Vars
      PROVE  IF For(cmd.lines, v) \cup For(cmd.flags, v) = {}
             THEN For(cmd.base, v) \subseteq child'.own /\ For(env, v) = {}
             ELSE /\ For(cmd.base, v) \cap child'.own = {}
                  /\ \E i \in DOMAIN env : For(env, v) = {i} /\ env[i].value \in cmd.has
                                           /\ Gives(v, env[i].value)
  <2>1. PICK k \in DOMAIN VarOrder : VarOrder[k] = v
    BY DEF Vars, ToSet
  <2>2. \A i \in DOMAIN VarOrder : VarOrder[i] = v => i = k
    BY <2>1, VarAssumption
  <2>3. CASE For(cmd.lines, v) \cup For(cmd.flags, v) = {}
    <3>1. k \notin DOMAIN Names
      BY <1>3, <2>1, <2>3
    <3>2. \A i \in DOMAIN Names : Names[i].var # v
      BY <1>3, <2>2, <3>1
    <3>3. For(env, v) = {}
      BY <1>1, <1>3, <1>5, <3>2 DEF For
    <3> QED
      BY <1>4, <2>3, <3>2, <3>3 DEF For
  <2>4. CASE For(cmd.lines, v) \cup For(cmd.flags, v) # {}
    <3>1. k \in DOMAIN Names /\ k \in DOMAIN env /\ Names[k].var = v
      BY <1>1, <1>3, <2>1, <2>4
    <3>2. For(env, v) = {k}
      BY <1>1, <1>3, <1>5, <2>1, <2>2, <3>1 DEF For
    <3>3. env[k].value \in cmd.has /\ Gives(v, env[k].value)
      BY <1>3, <1>5, <2>1, <3>1
    <3>4. For(cmd.base, v) \cap child'.own = {}
      BY <1>4, <3>1 DEF For
    <3> QED
      BY <2>4, <3>1, <3>2, <3>3, <3>4
  <2> QED
    BY <2>3, <2>4
<1> QED
  BY <1>1, <1>3, <1>4, <1>6 DEF ExecEnvironment, Gives

\* No other step ends exec with exit code 0.
LEMMA OthersGather ==
  ASSUME Data, Gathered, Running \/ Others, ~BeginExec, ~Get, ~Execve
  PROVE  Gathered'
<1>1. /\ cmd' = cmd /\ child' = child /\ (env' = env \/ env' = <<>>)
      /\ step' = "resolve" => step = "resolve"
      /\ exit' = exit \/ exit' # 0 \/ cmd.do # "exec" \/ cmd.flag
  <2>1. CASE Configure \/ Usage \/ Status \/ List \/ Fetch \/ BadMapping
    BY <2>1 DEF Configure, Usage, Status, List, Fetch, BadMapping, Do, Ends, EndsOn, EndsWith,
       Skips, Goes, exec
  <2>2. CASE BeginInit \/ BeginPassphrase \/ BeginUnlock \/ BeginStore \/ BeginsNot
    BY <2>2 DEF BeginInit, BeginPassphrase, BeginUnlock, BeginStore, BeginsNot, Do, Ends, EndsOn,
       EndsWith, Asks, Skips, Goes, Unchanged, exec
  <2>3. CASE Entry \/ First \/ Second \/ Value \/ PromptFails
    BY <2>3 DEF Entry, First, Second, Value, PromptFails, FailsWith, Resumes, Asks, Goes, Ends, EndsOn,
       EndsWith, exec
  <2>4. CASE Create \/ Sets \/ Changed \/ Fails \/ Store \/ LoadIdentity \/ Retry
    BY <2>4 DEF Create, Sets, Changed, Fails, Store, LoadIdentity, Retry, Applies, Changes, Ends,
       EndsOn, EndsWith, Asks, Skips, Goes, exec
  <2>5. CASE Writes \/ Send
    BY <2>5 DEF Writes, Send, At, Ends, EndsOn, EndsWith, exec, Data, OnItsWay
  <2>6. CASE ResolveFails \/ NotStarted
    BY <2>6 DEF ResolveFails, NotStarted, Abandons, EndsWith
  <2>7. CASE Others
    BY <2>7 DEF Others, exec
  <2> QED
    BY <2>1, <2>2, <2>3, <2>4, <2>5, <2>6, <2>7 DEF Running
<1>2. Names' = Names
  BY <1>1 DEF Names
<1> QED
  BY <1>1, <1>2 DEF Gathered, ExecEnvironment

LEMMA NextGathers == Data /\ Gathered /\ [Next]_vars => Gathered'
<1> SUFFICES ASSUME Data, Gathered, [Next]_vars
             PROVE  Gathered'
  OBVIOUS
<1>1. CASE BeginExec
  <2>1. /\ cmd' = cmd /\ env' = env /\ child' = child /\ exit' = exit
        /\ ParsesAll(cmd.lines, cmd.flags)
    BY <1>1 DEF BeginExec, Unchanged, exec
  <2>2. Names' = Names
    BY <2>1 DEF Names
  <2> QED
    BY <2>1, <2>2 DEF Gathered, ExecEnvironment
<1>2. CASE Get
  <2>1. cmd' = cmd /\ step' = step /\ child' = child /\ exit' = exit
    BY <1>2 DEF Get
  <2>2. Names' = Names
    BY <2>1 DEF Names
  <2>3. \/ env' = env
        \/ \E i \in DOMAIN Names :
              /\ Names[i].name \in cmd.has
              /\ env' = Put(env, i, [var |-> Names[i].var, value |-> Names[i].name])
    BY <1>2 DEF Get, Rest
  <2>4. \A i \in DOMAIN env' : /\ i \in DOMAIN Names /\ Names[i].name \in cmd.has
                               /\ env'[i] = [var |-> Names[i].var, value |-> Names[i].name]
    <3>1. CASE env' = env
      BY <3>1 DEF Gathered
    <3>2. ASSUME NEW i \in DOMAIN Names, Names[i].name \in cmd.has,
                 env' = Put(env, i, [var |-> Names[i].var, value |-> Names[i].name])
          PROVE  \A j \in DOMAIN env' :
                    /\ j \in DOMAIN Names /\ Names[j].name \in cmd.has
                    /\ env'[j] = [var |-> Names[j].var, value |-> Names[j].name]
      <4>1. /\ DOMAIN env' = DOMAIN env \cup {i}
            /\ \A j \in DOMAIN env' :
                  env'[j] = IF j = i THEN [var |-> Names[i].var, value |-> Names[i].name]
                            ELSE env[j]
        BY <3>2 DEF Put
      <4> QED
        BY <3>2, <4>1 DEF Gathered
    <3> QED
      BY <2>3, <3>1, <3>2
  <2> QED
    BY <2>1, <2>2, <2>4 DEF Gathered, ExecEnvironment
<1>3. CASE Execve
  <2>1. cmd \in Commands /\ step = "resolve" /\ step' = "over" /\ env' = <<>>
    BY <1>3 DEF Execve, Resolved, At, EndsWith, Data, Settled
  <2>2. ExecEnvironment'
    BY <1>3, <2>1, ExecveGives
  <2> QED
    BY <2>1, <2>2 DEF Gathered
<1>4. CASE (Running \/ Others) /\ ~BeginExec /\ ~Get /\ ~Execve
  BY <1>4, OthersGather
<1>5. CASE UNCHANGED vars
  <2>1. UNCHANGED <<cmd, step, env, child, exit>>
    BY <1>5 DEF vars, exec
  <2>2. Names' = Names
    BY <2>1 DEF Names
  <2> QED
    BY <2>1, <2>2 DEF Gathered, ExecEnvironment
<1> QED
  BY <1>1, <1>2, <1>3, <1>4, <1>5 DEF Next

\* docs/CLI.md:225: for a mapping file, flags and an environment of any length,
\* the command that exec starts has exactly what was mapped, and the rest of
\* the environment as it was.
THEOREM EnvironmentIsMapped == Spec => []ExecEnvironment
<1>1. Init => Gathered
  BY DEF Init, Gathered, ExecEnvironment
<1>2. Gathered => ExecEnvironment
  BY DEF Gathered
<1> QED
  BY <1>1, <1>2, InitData, NextData, NextGathers, PTL DEF Spec
=============================================================================

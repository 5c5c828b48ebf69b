-------------------------------- MODULE Command --------------------------------
(***************************************************************************)
(* One run of keycell (cmd/keycell), from its configuration to its end:    *)
(* status, list, get, init, passphrase, unlock and store, which may prompt,*)
(* and exec, which becomes another program.  The arguments are sound, or a *)
(* usage error; what the daemon answers is any answer;                     *)
(* Clients has the calls in full, Identity the steps of the file changes.  *)
(***************************************************************************)
EXTENDS Settings, EnvMapping, Prompt, LockAfter

CONSTANT Commands       \* what a user may run, and on what

ASSUME CommandAssumption ==
    \A k \in Commands : /\ k.files \in [age: Pass \cup {"absent"}, txt: BOOLEAN]
                        /\ k.for \in {<<>>} \cup {<<d>> : d \in Word}
                        /\ IsMapping(k.lines) /\ IsMapping(k.flags) /\ Blank \notin ToSet(k.flags)

VARIABLES cmd,          \* the command that is run
          step,         \* where it is
          settings,     \* its configuration
          attempt,      \* prompts for the current passphrase so far
          buf,          \* the buffers that hold what was typed, or an identity
          files,        \* identity.age, by its passphrase, and identity.txt
          confirmed,    \* the new passphrase that was entered twice
          asked,        \* exec: the last variable whose secret was asked for
          env,          \* exec: VAR=value, of those the daemon has answered
          child,        \* the environment exec has started its command with
          sent,         \* unlock: the limits that have got to the session
          exit          \* the exit code

data == <<buf, files, confirmed>>
exec == <<asked, env, child>>
vars == <<prompt, cmd, step, settings, attempt, data, exec, sent, exit>>

Attempts == 3
Buffers  == {"entry", "first", "second", "next", "identity", "value", "outgrown"}
Files    == [age: Pass \cup {"absent", "zero"}, txt: BOOLEAN]

TypeOK ==
    /\ PromptTypeOK
    /\ step \in {"config", "begin", "entry", "first", "second", "value",
                 "apply", "send", "print", "resolve", "over"}
    /\ attempt \in 0 .. Attempts
    /\ buf \in [Buffers -> Lines \cup {"none", "zero", "key"}]
    /\ files \in Files
    /\ confirmed \in Pass \cup {"none"}
    /\ asked \in 0 .. Len(VarOrder) /\ DOMAIN env \subseteq 1 .. asked
    /\ sent \subseteq {<<>>} \cup {<<d>> : d \in Word}
    /\ exit \in -1 .. 2

Init ==
    /\ PromptInit
    /\ cmd \in Commands /\ step = "config"
    /\ settings = [of |-> <<>>, error |-> "none", key |-> "none"]
    /\ attempt = 0
    /\ buf = [b \in Buffers |-> "none"]
    /\ files = cmd.files /\ confirmed = "none"
    /\ asked = 0 /\ env = <<>> /\ child = [own |-> {}, secrets |-> <<>>]
    /\ sent = {}
    /\ exit = -1

-----------------------------------------------------------------------------

At(from) == life = "running" /\ step = from

Goes(from, to) == At(from) /\ step' = to

\* The buffers b, those of S cleared.
Cleared(b, S) == [x \in Buffers |-> IF x \in S /\ b[x] # "none" THEN "zero" ELSE b[x]]

\* The command is over, and the process with it.
EndsWith(code) ==
    /\ step' = "over" /\ exit' = code /\ life' = "exited"
    /\ UNCHANGED <<echo, nth, at, line, saved, deadline, goroutine, inbox, signals>>

\* It ends without a change, but for the buffers b; it clears those of S.
EndsOn(code, b, S) ==
    /\ EndsWith(code)
    /\ buf' = Cleared(b, S)
    /\ UNCHANGED <<cmd, settings, attempt, files, confirmed, exec, sent>>

Ends(code, S) == EndsOn(code, buf, S)

Asks(from, for) == Goes(from, for) /\ Ask

\* A prompt has returned to the command.
Returned(for) == At(for) /\ at = "answered"

Refused == line \in {"error", "interrupted"}

\* It goes on with what was typed.
Resumes(for, to) ==
    /\ Goes(for, to) /\ at' = "idle"
    /\ UNCHANGED <<life, echo, nth, line, saved, deadline, goroutine, inbox, signals>>

\* Buffer b has read l.  What a long one has outgrown on the way is not cleared,
\* whether readLine has read it or io.ReadAll.
Into(b, l) == [buf EXCEPT ![b] = l, !["outgrown"] = IF l \in Long THEN l ELSE @]

\* readLine: what was typed.
Typed(b) == Into(b, line)

\* loadConfig: every command resolves the whole configuration first.
Configure ==
    LET c == Load(cmd.input) IN
    /\ At("config")
    /\ settings' = c
    /\ IF c.error = "none"
       THEN step' = "begin" /\ UNCHANGED <<prompt, exit>>
       ELSE EndsWith(1)
    /\ UNCHANGED <<cmd, attempt, data, exec, sent>>

-----------------------------------------------------------------------------
(* How the commands begin *)

Do(what) == At("begin") /\ cmd.do = what

Form == IF files.age # "absent" THEN IF files.txt THEN "both" ELSE "age"
        ELSE IF files.txt THEN "txt" ELSE "none"

\* Too many arguments or too few, an attribute without "=" or given twice, a
\* duration that is none, options that exclude one another.
Usage == At("begin") /\ Ends(2, {})

\* status: the daemon is asked.
Status == Do("status") /\ \E code \in {0, 1} : Ends(code, {})

\* list: likewise.
List == Do("list") /\ \E code \in {0, 1} : Ends(code, {})

\* The next step, without a prompt.
Skips(from, to) == Goes(from, to) /\ UNCHANGED prompt

\* get: the secret and its value have come.
Fetch ==
    /\ Do("get")
    /\ Skips("begin", "print")
    /\ \E v \in Lines : buf' = [buf EXCEPT !["value"] = v]
    /\ UNCHANGED <<cmd, settings, attempt, files, confirmed, exec, sent, exit>>

\* The value is written, or an attribute, which there may not be; then destroyed.
Writes == At("print") /\ \E code \in {0, 1} : Ends(code, {"value"})

Unchanged == UNCHANGED <<cmd, settings, data, exec, sent, exit>>

\* init: without a passphrase there is nothing to ask.
BeginInit ==
    /\ Do("init")
    /\ IF cmd.flag THEN Skips("begin", "apply") ELSE Asks("begin", "first")
    /\ UNCHANGED attempt /\ Unchanged

Wrong == Form \in {"none", "both"} \/ (cmd.flag /\ Form = "txt")

\* passphrase: sets one on identity.txt, changes or removes that of identity.age.
BeginPassphrase ==
    /\ Do("passphrase")
    /\ ~Wrong
    /\ IF Form = "txt"
       THEN Asks("begin", "first") /\ UNCHANGED attempt
       ELSE Asks("begin", "entry") /\ attempt' = 1
    /\ Unchanged

\* unlock --for takes no negative duration (Usage).
ForIsSound == \A d \in ToSet(cmd.for) : ~Rejects("cli", d)

\* unlock: the daemon is there, and locked.
BeginUnlock ==
    /\ Do("unlock") /\ ForIsSound
    /\ Form \in {"age", "txt"}
    /\ IF Form = "txt"
       THEN Skips("begin", "apply") /\ UNCHANGED attempt
       ELSE Asks("begin", "entry") /\ attempt' = 1
    /\ Unchanged

\* store: the value is typed, or comes from a pipe.
BeginStore ==
    /\ Do("store")
    /\ IF cmd.flag
       THEN /\ Skips("begin", "apply")
            /\ \E v \in Lines : buf' = Into("value", v)
       ELSE Asks("begin", "value") /\ UNCHANGED buf
    /\ UNCHANGED <<cmd, settings, attempt, files, confirmed, exec, sent, exit>>

\* There is no identity or the wrong form, the daemon is down, is locked, does
\* not have the secret, or need not be unlocked; the pipe breaks, after a part.
BeginsNot ==
    \/ Do("get") /\ Ends(1, {})
    \/ Do("passphrase") /\ Wrong /\ Ends(1, {})
    \/ Do("unlock") /\ ForIsSound /\ \E code \in IF Form \in {"age", "txt"} THEN {0, 1} ELSE {1} : Ends(code, {})
    \/ Do("store") /\ Ends(1, {})
    \/ Do("store") /\ cmd.flag /\ \E v \in Lines : EndsOn(1, Into("value", v), {"value"})

-----------------------------------------------------------------------------
(* What was typed *)

\* The current passphrase.  The new one is asked for after the first attempt
\* only, and kept for the others.
Entry ==
    /\ Returned("entry") /\ ~Refused
    /\ buf' = Typed("entry")
    /\ IF cmd.do = "passphrase" /\ ~cmd.flag /\ buf["next"] = "none"
       THEN Asks("entry", "first") ELSE Resumes("entry", "apply")
    /\ UNCHANGED <<cmd, settings, attempt, files, confirmed, exec, sent, exit>>

\* Confirm: an empty passphrase is no passphrase.
First ==
    /\ Returned("first") /\ line \in Pass
    /\ buf' = Typed("first")
    /\ Asks("first", "second")
    /\ UNCHANGED <<cmd, settings, attempt, files, confirmed, exec, sent, exit>>

\* Confirm: both are the same.  The second copy is cleared, the first returned.
Second ==
    /\ Returned("second") /\ line = buf["first"]
    /\ buf' = [Cleared(Typed("second"), {"second"})
                   EXCEPT !["first"] = "none", !["next"] = buf["first"]]
    /\ confirmed' = line
    /\ Resumes("second", "apply")
    /\ UNCHANGED <<cmd, settings, attempt, files, exec, sent, exit>>

Value ==
    /\ Returned("value") /\ ~Refused
    /\ buf' = Typed("value")
    /\ Resumes("value", "apply")
    /\ UNCHANGED <<cmd, settings, attempt, files, confirmed, exec, sent, exit>>

\* A slip: the first entry stays when the second prompt fails.
KeepsFirst == {"entry"}

\* Confirm clears its first entry, askPassphrase its own.
ClearsFirst == {"entry", "first"}

\* readLine: a read that fails, or is interrupted, leaves what it has outgrown.
Abandoned == {buf} \cup {[buf EXCEPT !["outgrown"] = l] :
                            l \in IF goroutine[nth] = "none" THEN {} ELSE Long}

FailsWith(S) == Refused /\ \E b \in Abandoned : EndsOn(1, b, S)

\* The prompt fails, the new passphrase is empty, or the second one differs.
PromptFails ==
    \/ Returned("entry") /\ FailsWith({"next"})
    \/ Returned("first") /\ (FailsWith({"entry"}) \/ (line = "empty" /\ Ends(1, {"entry"})))
    \/ Returned("second") /\ FailsWith(ClearsFirst)
    \/ Returned("value") /\ FailsWith({})
    \/ /\ Returned("second") /\ line \in Lines \ {buf["first"]}
       /\ EndsOn(1, Typed("second"), ClearsFirst \cup {"second"})

-----------------------------------------------------------------------------
(* What is done with it *)

Applies(what) == At("apply") /\ cmd.do = what

\* The identity files change, and the command is over.
Changes(f, S) ==
    /\ EndsWith(0)
    /\ files' = f
    /\ buf' = Cleared(buf, S)
    /\ UNCHANGED <<cmd, settings, attempt, confirmed, exec, sent>>

\* identity.Init, on a directory that has none.
Create ==
    /\ Applies("init") /\ Form = "none"
    /\ Changes(IF cmd.flag THEN [files EXCEPT !.txt = TRUE]
                           ELSE [files EXCEPT !.age = buf["next"]], {"next"})

\* SetPassphrase.
Sets ==
    /\ Applies("passphrase") /\ Form = "txt"
    /\ Changes([age |-> buf["next"], txt |-> FALSE], {"next"})

Right == files.age = buf["entry"]

\* ChangePassphrase, with a copy of the new passphrase; RemovePassphrase.
Changed ==
    /\ Applies("passphrase") /\ Form = "age"
    /\ Right
    /\ Changes(IF cmd.flag THEN [age |-> "absent", txt |-> TRUE]
                           ELSE [files EXCEPT !.age = buf["next"]], {"entry", "next"})

\* Init refuses what exists; the files cannot be read or written; the value is
\* empty, or the daemon has not stored it.
Fails ==
    \/ (Applies("init") \/ Applies("passphrase")) /\ Ends(1, {"entry", "next"})
    \/ Applies("unlock") /\ Ends(1, {"entry"})
    \/ Applies("store") /\ Ends(1, {"value"})

Store ==
    /\ Applies("store") /\ buf["value"] # "empty"
    /\ Ends(0, {"value"})

\* unlock: LoadFile.
LoadIdentity ==
    /\ Applies("unlock")
    /\ Form = "age" => Right
    /\ Skips("apply", "send")
    /\ buf' = [Cleared(buf, {"entry"}) EXCEPT !["identity"] = "key"]
    /\ UNCHANGED <<cmd, settings, attempt, files, confirmed, exec, sent, exit>>

\* Unlock, or UnlockFor if there was a limit.  The client clears the identity,
\* whatever the daemon answers.
Send ==
    /\ At("send")
    /\ sent' = {IF cmd.for = <<>> THEN <<>> ELSE <<Given("cli", cmd.for[1])>>}
    /\ \E code \in {0, 1} : EndsWith(code)
    /\ buf' = Cleared(buf, {"identity"})
    /\ UNCHANGED <<cmd, settings, attempt, files, confirmed, exec>>

\* A slip: ChangePassphrase is given the new passphrase itself, and wipes it.
WipesBoth == {"entry", "next"}

\* A wrong passphrase wipes the entry, and a copy of the new one.
WipesEntry == {"entry"}

\* askPassphrase: three attempts.
Retry ==
    /\ At("apply") /\ cmd.do \in {"passphrase", "unlock"} /\ Form = "age"
    /\ ~Right /\ attempt < Attempts
    /\ Asks("apply", "entry")
    /\ attempt' = attempt + 1
    /\ buf' = Cleared(buf, WipesEntry)
    /\ UNCHANGED <<cmd, settings, files, confirmed, exec, sent, exit>>

-----------------------------------------------------------------------------
(* exec *)

Names == Mapping(cmd.lines, cmd.flags)

\* The whole mapping is parsed before anything is asked for.
BeginExec ==
    /\ Do("exec") /\ ParsesAll(cmd.lines, cmd.flags)
    /\ Skips("begin", "resolve")
    /\ UNCHANGED attempt /\ Unchanged

BadMapping == Do("exec") /\ ~ParsesAll(cmd.lines, cmd.flags) /\ Ends(2, {})

\* resolveEnv: every name is asked for, also after one that is missing.
Rest == {i \in DOMAIN Names : i > asked}

Resolves == At("resolve") /\ Rest # {}

\* Another error for this name is treated like a missing one.
Get ==
    /\ Resolves
    /\ \E i \in Rest :
          /\ \A j \in Rest : i <= j
          /\ asked' = i
          /\ \/ UNCHANGED env
             \/ /\ Names[i].name \in cmd.has
                /\ env' = Put(env, i, [var |-> Names[i].var, value |-> Names[i].name])
    /\ UNCHANGED <<prompt, cmd, step, settings, attempt, data, child, sent, exit>>

\* clearEnv, and the end.
Abandons(code) ==
    /\ EndsWith(code)
    /\ env' = <<>>
    /\ UNCHANGED <<cmd, settings, attempt, data, asked, child, sent>>

\* A slip: the command gets what there is.
Answered == TRUE

Complete == DOMAIN env = DOMAIN Names

\* The daemon is locked, or gone; or a name was missing.
ResolveFails ==
    \/ Resolves /\ Abandons(1)
    \/ At("resolve") /\ Rest = {} /\ ~Complete /\ Abandons(1)

Resolved == At("resolve") /\ Rest = {} /\ Complete

\* --dry-run, or the command cannot be run.
NotStarted ==
    /\ Resolved
    /\ Abandons(IF cmd.flag THEN 0 ELSE 1)

\* The process becomes its command; its memory is gone.
Execve ==
    /\ Resolved /\ ~cmd.flag
    /\ EndsWith(0)
    /\ child' = MergeEnv(cmd.base, Names, env)
    /\ env' = <<>>
    /\ UNCHANGED <<cmd, settings, attempt, data, asked, sent>>

-----------------------------------------------------------------------------

Others == UNCHANGED <<cmd, step, settings, attempt, data, exec, sent, exit>>

Running ==
    \/ Configure \/ Usage \/ Status \/ List \/ Fetch \/ Writes
    \/ BeginInit \/ BeginPassphrase \/ BeginUnlock \/ BeginStore \/ BeginsNot
    \/ Entry \/ First \/ Second \/ Value \/ PromptFails
    \/ Create \/ Sets \/ Changed \/ Fails \/ Store \/ LoadIdentity \/ Send \/ Retry
    \/ BeginExec \/ BadMapping \/ Get \/ ResolveFails \/ NotStarted \/ Execve
    \/ Reading /\ Others

User == (\E l \in Lines : Type(l)) \/ ReadFails \/ Signal

Next ==
    \/ Running
    \/ \E i \in Nth : Goroutine(i) /\ Others
    \/ User /\ Others

\* The process and its goroutines go on; nobody has to type anything.
Fairness == WF_vars(Running) /\ \A i \in Nth : WF_vars(Goroutine(i) /\ Others)

Spec == Init /\ [][Next]_vars /\ Fairness

-----------------------------------------------------------------------------
(* Properties *)

\* internal/config: a setting comes from the uppermost layer that has it, and
\* a command starts only if every layer is sound, also where an upper one
\* overrides it.
SettingsFromTopLayer ==
    LET in == cmd.input
        used == [file |-> IF in.disk = "good" THEN in.file ELSE NoLayer,
                 env |-> in.env, flag |-> in.flags]
        has(f) == {l \in DOMAIN used : used[l][f] # "unset"}
    IN  step \notin {"config"} /\ settings.error = "none" =>
            \A f \in Fields :
                /\ settings.of[f] = IF "flag" \in has(f) THEN "flag"
                                   ELSE IF "env" \in has(f) THEN "env"
                                   ELSE IF "file" \in has(f) THEN "file" ELSE "default"
                /\ \A l \in has(f) : Valid(f, used[l][f], in.home)

\* setup.go:81: when init or passphrase succeeds, identity.age opens with what
\* the user has entered twice, also after wrong attempts that wiped copies of
\* it; when they fail before they write, nothing has changed.
SetsWhatWasConfirmed ==
    /\ exit = 0 /\ cmd.do \in {"init", "passphrase"} /\ ~cmd.flag => files.age = confirmed
    /\ exit > 0 => files = cmd.files

\* docs/CLI.md:328: buffers are zeroed after use.  When a command is over no
\* passphrase, value or identity is left, and while it asks for the current
\* passphrase once more only the new one is.  All that stays is what readLine or
\* io.ReadAll has outgrown, and only of a line or value that is long.
ZeroedAfterUse ==
    LET held == {b \in Buffers \ {"outgrown"} : buf[b] \notin {"none", "zero", "empty"}}
    IN  /\ life = "exited" => held = {} /\ env = <<>> /\ buf["outgrown"] \in {"none"} \cup Long
        /\ step = "entry" => held \subseteq {"next"}

\* docs/CLI.md:328, "it zeroes value and passphrase buffers after use", and
\* tty.go:116, "zeroing every intermediate buffer": the long ones as well.
BuffersZeroed ==
    life = "exited" => \A b \in Buffers : buf[b] \in {"none", "zero", "empty"}

\* The entries of s that are for variable v; name n is in the last of them.
For(s, v) == {i \in DOMAIN s : s[i].var = v}
LastFor(s, v, n) == \E i \in For(s, v) : s[i].name = n /\ \A j \in For(s, v) : j <= i

\* docs/CLI.md:225: the command gets keycell's environment and the secrets;
\* each mapped variable once, with the secret of its last -e, or without one of
\* its last line.  If one is missing, or a line is no mapping, it is not run.
ExecEnvironment ==
    cmd.do = "exec" /\ exit = 0 /\ ~cmd.flag =>
        /\ Bad \notin ToSet(cmd.lines) \cup ToSet(cmd.flags)
        /\ \A v \in Vars :
              IF For(cmd.lines, v) \cup For(cmd.flags, v) = {}
              THEN For(cmd.base, v) \subseteq child.own /\ For(child.secrets, v) = {}
              ELSE /\ For(cmd.base, v) \cap child.own = {}
                   /\ \E i \in DOMAIN child.secrets :
                         LET n == child.secrets[i].value IN
                         /\ For(child.secrets, v) = {i}
                         /\ n \in cmd.has
                         /\ IF For(cmd.flags, v) = {} THEN LastFor(cmd.lines, v, n)
                                                      ELSE LastFor(cmd.flags, v, n)

\* `unlock --for`, cut to whole seconds by UnlockFor (keycell.go:155) and
\* multiplied up again by the daemon (server.go:222), locks no later than asked
\* for, less than a second early, and goes on for ever only for less than a
\* second; without --for the daemon's own limit holds.
LimitIsAskedFor ==
    \A limit \in sent :
        /\ Len(limit) = Len(cmd.for)
        /\ cmd.for # <<>> =>
              LET d == cmd.for[1] IN
              IF Arms(limit[1]) THEN limit[1] <= d /\ d - limit[1] < OneSecond
                                ELSE d \in 0 .. OneSecond - 1
=============================================================================

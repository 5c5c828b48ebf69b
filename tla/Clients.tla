------------------------------- MODULE Clients -------------------------------
(***************************************************************************)
(* The commands that make several calls to the daemon: store, delete,      *)
(* export, import, exec and unlock of keycell (cmd/keycell), its helper    *)
(* for git, and the one for docker (cmd/docker-credential-keycell).        *)
(*                                                                         *)
(* Several processes run commands at once.  One step is one call of a      *)
(* Client method, which the daemon decides at one moment (Daemon's         *)
(* Linearizable): it is refused while the daemon is locked, and a failing  *)
(* disk may leave it in doubt.  A command first lists, when it has to,     *)
(* then makes one call for every name in todo.                             *)
(***************************************************************************)
EXTENDS Credentials, Integers, Sequences

CONSTANTS Client,       \* processes
          Order,        \* every name, in the order of the strings
          BadName,      \* a name that breaks the rules
          Commands,     \* what users, git and docker run
          MaxCommands,  \* bound: commands
          MaxFails      \* bound: calls that fail with INTERNAL

ASSUME ClientsAssumption == MaxCommands \in Nat /\ MaxFails \in Nat

VARIABLES secrets,      \* the vault: a function on the names it has
          locked, fails,
          cmd,          \* the command of each process
          next,         \* its next call, or "done"
          todo,         \* the names that call is still to be made for
          listed,       \* the records that List has answered
          got,          \* the records that Get has answered
          missing,      \* delete, exec: a name was not found
          exit,         \* the exit code
          serial,       \* commands so far; each process's last one, too
          wrote,        \* the names a command has stored
          kept,         \* the names in the vault since before it began
          quiet         \* nobody else has changed the vault since then

daemon  == <<secrets, locked, fails>>
history == <<wrote, kept, quiet>>
clientsVars ==
    <<daemon, cmd, next, todo, listed, got, missing, exit, serial, history>>

Names == {Order[i] : i \in DOMAIN Order}
SecretKinds == {"git", "docker", "generic"}
Records == [kind: SecretKinds, host: Host \cup {None}, user: User \cup {None},
            path: Path \cup {None}, value: 1 .. MaxCommands]
Nothing == [n \in {} |-> None]
\* No command yet.
Idle == [do |-> "none", names |-> <<>>, kind |-> "generic", req |-> NoRequest,
         guard |-> FALSE]

ASSUME OrderAssumption == Order \in Seq(Names)

\* What a command may be asked: a store has one name, the names of an import are
\* those of a document, and only these two are told not to overwrite.
ASSUME CommandAssumption ==
    \A k \in Commands :
        /\ DOMAIN k = {"do", "names", "kind", "req", "guard"}
        /\ k.names \in Seq(Names) /\ k.kind \in SecretKinds /\ k.req \in Requests \cup {NoRequest}
        /\ k.guard \in BOOLEAN /\ (k.guard => k.do \in {"store", "import"})
        /\ k.do = "store" => Len(k.names) = 1
        /\ k.do = "import" => \A i, j \in DOMAIN k.names : k.names[i] = k.names[j] => i = j
        /\ k.do = "git store" => k.kind = "git" /\ GitName(k.req) \in Names
        /\ k.do = "docker store" => k.kind = "docker" /\ DockerName(k.req) \in Names

IsTable(t) == DOMAIN t \subseteq Names \ {BadName} /\ \A n \in DOMAIN t : t[n] \in Records

ClientsTypeOK ==
    /\ IsTable(secrets)
    /\ locked \in BOOLEAN /\ fails \in 0 .. MaxFails
    /\ cmd \in [Client -> Commands \cup {Idle}]
    /\ next \in [Client -> {"done", "list", "get", "write", "delete",
                           "status", "unlock", "report"}]
    /\ DOMAIN todo = Client /\ DOMAIN listed = Client /\ DOMAIN got = Client
    /\ \A c \in Client :
          /\ DOMAIN todo[c] \subseteq Nat /\ \A i \in DOMAIN todo[c] : todo[c][i] \in Names
          /\ next[c] \in {"get", "write", "delete"} <=> DOMAIN todo[c] # {}
          /\ IsTable(listed[c]) /\ IsTable(got[c])
    /\ missing \in [Client -> BOOLEAN] /\ quiet \in [Client -> BOOLEAN]
    /\ exit \in [Client -> 0 .. 1]
    /\ wrote \in [Client -> SUBSET Names] /\ kept \in [Client -> SUBSET Names]
    /\ serial.all \in 0 .. MaxCommands
    /\ serial.of \in [Client -> 0 .. serial.all]

ClientsInit ==
    /\ secrets = Nothing
    /\ locked \in BOOLEAN /\ fails = 0
    /\ cmd = [c \in Client |-> Idle]
    /\ next = [c \in Client |-> "done"]
    /\ todo = [c \in Client |-> <<>>]
    /\ listed = [c \in Client |-> Nothing]
    /\ got = listed
    /\ missing = [c \in Client |-> FALSE]
    /\ exit = [c \in Client |-> 0]
    /\ serial = [all |-> 0, of |-> [c \in Client |-> 0]]
    /\ wrote = [c \in Client |-> {}] /\ kept = wrote
    /\ quiet = [c \in Client |-> TRUE]

-----------------------------------------------------------------------------
(* The commands *)

Op(c) == cmd[c].do
Req(c) == cmd[c].req

\* The secret a helper's request means, by what was listed.
Picked(c, table) ==
    IF Op(c) \in {"git get", "git store", "git erase"}
    THEN GitMatch(table, Req(c)) ELSE DockerMatch(table, Req(c))

NewName(c) == IF Op(c) = "git store" THEN GitName(Req(c)) ELSE DockerName(Req(c))

\* What a store writes under n.  A match keeps its attributes, as they were
\* listed; docker's gets the new username.
Written(c, n) ==
    IF Op(c) \notin {"git store", "docker store"} \/ Picked(c, listed[c]) = {}
    THEN Record(cmd[c].kind, Req(c), serial.of[c])
    ELSE [listed[c][n] EXCEPT
             !.value = serial.of[c],
             !.user = IF Op(c) = "docker store" THEN Req(c).user ELSE @]

\* The first call of a command.
First(k) ==
    CASE k.do \in {"store", "import"} -> IF k.guard THEN "list" ELSE "write"
      [] k.do = "delete"              -> "delete"
      [] k.do = "exec"                -> "get"
      [] k.do = "unlock"              -> "status"
      [] OTHER                        -> "list"

\* The next call, for the names in part, by position; without any, the command
\* is done.
Then(c, call, part) ==
    /\ next' = [next EXCEPT ![c] = IF DOMAIN part = {} THEN "done" ELSE call]
    /\ todo' = [todo EXCEPT ![c] = part]

Runs(c, k) ==
    /\ next[c] = "done" /\ serial.all < MaxCommands
    /\ cmd' = [cmd EXCEPT ![c] = k]
    /\ IF First(k) \in {"list", "status"}
       THEN next' = [next EXCEPT ![c] = First(k)] /\ todo' = [todo EXCEPT ![c] = <<>>]
       ELSE Then(c, First(k), k.names)
    /\ listed' = [listed EXCEPT ![c] = Nothing]
    /\ got' = [got EXCEPT ![c] = Nothing]
    /\ missing' = [missing EXCEPT ![c] = FALSE]
    /\ exit' = [exit EXCEPT ![c] = 0]
    /\ serial' = [all |-> serial.all + 1, of |-> [serial.of EXCEPT ![c] = serial.all + 1]]
    /\ wrote' = [wrote EXCEPT ![c] = {}]
    /\ kept' = [kept EXCEPT ![c] = DOMAIN secrets]
    /\ quiet' = [quiet EXCEPT ![c] = TRUE]
    /\ UNCHANGED daemon

EndsWith(c, code) ==
    /\ Then(c, "done", <<>>)
    /\ exit' = [exit EXCEPT ![c] = code]

\* Why the daemon refuses any call.
Refused(code) ==
    \/ code = "LOCKED" /\ locked /\ UNCHANGED fails
    \/ code = "INTERNAL" /\ ~locked /\ fails < MaxFails /\ fails' = fails + 1

-----------------------------------------------------------------------------
(* List, and what a command makes of it *)

\* The part of a sequence of names that is in S.
Part(names, S) == [i \in {i \in DOMAIN names : names[i] \in S} |-> names[i]]

\* A slip: names that exist already are stored all the same.
SkipNothing(c, table) == Then(c, "write", cmd[c].names) /\ UNCHANGED exit

\* import --no-overwrite, and store: skip what exists, or refuse it.
SkipExisting(c, table) ==
    IF Op(c) = "store" /\ cmd[c].names[1] \in DOMAIN table
    THEN EndsWith(c, 1)
    ELSE /\ Then(c, "write", Part(cmd[c].names, Names \ DOMAIN table))
         /\ UNCHANGED exit

\* EndsWith codes of a helper that finds no secret, or too many.
NoMatchExit(c) == IF Op(c) = "docker get" THEN 1 ELSE 0
AmbiguousExit(c) == IF Op(c) \in {"git store", "git erase"} THEN 0 ELSE 1

HelperCall(c) ==
    CASE Op(c) \in {"git get", "docker get"}     -> "get"
      [] Op(c) \in {"git store", "docker store"} -> "write"
      [] OTHER                                   -> "delete"

\* A slip: between several matches the helper takes any.
TakeAny(c, picked) ==
    IF picked # {}
    THEN Then(c, HelperCall(c), <<CHOOSE n \in picked : TRUE>>) /\ UNCHANGED exit
    ELSE IF HelperCall(c) = "write"
    THEN Then(c, "write", <<NewName(c)>>) /\ UNCHANGED exit
    ELSE EndsWith(c, NoMatchExit(c))

Helper(c, picked) ==
    IF \E m, n \in picked : m # n THEN EndsWith(c, AmbiguousExit(c))
    ELSE IF picked # {}
    THEN Then(c, HelperCall(c), <<CHOOSE n \in picked : TRUE>>) /\ UNCHANGED exit
    ELSE IF HelperCall(c) = "write"
    THEN Then(c, "write", <<NewName(c)>>) /\ UNCHANGED exit
    ELSE EndsWith(c, NoMatchExit(c))

List(c) ==
    /\ next[c] = "list" /\ ~locked
    /\ listed' = [listed EXCEPT ![c] = secrets]
    /\ CASE Op(c) \in {"store", "import"} -> SkipExisting(c, secrets)
         [] Op(c) = "export" -> Then(c, "get", Part(Order, DOMAIN secrets)) /\ UNCHANGED exit
         [] Op(c) = "docker list" -> EndsWith(c, 0)
         [] OTHER -> Helper(c, Picked(c, secrets))
    /\ UNCHANGED <<daemon, cmd, got, missing, serial, history>>

\* docker's list answers {} when the daemon is locked.
ListFails(c) ==
    /\ next[c] = "list"
    /\ \E code \in {"LOCKED", "INTERNAL"} :
          /\ Refused(code)
          /\ EndsWith(c, IF Op(c) = "docker list" /\ code = "LOCKED" THEN 0 ELSE 1)
    /\ UNCHANGED <<secrets, locked, cmd, listed, got, missing, serial, history>>

-----------------------------------------------------------------------------
(* Get, Store and Delete, for the first name in todo *)

At(c, call) == next[c] = call

Front(c) == Min(DOMAIN todo[c])
Name(c)  == todo[c][Front(c)]
Rest(c)  == [i \in DOMAIN todo[c] \ {Front(c)} |-> todo[c][i]]

\* The rest of todo; at its end, the exit code says whether a name was missing.
GoOn(c, lacks) ==
    /\ missing' = [missing EXCEPT ![c] = @ \/ lacks]
    /\ Then(c, next[c], Rest(c))
    /\ exit' = [exit EXCEPT ![c] = IF DOMAIN Rest(c) = {} /\ missing'[c] THEN 1 ELSE 0]

StopsWith(c, code) == EndsWith(c, code) /\ UNCHANGED missing

Get(c) ==
    LET n == Name(c) IN
    /\ At(c, "get") /\ ~locked
    /\ IF n \in DOMAIN secrets
       THEN /\ got' = [got EXCEPT ![c] = [m \in DOMAIN @ \cup {n} |->
                                             IF m = n THEN secrets[n] ELSE @[m]]]
            /\ GoOn(c, FALSE)
       ELSE /\ UNCHANGED got
            /\ IF Op(c) = "exec" THEN GoOn(c, TRUE) ELSE StopsWith(c, 1)
    /\ UNCHANGED <<daemon, cmd, listed, serial, history>>

\* A slip: a secret that cannot be read is left out.
GetFailsSoftly(c) ==
    /\ At(c, "get")
    /\ \E code \in {"LOCKED", "INTERNAL"} : Refused(code) /\ GoOn(c, FALSE)
    /\ UNCHANGED <<secrets, locked, cmd, listed, got, serial, history>>

\* exec collects other errors than LOCKED and goes on to the next name.
GetFails(c) ==
    /\ At(c, "get")
    /\ \E code \in {"LOCKED", "INTERNAL"} :
          /\ Refused(code)
          /\ IF Op(c) = "exec" /\ code = "INTERNAL" THEN GoOn(c, TRUE) ELSE StopsWith(c, 1)
    /\ UNCHANGED <<secrets, locked, cmd, listed, got, serial, history>>

\* The vault becomes t by a call of c.
Becomes(c, t) ==
    /\ secrets' = t
    /\ kept' = [d \in Client |-> kept[d] \cap DOMAIN t]
    /\ quiet' = [d \in Client |-> quiet[d] /\ (d = c \/ t = secrets)]

Stored(c, n) == [m \in DOMAIN secrets \cup {n} |->
                    IF m = n THEN Written(c, n) ELSE secrets[m]]
Without(n) == [m \in DOMAIN secrets \ {n} |-> secrets[m]]

Store(c) ==
    LET n == Name(c) IN
    /\ At(c, "write") /\ ~locked
    /\ n # BadName
    /\ Becomes(c, Stored(c, n))
    /\ wrote' = [wrote EXCEPT ![c] = @ \cup {n}]
    /\ GoOn(c, FALSE)
    /\ UNCHANGED <<locked, fails, cmd, listed, got, serial>>

\* A slip: import goes on after a secret the daemon rejects.
StoreRejectedGoesOn(c) ==
    /\ At(c, "write")
    /\ Name(c) = BadName \/ locked
    /\ GoOn(c, TRUE)
    /\ UNCHANGED <<daemon, cmd, listed, got, serial, history>>

\* INVALID_ARGUMENT or LOCKED: nothing is stored and the command ends.
StoreRejected(c) ==
    /\ At(c, "write")
    /\ Name(c) = BadName \/ locked
    /\ StopsWith(c, 1)
    /\ UNCHANGED <<daemon, cmd, listed, got, serial, history>>

\* INTERNAL: the secret may have been stored, or deleted, all the same.
WriteFails(c) ==
    LET n == Name(c) IN
    /\ next[c] \in {"write", "delete"} /\ n # BadName
    /\ Refused("INTERNAL")
    /\ \/ UNCHANGED <<secrets, history>>
       \/ At(c, "write") /\ Becomes(c, Stored(c, n))
             /\ wrote' = [wrote EXCEPT ![c] = @ \cup {n}]
       \/ At(c, "delete") /\ n \in DOMAIN secrets /\ Becomes(c, Without(n)) /\ UNCHANGED wrote
    /\ StopsWith(c, 1)
    /\ UNCHANGED <<locked, cmd, listed, got, serial>>

\* delete goes on after a name that is missing; for a helper that is fine.
Delete(c) ==
    LET n == Name(c) IN
    /\ At(c, "delete") /\ ~locked
    /\ n # BadName
    /\ IF n \in DOMAIN secrets
       THEN Becomes(c, Without(n)) /\ GoOn(c, FALSE)
       ELSE UNCHANGED <<secrets, kept, quiet>> /\ GoOn(c, Op(c) = "delete")
    /\ UNCHANGED <<locked, fails, cmd, listed, got, serial, wrote>>

\* INVALID_ARGUMENT or LOCKED: any other error than a missing name ends it.
DeleteRejected(c) ==
    /\ At(c, "delete")
    /\ Name(c) = BadName \/ locked
    /\ StopsWith(c, 1)
    /\ UNCHANGED <<daemon, cmd, listed, got, serial, history>>

-----------------------------------------------------------------------------
(* unlock, and the daemon's own locking *)

Goto(c, from, to) == At(c, from) /\ next' = [next EXCEPT ![c] = to]

\* An unlocked daemon is left as it is.
Status(c) ==
    /\ Goto(c, "status", IF locked THEN "unlock" ELSE "done")
    /\ UNCHANGED <<daemon, cmd, todo, listed, got, missing, exit, serial, history>>

Unlock(c) ==
    /\ Goto(c, "unlock", "report")
    /\ locked' = FALSE
    /\ UNCHANGED <<secrets, fails, cmd, todo, listed, got, missing, exit, serial, history>>

Report(c) ==
    /\ Goto(c, "report", "done")
    /\ UNCHANGED <<daemon, cmd, todo, listed, got, missing, exit, serial, history>>

\* The auto-lock, or somebody's `keycell lock`.
Lock ==
    /\ ~locked /\ locked' = TRUE
    /\ UNCHANGED <<secrets, fails, cmd, next, todo, listed, got, missing, exit, serial, history>>

ClientsNext ==
    \/ \E c \in Client :
          \/ \E k \in Commands : Runs(c, k)
          \/ List(c) \/ ListFails(c) \/ Get(c) \/ GetFails(c)
          \/ Store(c) \/ StoreRejected(c) \/ WriteFails(c) \/ Delete(c) \/ DeleteRejected(c)
          \/ Status(c) \/ Unlock(c) \/ Report(c)
    \/ Lock

ClientsSpec == ClientsInit /\ [][ClientsNext]_clientsVars

-----------------------------------------------------------------------------
(* Properties *)

Succeeded(c) == next[c] = "done" /\ exit[c] = 0

\* After git or docker has handed a login to its helper, asking for the same
\* again finds it: one secret, with that password.  Whatever else is in the
\* vault, the new record beats it, or has taken its place.
StoredIsAnswered ==
    \A c \in Client :
        Succeeded(c) /\ quiet[c] /\ Op(c) \in {"git store", "docker store"} /\ wrote[c] # {}
            => \E n \in wrote[c] : /\ Picked(c, secrets) = {n}
                                   /\ secrets[n].value = serial.of[c]

\* docs/CLI.md: --no-overwrite replaces no secret that was there when the
\* command began, whoever changes the vault meanwhile.
NoOverwriteKeeps ==
    \A c \in Client : cmd[c].guard => wrote[c] \cap kept[c] = {}

\* A command over several secrets does all of it or fails (exec.go:117,
\* transfer.go:53, 119).  A successful export has every secret that was there all
\* the time it ran; exec starts its command with every secret it was asked for; an
\* import stores in name order and stops at the first one that is rejected.
WholeOrFails ==
    \A c \in Client :
        LET doc == cmd[c].names
            handled == wrote[c] \cup IF cmd[c].guard THEN DOMAIN listed[c] ELSE {}
        IN  /\ Op(c) = "export" /\ Succeeded(c) => kept[c] \subseteq DOMAIN got[c]
            /\ Op(c) = "exec" /\ Succeeded(c) => \A i \in DOMAIN doc : doc[i] \in DOMAIN got[c]
            /\ Op(c) = "import" =>
                  /\ \A i, j \in DOMAIN doc : i < j /\ doc[j] \in wrote[c] => doc[i] \in handled
                  /\ Succeeded(c) => \A i \in DOMAIN doc : doc[i] \in handled

\* docs/KINDS.md: "only without a match a new git/<host>[/<username>] is
\* created": what the helper creates takes no other secret's place.
CreatedIsNew ==
    \A c \in Client : Op(c) = "git store" /\ GitMatch(listed[c], Req(c)) = {}
        => wrote[c] \cap kept[c] = {}
=============================================================================

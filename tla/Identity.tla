------------------------------ MODULE Identity ------------------------------
(***************************************************************************)
(* The identity files beside the vault: Init, ChangePassphrase,            *)
(* SetPassphrase, RemovePassphrase and Load (internal/identity), which run *)
(* in keycell processes, without the daemon and without any lock between   *)
(* them.  Each step is one look at the directory or one change of it; the  *)
(* file writes are those of AtomicFile as other processes see them.        *)
(***************************************************************************)
EXTENDS Integers, FiniteSets

CONSTANTS Writer,       \* processes that run any operation
          Reader,       \* processes that only load (keycell unlock)
          Pass, Plain,  \* passphrases; a file without one
          Absent,       \* no such file
          MaxKeys,      \* bound: identities that are generated
          MaxFails,     \* bound: failing writes
          MaxKills      \* bound: killed processes

ASSUME PlainAssumption == Plain \notin Pass
ASSUME BoundAssumption == {MaxKeys, MaxFails, MaxKills} \subseteq Nat

VARIABLES files,        \* identity.age, identity.txt and vault.age
          baks,         \* and the previous ones, as .bak
          pc,           \* where each process is
          op,           \* what it does
          saw,          \* the forms Detect has seen
          key,          \* the identity it has generated or loaded
          outcome,      \* what its last operation returned
          keys,         \* identities generated so far
          fails, kills

dir    == <<files, baks>>
counts == <<keys, fails, kills>>
vars   == <<dir, pc, op, saw, key, outcome, counts>>

Process == Writer \cup Reader
Forms   == {"age", "txt"}
Names   == Forms \cup {"vault"}
Keys    == 0 .. MaxKeys            \* 0: none
Content == [key: Keys, pass: Pass \cup {Plain}]

ASSUME AbsentAssumption == Absent \notin Content

\* old: what the user enters as the current passphrase; next: as the new one.
Ops == [do: {"init"}, old: {Plain}, next: Pass \cup {Plain}]
       \cup [do: {"change"}, old: Pass, next: Pass]
       \cup [do: {"set"}, old: {Plain}, next: Pass]
       \cup [do: {"remove"}, old: Pass, next: {Plain}]
Loads == [do: {"load"}, old: Pass, next: {Plain}]

Results == {"none", "ok", "exists", "form", "missing", "passphrase", "failed", "killed"}

TypeOK ==
    /\ files \in [Names -> Content \cup {Absent}]
    /\ baks \in [Names -> Content \cup {Absent}]
    /\ pc \in [Process -> {"idle", "age", "txt", "form", "age again", "txt again",
                           "open", "vault", "backup", "rename", "backup vault",
                           "rename vault", "remove"}]
    /\ op \in [Process -> Ops \cup Loads]
    /\ saw \in [Process -> SUBSET Forms]
    /\ key \in [Process -> Keys]
    /\ outcome \in [Process -> Results]
    /\ \A p \in Process : pc[p] = "idle" \/ outcome[p] = "none"
    /\ keys \in Keys /\ fails \in 0 .. MaxFails /\ kills \in 0 .. MaxKills

Init ==
    /\ files = [n \in Names |-> Absent] /\ baks = files
    /\ pc = [p \in Process |-> "idle"]
    /\ op = [p \in Process |-> CHOOSE l \in Loads : TRUE]
    /\ saw = [p \in Process |-> {}]
    /\ key = [p \in Process |-> 0]
    /\ outcome = [p \in Process |-> "none"]
    /\ keys = 0 /\ fails = 0 /\ kills = 0

Exists(n) == files[n] # Absent

At(p, from, to) == pc[p] = from /\ pc' = [pc EXCEPT ![p] = to]

Return(p, r) ==
    /\ pc' = [pc EXCEPT ![p] = "idle"]
    /\ outcome' = [outcome EXCEPT ![p] = r]

\* The operation goes on at 'to', or ends with an error.
Proceed(p, ok, to, error) ==
    IF ok THEN pc' = [pc EXCEPT ![p] = to] /\ UNCHANGED outcome
          ELSE Return(p, error)

-----------------------------------------------------------------------------
(* Detect and Load *)

Begin(p, o) ==
    /\ At(p, "idle", "age")
    /\ op' = [op EXCEPT ![p] = o]
    /\ saw' = [saw EXCEPT ![p] = {}]
    /\ key' = [key EXCEPT ![p] = 0]
    /\ outcome' = [outcome EXCEPT ![p] = "none"]
    /\ UNCHANGED <<dir, counts>>

\* os.Stat of one of the two files.
Stat(p, form) ==
    /\ saw' = [saw EXCEPT ![p] = @ \cup {f \in {form} : Exists(f)}]
    /\ UNCHANGED <<dir, op, key, outcome, counts>>

StatAge(p) == At(p, "age", "txt") /\ Stat(p, "age")
StatTxt(p) == At(p, "txt", "form") /\ Stat(p, "txt")

\* The form the operation needs; load takes what there is.
Wanted(o) == IF o.do = "set" THEN {{"txt"}}
             ELSE IF o.do = "load" THEN {{"age"}, {"txt"}} ELSE {{"age"}}

\* Init wants neither file.  Load, called by the others, detects once more.
CheckForm(p) ==
    /\ pc[p] = "form"
    /\ CASE op[p].do = "init" -> Proceed(p, saw[p] = {}, "vault", "exists")
         [] op[p].do = "load" -> Proceed(p, saw[p] \in Wanted(op[p]), "open", "form")
         [] OTHER -> Proceed(p, saw[p] \in Wanted(op[p]), "age again", "form")
    /\ saw' = IF op[p].do \in {"init", "load"} THEN saw ELSE [saw EXCEPT ![p] = {}]
    /\ UNCHANGED <<dir, op, key, counts>>

StatAgeAgain(p) == At(p, "age again", "txt again") /\ Stat(p, "age")
StatTxtAgain(p) == At(p, "txt again", "open") /\ Stat(p, "txt")

\* LoadFile: the one file that was seen is opened, and its passphrase tried.
Open(p) ==
    /\ pc[p] = "open"
    /\ IF Cardinality(saw[p]) # 1
       THEN Return(p, "form") /\ UNCHANGED key
       ELSE LET n == CHOOSE f \in Forms : saw[p] = {f} IN
            IF ~Exists(n) THEN Return(p, "missing") /\ UNCHANGED key
            ELSE IF files[n].pass \notin {Plain, op[p].old}
            THEN Return(p, "passphrase") /\ UNCHANGED key
            ELSE /\ key' = [key EXCEPT ![p] = files[n].key]
                 /\ IF op[p].do = "load"
                    THEN Return(p, "ok")
                    ELSE pc' = [pc EXCEPT ![p] = "backup"] /\ UNCHANGED outcome
    /\ UNCHANGED <<dir, op, saw, counts>>

-----------------------------------------------------------------------------
(* Init and the changes of form *)

\* A slip: init looks for an identity only.
CheckNothing(p) ==
    /\ pc[p] = "vault"
    /\ keys < MaxKeys
    /\ pc' = [pc EXCEPT ![p] = "backup"]
    /\ keys' = keys + 1
    /\ key' = [key EXCEPT ![p] = keys + 1]
    /\ UNCHANGED <<dir, op, saw, outcome, fails, kills>>

\* The vault must not exist either; then an identity is generated.
CheckVault(p) ==
    /\ pc[p] = "vault"
    /\ keys < MaxKeys \/ Exists("vault")
    /\ Proceed(p, ~Exists("vault"), "backup", "exists")
    /\ IF Exists("vault") THEN UNCHANGED <<keys, key>>
       ELSE keys' = keys + 1 /\ key' = [key EXCEPT ![p] = keys + 1]
    /\ UNCHANGED <<dir, op, saw, fails, kills>>

\* The identity file an operation writes: its form follows the new passphrase.
Target(o) == IF o.next = Plain THEN "txt" ELSE "age"

Backup(p, n) ==
    /\ baks' = [baks EXCEPT ![n] = IF Exists(n) THEN files[n] ELSE @]
    /\ files' = [files EXCEPT ![n] = Absent]
    /\ UNCHANGED <<op, saw, key, outcome, counts>>

Put(n, c) == files' = [files EXCEPT ![n] = c] /\ UNCHANGED baks

\* A slip: no backup is kept.
DiscardIdentity(p) ==
    /\ At(p, "backup", "rename")
    /\ files' = [files EXCEPT ![Target(op[p])] = Absent]
    /\ UNCHANGED <<baks, op, saw, key, outcome, counts>>

BackupIdentity(p) == At(p, "backup", "rename") /\ Backup(p, Target(op[p]))
BackupVault(p)    == At(p, "backup vault", "rename vault") /\ Backup(p, "vault")

\* What comes after the new identity file: the vault, the removal of the file
\* of the other form, or nothing.
AfterIdentity(p) ==
    CASE op[p].do = "init"   -> Proceed(p, TRUE, "backup vault", "failed")
      [] op[p].do = "change" -> Return(p, "ok")
      [] OTHER               -> Proceed(p, TRUE, "remove", "failed")

RenameIdentity(p) ==
    /\ pc[p] = "rename"
    /\ Put(Target(op[p]), [key |-> key[p], pass |-> op[p].next])
    /\ AfterIdentity(p)
    /\ UNCHANGED <<op, saw, key, counts>>

RenameVault(p) ==
    /\ pc[p] = "rename vault"
    /\ Put("vault", [key |-> key[p], pass |-> Plain])
    /\ Return(p, "ok")
    /\ UNCHANGED <<op, saw, key, counts>>

\* atomicfile.Write fails, before the backup, before the rename, or after it
\* when the directory cannot be synced.
WriteFails(p) ==
    /\ fails < MaxFails
    /\ fails' = fails + 1
    /\ \/ pc[p] \in {"backup", "rename", "backup vault", "rename vault"} /\ UNCHANGED dir
       \/ pc[p] = "rename" /\ Put(Target(op[p]), [key |-> key[p], pass |-> op[p].next])
       \/ pc[p] = "rename vault" /\ Put("vault", [key |-> key[p], pass |-> Plain])
    /\ Return(p, "failed")
    /\ UNCHANGED <<op, saw, key, keys, kills>>

Other(n) == CHOOSE f \in Forms : f # n

\* A slip: the file of the other form stays.
RemoveNothing(p) ==
    /\ pc[p] = "remove"
    /\ Return(p, "ok")
    /\ UNCHANGED <<dir, op, saw, key, counts>>

\* os.Remove of the file of the other form.
RemoveOther(p) ==
    /\ pc[p] = "remove"
    /\ Return(p, IF Exists(Other(Target(op[p]))) THEN "ok" ELSE "failed")
    /\ files' = [files EXCEPT ![Other(Target(op[p]))] = Absent]
    /\ UNCHANGED <<baks, op, saw, key, counts>>

Kill(p) ==
    /\ pc[p] # "idle"
    /\ kills < MaxKills
    /\ kills' = kills + 1
    /\ Return(p, "killed")
    /\ UNCHANGED <<dir, op, saw, key, keys, fails>>

-----------------------------------------------------------------------------

Step(p) ==
    \/ StatAge(p) \/ StatTxt(p) \/ CheckForm(p)
    \/ StatAgeAgain(p) \/ StatTxtAgain(p) \/ Open(p)
    \/ CheckVault(p) \/ BackupIdentity(p) \/ RenameIdentity(p)
    \/ BackupVault(p) \/ RenameVault(p) \/ RemoveOther(p)

Next ==
    \/ \E p \in Writer, o \in Ops : Begin(p, o)
    \/ \E p \in Process, o \in Loads : Begin(p, o)
    \/ \E p \in Process : Step(p) \/ WriteFails(p) \/ Kill(p)

Spec == Init /\ [][Next]_vars

-----------------------------------------------------------------------------
(* Properties *)

AllIdle == \A p \in Process : pc[p] = "idle"

Held(n) == {files[n], baks[n]} \ {Absent}

\* The identity that opens the vault is never gone from the disk: the order of
\* writes and removals leaves a copy whenever a process fails or is killed.
VaultKeyOnDisk ==
    \A v \in Held("vault") : \E f \in Held("age") \cup Held("txt") : f.key = v.key

\* setup.go:72-97: an operation that succeeds leaves one form.  Where nothing
\* failed and nobody was killed, an initialised directory holds exactly one
\* identity, in one form, and it opens the vault; and whatever happened before,
\* after a passphrase has been set no file holds the identity without one.
SuccessLeavesOneForm ==
    /\ AllIdle /\ fails = 0 /\ kills = 0 /\ Held("vault") # {} =>
          /\ Exists("age") # Exists("txt")
          /\ \A n \in Forms : Exists(n) => files[n].key = files["vault"].key
    /\ \A p \in Writer : op[p].do = "set" /\ outcome[p] = "ok" => Held("txt") = {}

\* unlock never sends the daemon another identity than the vault's, whatever
\* `keycell passphrase` does while it reads.
LoadsVaultKey ==
    [][\A p \in Process :
          op[p].do = "load" /\ pc[p] = "open" /\ outcome'[p] = "ok"
              => \A v \in Held("vault") : v.key = key'[p]]_vars
=============================================================================

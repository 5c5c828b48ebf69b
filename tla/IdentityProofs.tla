--------------------------- MODULE IdentityProofs ---------------------------
(***************************************************************************)
(* Theorems about Identity for any number of passphrases, of processes     *)
(* that load, of failures and of kills, while one process w at a time runs *)
(* `keycell init` or `keycell passphrase`: the identity that opens the     *)
(* vault stays on the disk, and nobody loads another one.                  *)
(***************************************************************************)
EXTENDS Identity, FiniteSetTheorems, TLAPS

USE PlainAssumption, BoundAssumption, AbsentAssumption

-----------------------------------------------------------------------------
(* The inductive invariant *)

Places == {"idle", "age", "txt", "form", "age again", "txt again", "open", "vault",
           "backup", "rename", "backup vault", "rename vault", "remove"}

Types ==
    /\ files \in [Names -> Content \cup {Absent}]
    /\ baks \in [Names -> Content \cup {Absent}]
    /\ pc \in [Process -> Places]
    /\ op = [p \in Process |-> op[p]]
    /\ saw \in [Process -> SUBSET Forms]
    /\ key \in [Process -> Keys]
    /\ keys \in Keys

\* Everybody but w only loads, and each operation keeps to its own steps.
InStep(w, p) ==
    pc[p] # "idle" =>
        /\ op[p] \in Ops \cup Loads
        /\ p # w => op[p] \in Loads
        /\ op[p].do = "load" => pc[p] \in {"age", "txt", "form", "open"}
        /\ pc[p] \in {"vault", "backup vault", "rename vault"} => op[p].do = "init"
        /\ pc[p] \in {"age again", "txt again", "open", "remove"} => op[p].do # "init"

\* An init that goes on has found, and still finds, no other identity and no
\* vault; its own identity is there before its vault.
InitAlone(w) ==
    pc[w] # "idle" /\ op[w].do = "init" =>
        /\ pc[w] = "txt" /\ "age" \notin saw[w] => ~Exists("age")
        /\ pc[w] = "form" /\ saw[w] = {} => ~Exists("age") /\ ~Exists("txt")
        /\ pc[w] \in {"vault", "backup", "rename"} => ~Exists("age") /\ ~Exists("txt")
        /\ pc[w] \in {"backup", "rename", "backup vault", "rename vault"} => ~Exists("vault")
        /\ pc[w] \in {"backup vault", "rename vault"} =>
              /\ Exists(Target(op[w])) /\ files[Target(op[w])].key = key[w]
              /\ \A n \in Forms : Exists(n) => n = Target(op[w])

\* A change of form has the vault's identity in hand before it moves a file,
\* and removes one only when the other is there.
ChangeHoldsKey(w) ==
    pc[w] # "idle" /\ op[w].do # "init" =>
        /\ pc[w] \in {"backup", "rename"} /\ Exists("vault") => key[w] = files["vault"].key
        /\ pc[w] = "remove" => Exists(Target(op[w]))

\* Whatever identity can be loaded is the vault's.
OneKey == Exists("vault") => \A n \in Forms : Exists(n) => files[n].key = files["vault"].key

\* Init, which alone writes the vault, wants none: it is never backed up.
VaultWrittenOnce == baks["vault"] = Absent

IInv(w) ==
    /\ Types
    /\ \A p \in Process : InStep(w, p)
    /\ InitAlone(w) /\ ChangeHoldsKey(w)
    /\ OneKey /\ VaultWrittenOnce /\ VaultKeyOnDisk

-----------------------------------------------------------------------------
(* Helpers *)

LEMMA FormsAndNames ==
  /\ Forms \subseteq Names /\ "vault" \in Names /\ "vault" \notin Forms
  /\ \A o : Target(o) \in Forms
  /\ \A n \in Forms : Other(n) \in Forms /\ Other(n) # n
BY DEF Forms, Names, Target, Other

LEMMA InitIInv ==
  ASSUME NEW w, Writer = {w}, Init
  PROVE  IInv(w)
<1>1. \A n \in Names : ~Exists(n) /\ baks[n] = Absent
  BY DEF Init, Exists
<1>2. Types
  BY DEF Init, Types, Places, Keys
<1> QED
  BY <1>1, <1>2, FormsAndNames DEF Init, IInv, InStep, InitAlone, ChangeHoldsKey, OneKey,
     VaultWrittenOnce, VaultKeyOnDisk, Held, Process, Exists

\* A step of p that leaves the directory alone.
LEMMA Looking ==
  ASSUME NEW w, Writer = {w}, IInv(w), NEW p \in Process, NEW at \in Places,
         pc' = [pc EXCEPT ![p] = at], UNCHANGED dir,
         op' = op \/ \E o : op' = [op EXCEPT ![p] = o],
         saw' = saw \/ \E s \in SUBSET Forms : saw' = [saw EXCEPT ![p] = s],
         key' = key \/ \E k \in Keys : key' = [key EXCEPT ![p] = k],
         keys' \in Keys,
         InStep(w, p)', p = w => InitAlone(w)' /\ ChangeHoldsKey(w)'
  PROVE  IInv(w)'
<1>0. Types /\ UNCHANGED <<files, baks>>
  BY DEF IInv, dir
<1>1. Types'
  BY <1>0 DEF Types
<1>2. ASSUME NEW q \in Process, q # p
      PROVE  pc'[q] = pc[q] /\ op'[q] = op[q] /\ saw'[q] = saw[q] /\ key'[q] = key[q]
  BY <1>0, <1>2 DEF Types
<1>3. \A q \in Process : InStep(w, q)'
  BY <1>2 DEF IInv, InStep
<1>4. InitAlone(w)' /\ ChangeHoldsKey(w)'
  BY <1>0, <1>2 DEF IInv, InitAlone, ChangeHoldsKey, Exists, Process
<1>5. OneKey' /\ VaultWrittenOnce' /\ VaultKeyOnDisk'
  BY <1>0 DEF IInv, OneKey, VaultWrittenOnce, VaultKeyOnDisk, Held, Exists
<1> QED
  BY <1>1, <1>3, <1>4, <1>5 DEF IInv

\* A step of w that changes the directory.
LEMMA Writing ==
  ASSUME NEW w, Writer = {w}, IInv(w), NEW at \in Places,
         pc' = [pc EXCEPT ![w] = at], UNCHANGED <<op, saw, key, keys>>,
         files' \in [Names -> Content \cup {Absent}],
         baks' \in [Names -> Content \cup {Absent}],
         InStep(w, w)', InitAlone(w)', ChangeHoldsKey(w)',
         OneKey', VaultWrittenOnce', VaultKeyOnDisk'
  PROVE  IInv(w)'
<1>0. Types
  BY DEF IInv
<1>1. Types'
  BY <1>0 DEF Types
<1>2. \A q \in Process : q # w => pc'[q] = pc[q] /\ op'[q] = op[q]
  BY <1>0 DEF Types
<1>3. \A q \in Process : InStep(w, q)'
  BY <1>2 DEF IInv, InStep
<1> QED
  BY <1>1, <1>3 DEF IInv

\* Who writes is w.
LEMMA WhoWrites ==
  ASSUME NEW w, IInv(w), NEW p \in Process,
         pc[p] \in {"vault", "backup", "rename", "backup vault", "rename vault", "remove"}
  PROVE  p = w
BY DEF IInv, InStep, Loads

-----------------------------------------------------------------------------
(* The steps that look *)

LEMMA BeginStep ==
  ASSUME NEW w, Writer = {w}, IInv(w), NEW p \in Process, NEW o \in Ops \cup Loads,
         p # w => o \in Loads, Begin(p, o)
  PROVE  IInv(w)'
<1>0. Types
  BY DEF IInv
<1>1. /\ pc' = [pc EXCEPT ![p] = "age"] /\ op' = [op EXCEPT ![p] = o]
      /\ saw' = [saw EXCEPT ![p] = {}] /\ key' = [key EXCEPT ![p] = 0]
      /\ UNCHANGED <<dir, keys>>
  BY DEF Begin, At, counts
<1>2. pc'[p] = "age" /\ op'[p] = o
  BY <1>0, <1>1 DEF Types
<1>3. InStep(w, p)'
  BY <1>2 DEF InStep
<1>4. p = w => InitAlone(w)' /\ ChangeHoldsKey(w)'
  BY <1>2 DEF InitAlone, ChangeHoldsKey
<1>5. keys' \in Keys /\ "age" \in Places /\ {} \in SUBSET Forms
  BY <1>0, <1>1 DEF Types, Places
<1>6. 0 \in Keys
  BY DEF Keys
<1> QED
  BY <1>1, <1>3, <1>4, <1>5, <1>6, Looking

\* os.Stat, the first time and the second.
LEMMA StatStep ==
  ASSUME NEW w, Writer = {w}, IInv(w), NEW p \in Process,
         NEW from, NEW at, NEW form \in Forms, At(p, from, at), Stat(p, form),
         <<from, at, form>> \in {<<"age", "txt", "age">>, <<"txt", "form", "txt">>,
            <<"age again", "txt again", "age">>, <<"txt again", "open", "txt">>}
  PROVE  IInv(w)'
<1>0. /\ Types /\ InStep(w, p) /\ (p = w => InitAlone(w) /\ ChangeHoldsKey(w))
      /\ from \in Places \ {"idle"} /\ at \in Places \ {"idle"}
  BY DEF IInv, Places
<1>1. /\ pc[p] = from /\ pc' = [pc EXCEPT ![p] = at]
      /\ saw' = [saw EXCEPT ![p] = saw[p] \cup {f \in {form} : Exists(f)}]
      /\ UNCHANGED <<files, baks, op, key, keys>> /\ UNCHANGED dir
  BY DEF Stat, At, counts, dir
<1>2. /\ pc'[p] = at /\ saw[p] \subseteq Forms
      /\ saw'[p] = saw[p] \cup {f \in {form} : Exists(f)}
  BY <1>0, <1>1 DEF Types
<1>3. InStep(w, p)'
  BY <1>0, <1>1, <1>2 DEF InStep
<1>4. ASSUME p = w PROVE InitAlone(w)' /\ ChangeHoldsKey(w)'
  <2>1. ChangeHoldsKey(w)'
    BY <1>2, <1>4 DEF ChangeHoldsKey
  <2>2. CASE at = "txt"
    <3>1. "age" \notin saw'[p] => ~Exists("age")
      BY <1>2, <2>2
    <3>2. InitAlone(w)'
      BY <1>1, <1>2, <1>4, <2>2, <3>1 DEF InitAlone, Exists
    <3> QED
      BY <2>1, <3>2
  <2>3. CASE at = "form"
    <3>1. pc[w] = "txt" /\ form = "txt"
      BY <1>1, <1>4, <2>3
    <3>2. op[w].do = "init" /\ saw'[w] = {} => ~Exists("age") /\ ~Exists("txt")
      BY <1>0, <1>2, <1>4, <3>1 DEF InitAlone
    <3>3. InitAlone(w)'
      BY <1>1, <1>2, <1>4, <2>3, <3>2 DEF InitAlone, Exists
    <3> QED
      BY <2>1, <3>3
  <2>4. CASE at \in {"txt again", "open"}
    BY <1>2, <1>4, <2>1, <2>4 DEF InitAlone
  <2> QED
    BY <2>2, <2>3, <2>4
<1>5. keys' \in Keys /\ saw[p] \cup {f \in {form} : Exists(f)} \in SUBSET Forms
  BY <1>0, <1>1, <1>2 DEF Types
<1> QED
  BY <1>0, <1>1, <1>3, <1>4, <1>5, Looking

LEMMA CheckFormStep ==
  ASSUME NEW w, Writer = {w}, IInv(w), NEW p \in Process, CheckForm(p)
  PROVE  IInv(w)'
<1>0. Types /\ InStep(w, p) /\ (p = w => InitAlone(w) /\ ChangeHoldsKey(w))
  BY DEF IInv
<1>1. PICK at \in {"idle", "vault", "open", "age again"} :
         /\ pc[p] = "form" /\ pc' = [pc EXCEPT ![p] = at]
         /\ UNCHANGED <<files, baks, op, key, keys>> /\ UNCHANGED dir
         /\ saw' = saw \/ saw' = [saw EXCEPT ![p] = {}]
         /\ at = "vault" => op[p].do = "init" /\ saw[p] = {}
         /\ at = "open" => op[p].do = "load"
         /\ at = "age again" => op[p].do \notin {"init", "load"}
  <2>1. CASE op[p].do = "init"
    BY <2>1 DEF CheckForm, Proceed, Return, dir, counts
  <2>2. CASE op[p].do = "load"
    BY <2>2 DEF CheckForm, Proceed, Return, dir, counts
  <2>3. CASE op[p].do \notin {"init", "load"}
    BY <2>3 DEF CheckForm, Proceed, Return, dir, counts
  <2> QED
    BY <2>1, <2>2, <2>3
<1>2. pc'[p] = at /\ at \in Places /\ keys' \in Keys
  BY <1>0, <1>1 DEF Types, Places
<1>3. InStep(w, p)'
  BY <1>0, <1>1, <1>2 DEF InStep
<1>4. ASSUME p = w PROVE InitAlone(w)' /\ ChangeHoldsKey(w)'
  <2>1. ChangeHoldsKey(w)'
    BY <1>2, <1>4 DEF ChangeHoldsKey
  <2>2. at = "vault" => ~Exists("age") /\ ~Exists("txt")
    BY <1>0, <1>1, <1>4 DEF InitAlone
  <2>3. InitAlone(w)'
    BY <1>1, <1>2, <1>4, <2>2 DEF InitAlone, Exists
  <2> QED
    BY <2>1, <2>3
<1> QED
  BY <1>1, <1>2, <1>3, <1>4, Looking

LEMMA KillStep ==
  ASSUME NEW w, Writer = {w}, IInv(w), NEW p \in Process, Kill(p)
  PROVE  IInv(w)'
<1>0. Types
  BY DEF IInv
<1>1. pc' = [pc EXCEPT ![p] = "idle"] /\ UNCHANGED <<dir, op, saw, key, keys>>
  BY DEF Kill, Return
<1>2. pc'[p] = "idle" /\ "idle" \in Places /\ keys' \in Keys
  BY <1>0, <1>1 DEF Types, Places
<1>3. InStep(w, p)' /\ (p = w => InitAlone(w)' /\ ChangeHoldsKey(w)')
  BY <1>2 DEF InStep, InitAlone, ChangeHoldsKey
<1> QED
  BY <1>1, <1>2, <1>3, Looking

\* An Open that ends with an error.
OpenFails(p) ==
    /\ pc' = [pc EXCEPT ![p] = "idle"]
    /\ \E r \in {"form", "missing", "passphrase"} : outcome' = [outcome EXCEPT ![p] = r]
    /\ UNCHANGED key

\* What is opened is the vault's identity.
LEMMA Opened ==
  ASSUME NEW w, IInv(w), NEW p \in Process, Open(p), ~OpenFails(p)
  PROVE  /\ \E n \in Forms : /\ Exists(n)
                             /\ key' = [key EXCEPT ![p] = files[n].key]
                             /\ files[n].key \in Keys
         /\ Exists("vault") => key'[p] = files["vault"].key
<1>0. Types /\ OneKey
  BY DEF IInv
<1>1. Cardinality(saw[p]) = 1
  BY DEF Open, Return, OpenFails
<1>2. saw[p] \subseteq Forms
  BY <1>0 DEF Types
<1>3. PICK f : saw[p] = {f}
  <2>1. IsFiniteSet(saw[p])
    <3>1. IsFiniteSet({"age"}) /\ Forms = {"age"} \cup {"txt"}
      BY FS_Singleton DEF Forms
    <3>2. IsFiniteSet(Forms)
      BY <3>1, FS_AddElement
    <3> QED
      BY <1>2, <3>2, FS_Subset
  <2> QED
    BY <1>1, <2>1, FS_Singleton
<1>4. f \in Forms
  BY <1>2, <1>3
<1>5. PICK n \in Forms : n = (CHOOSE g \in Forms : saw[p] = {g})
  BY <1>3, <1>4
<1>6. Exists(n) /\ key' = [key EXCEPT ![p] = files[n].key]
  BY <1>1, <1>5 DEF Open, Return, OpenFails
<1>7. files[n].key \in Keys
  BY <1>0, <1>6, FormsAndNames DEF Types, Exists, Content
<1>8. key'[p] = files[n].key
  BY <1>0, <1>6 DEF Types
<1> QED
  BY <1>0, <1>6, <1>7, <1>8 DEF OneKey

LEMMA OpenStep ==
  ASSUME NEW w, Writer = {w}, IInv(w), NEW p \in Process, Open(p)
  PROVE  IInv(w)'
<1>0. Types /\ InStep(w, p)
  BY DEF IInv
<1>1. PICK at \in {"idle", "backup"} :
         /\ pc[p] = "open" /\ pc' = [pc EXCEPT ![p] = at]
         /\ UNCHANGED <<files, baks, op, saw, keys>> /\ UNCHANGED dir
         /\ at = "backup" => op[p].do # "load"
  BY DEF Open, Return, dir, counts
<1>2. key' = key \/ \E k \in Keys : key' = [key EXCEPT ![p] = k]
  BY Opened DEF OpenFails
<1>3. pc'[p] = at /\ at \in Places /\ keys' \in Keys
  BY <1>0, <1>1 DEF Types, Places
<1>4. InStep(w, p)'
  BY <1>0, <1>1, <1>3 DEF InStep
<1>5. op[p].do # "init"
  BY <1>0, <1>1 DEF InStep
<1>6. at = "backup" /\ Exists("vault") => key'[p] = files["vault"].key
  <2> SUFFICES ASSUME at = "backup" PROVE Exists("vault") => key'[p] = files["vault"].key
    OBVIOUS
  <2>1. ~OpenFails(p)
    BY <1>0, <1>1 DEF Types, OpenFails
  <2> QED
    BY <2>1, Opened
<1>7. p = w => InitAlone(w)' /\ ChangeHoldsKey(w)'
  BY <1>1, <1>3, <1>5, <1>6 DEF InitAlone, ChangeHoldsKey, Exists
<1> QED
  BY <1>1, <1>2, <1>3, <1>4, <1>7, Looking

-----------------------------------------------------------------------------
(* The steps that write *)

\* CheckVault generates the identity, or finds a vault.
LEMMA CheckVaultStep ==
  ASSUME NEW w, Writer = {w}, IInv(w), NEW p \in Process, CheckVault(p)
  PROVE  IInv(w)'
<1>0. Types /\ InStep(w, p) /\ (p = w => InitAlone(w) /\ ChangeHoldsKey(w))
  BY DEF IInv
<1>1. PICK at \in {"idle", "backup"} :
         /\ pc[p] = "vault" /\ pc' = [pc EXCEPT ![p] = at]
         /\ UNCHANGED <<files, baks, op, saw>> /\ UNCHANGED dir
         /\ at = "backup" => ~Exists("vault")
  BY DEF CheckVault, Proceed, Return, dir
<1>2. keys' \in Keys /\ (key' = key \/ \E k \in Keys : key' = [key EXCEPT ![p] = k])
  <2>1. keys \in Keys
    BY <1>0 DEF Types
  <2>2. CASE Exists("vault")
    BY <2>1, <2>2 DEF CheckVault
  <2>3. CASE ~Exists("vault")
    <3>1. keys < MaxKeys /\ keys' = keys + 1 /\ key' = [key EXCEPT ![p] = keys + 1]
      BY <2>3 DEF CheckVault
    <3>2. keys + 1 \in Keys
      BY <2>1, <3>1 DEF Keys
    <3> QED
      BY <3>1, <3>2
  <2> QED
    BY <2>2, <2>3
<1>3. pc'[p] = at /\ at \in Places
  BY <1>0, <1>1 DEF Types, Places
<1>4. InStep(w, p)'
  BY <1>0, <1>1, <1>3 DEF InStep
<1>5. op[p].do = "init"
  BY <1>0, <1>1 DEF InStep
<1>6. p = w => InitAlone(w)' /\ ChangeHoldsKey(w)'
  BY <1>0, <1>1, <1>3, <1>5 DEF InitAlone, ChangeHoldsKey, Exists
<1> QED
  BY <1>1, <1>2, <1>3, <1>4, <1>6, Looking

\* The invariant where w writes.
LEMMA AtWriter ==
  ASSUME NEW w, Writer = {w}, IInv(w), NEW p \in Process,
         pc[p] \in {"backup", "rename", "backup vault", "rename vault", "remove"}
  PROVE  /\ p = w /\ w \in Process /\ Types /\ InStep(w, w) /\ InitAlone(w)
         /\ ChangeHoldsKey(w) /\ OneKey /\ VaultWrittenOnce /\ VaultKeyOnDisk
         /\ Target(op[w]) \in Forms /\ key[w] \in Keys
         /\ op[w].next \in Pass \cup {Plain}
<1>1. p = w /\ Types /\ InStep(w, w)
  BY WhoWrites DEF IInv
<1>2. op[w] \in Ops \cup Loads
  BY <1>1 DEF InStep
<1> QED
  BY <1>1, <1>2, FormsAndNames DEF IInv, Types, Ops, Loads

LEMMA BackupIdentityStep ==
  ASSUME NEW w, Writer = {w}, IInv(w), NEW p \in Process, BackupIdentity(p)
  PROVE  IInv(w)'
<1> DEFINE n == Target(op[w])
<1>0. /\ p = w /\ w \in Process /\ Types /\ InStep(w, w) /\ InitAlone(w)
      /\ ChangeHoldsKey(w) /\ OneKey /\ VaultWrittenOnce /\ VaultKeyOnDisk
      /\ n \in Forms /\ pc[w] = "backup"
  BY AtWriter DEF BackupIdentity, At
<1>1. /\ pc' = [pc EXCEPT ![w] = "rename"] /\ UNCHANGED <<op, saw, key, keys>>
      /\ files' = [files EXCEPT ![n] = Absent]
      /\ baks' = [baks EXCEPT ![n] = IF Exists(n) THEN files[n] ELSE baks[n]]
  BY <1>0 DEF BackupIdentity, At, Backup, counts
<1> HIDE DEF n
<1>2. /\ n \in Names /\ n # "vault" /\ pc'[w] = "rename"
      /\ files'[n] = Absent /\ baks'[n] = IF Exists(n) THEN files[n] ELSE baks[n]
      /\ \A m \in Names : m # n => files'[m] = files[m] /\ baks'[m] = baks[m]
  BY <1>0, <1>1, FormsAndNames DEF Types
<1>3. /\ files' \in [Names -> Content \cup {Absent}]
      /\ baks' \in [Names -> Content \cup {Absent}]
  BY <1>0, <1>1 DEF Types
<1>4. \A m \in Names : Exists(m)' => Exists(m) /\ files'[m] = files[m]
  BY <1>2 DEF Exists
<1>5. InStep(w, w)'
  BY <1>0, <1>1, <1>2 DEF InStep
<1>6. InitAlone(w)' /\ ChangeHoldsKey(w)'
  BY <1>0, <1>1, <1>2, <1>4, FormsAndNames DEF InitAlone, ChangeHoldsKey, Forms
<1>7. OneKey' /\ VaultWrittenOnce'
  BY <1>0, <1>2, <1>4, FormsAndNames DEF OneKey, VaultWrittenOnce
<1>8. VaultKeyOnDisk'
  <2>1. Held("vault")' = Held("vault")
    BY <1>2, FormsAndNames DEF Held
  <2>2. CASE ~Exists(n)
    <3>1. \A m \in Names : files'[m] = files[m] /\ baks'[m] = baks[m]
      BY <1>2, <2>2 DEF Exists
    <3> QED
      BY <1>0, <3>1, FormsAndNames DEF VaultKeyOnDisk, Held, Names, Forms
  <2>3. CASE Exists(n)
    <3>1. \A v \in Held("vault") : Exists("vault") /\ v = files["vault"]
      BY <1>0 DEF Held, VaultWrittenOnce, Exists
    <3>2. \A v \in Held("vault") : files[n].key = v.key
      BY <1>0, <2>3, <3>1 DEF OneKey
    <3>3. files[n] \in Held("age")' \cup Held("txt")'
      BY <1>0, <1>2, <2>3 DEF Held, Exists, Forms
    <3> QED
      BY <2>1, <3>2, <3>3 DEF VaultKeyOnDisk
  <2> QED
    BY <2>2, <2>3
<1> QED
  BY <1>0, <1>1, <1>3, <1>5, <1>6, <1>7, <1>8, Writing DEF Places

\* The renamed identity file: RenameIdentity, and WriteFails after the rename.
LEMMA PutIdentity ==
  ASSUME NEW w, Writer = {w}, IInv(w), pc[w] = "rename",
         Put(Target(op[w]), [key |-> key[w], pass |-> op[w].next]),
         NEW at \in {"idle", "backup vault", "remove"}, pc' = [pc EXCEPT ![w] = at],
         at = "backup vault" => op[w].do = "init",
         at = "remove" => op[w].do \notin {"init", "load"},
         UNCHANGED <<op, saw, key, keys>>
  PROVE  IInv(w)'
<1> PICK n : n = Target(op[w])
  OBVIOUS
<1>0. /\ w \in Process /\ Types /\ InStep(w, w) /\ InitAlone(w)
      /\ ChangeHoldsKey(w) /\ OneKey /\ VaultWrittenOnce
      /\ n \in Forms /\ [key |-> key[w], pass |-> op[w].next] \in Content
  BY AtWriter DEF Process, Content
<1>1. files' = [files EXCEPT ![n] = [key |-> key[w], pass |-> op[w].next]] /\ baks' = baks
  BY DEF Put
<1>2. /\ n \in Names /\ n # "vault" /\ pc'[w] = at
      /\ files'[n] = [key |-> key[w], pass |-> op[w].next]
      /\ \A m \in Names : m # n => files'[m] = files[m]
  BY <1>0, <1>1, FormsAndNames DEF Types
<1>3. /\ files' \in [Names -> Content \cup {Absent}]
      /\ baks' \in [Names -> Content \cup {Absent}]
  BY <1>0, <1>1 DEF Types
<1>4. files'[n].key = key[w] /\ Exists(n)'
  <2> DEFINE c == [key |-> key[w], pass |-> op[w].next]
  <2>1. c \in Content /\ c.key = key[w] /\ c # Absent
    BY <1>0
  <2> HIDE DEF c
  <2>2. files'[n] = c
    BY <1>2 DEF c
  <2> QED
    BY <2>1, <2>2 DEF Exists
<1>5. \A m \in Names : m # n => (Exists(m)' <=> Exists(m))
  BY <1>2 DEF Exists
<1>6. InStep(w, w)'
  BY <1>0, <1>2 DEF InStep
<1>7. op[w].do = "init" => /\ ~Exists("vault")' /\ \A m \in Forms : Exists(m)' => m = n
  BY <1>0, <1>2, <1>5, FormsAndNames DEF InitAlone, Forms
<1>8. InitAlone(w)'
  BY <1>2, <1>4, <1>7 DEF InitAlone
<1>9. ChangeHoldsKey(w)'
  BY <1>2, <1>4 DEF ChangeHoldsKey
<1>10. Exists("vault")' => key[w] = files'["vault"].key
  BY <1>0, <1>2, <1>5, <1>7, FormsAndNames DEF ChangeHoldsKey
<1>11. OneKey'
  <2> SUFFICES ASSUME Exists("vault")', NEW m \in Forms, Exists(m)'
               PROVE  files'[m].key = files'["vault"].key
    BY DEF OneKey
  <2>1. CASE m = n
    BY <2>1, <1>4, <1>10
  <2>2. CASE m # n
    BY <2>2, <1>0, <1>2, <1>5, FormsAndNames DEF OneKey
  <2> QED
    BY <2>1, <2>2
<1>12. VaultWrittenOnce'
  BY <1>0, <1>1 DEF VaultWrittenOnce
<1>13. VaultKeyOnDisk'
  <2>1. \A v \in Held("vault")' : Exists("vault")' /\ v = files'["vault"]
    BY <1>12 DEF Held, VaultWrittenOnce, Exists
  <2>2. files'[n] \in Held("age")' \cup Held("txt")'
    BY <1>0, <1>4 DEF Held, Exists, Forms
  <2> QED
    BY <1>4, <1>10, <2>1, <2>2 DEF VaultKeyOnDisk
<1> QED
  BY <1>3, <1>6, <1>8, <1>9, <1>11, <1>12, <1>13, Writing DEF Places

LEMMA RenameIdentityStep ==
  ASSUME NEW w, Writer = {w}, IInv(w), NEW p \in Process, RenameIdentity(p)
  PROVE  IInv(w)'
<1>0. p = w /\ pc[w] = "rename" /\ Types /\ InStep(w, w)
  BY AtWriter DEF RenameIdentity
<1>1. /\ Put(Target(op[w]), [key |-> key[w], pass |-> op[w].next])
      /\ UNCHANGED <<op, saw, key, keys>>
  BY <1>0 DEF RenameIdentity, counts
<1>2. op[w].do # "load"
  BY <1>0 DEF InStep
<1>3. PICK at \in {"idle", "backup vault", "remove"} :
         /\ pc' = [pc EXCEPT ![w] = at]
         /\ at = "backup vault" => op[w].do = "init"
         /\ at = "remove" => op[w].do # "init"
  <2>1. CASE op[w].do = "init"
    BY <1>0, <2>1 DEF RenameIdentity, AfterIdentity, Proceed
  <2>2. CASE op[w].do = "change"
    BY <1>0, <2>2 DEF RenameIdentity, AfterIdentity, Return
  <2>3. CASE op[w].do \notin {"init", "change"}
    BY <1>0, <2>3 DEF RenameIdentity, AfterIdentity, Proceed
  <2> QED
    BY <2>1, <2>2, <2>3
<1> QED
  BY <1>0, <1>1, <1>2, <1>3, PutIdentity

\* There is no vault to back up.
LEMMA BackupVaultStep ==
  ASSUME NEW w, Writer = {w}, IInv(w), NEW p \in Process, BackupVault(p)
  PROVE  IInv(w)'
<1>0. /\ p = w /\ w \in Process /\ pc[w] = "backup vault" /\ Types /\ InStep(w, w)
      /\ InitAlone(w) /\ ChangeHoldsKey(w) /\ OneKey /\ VaultWrittenOnce
  BY AtWriter DEF BackupVault, At
<1>1. op[w].do = "init"
  BY <1>0 DEF InStep
<1>2. ~Exists("vault")
  BY <1>0, <1>1 DEF InitAlone
<1>3. /\ pc' = [pc EXCEPT ![w] = "rename vault"] /\ UNCHANGED <<op, saw, key, keys>>
      /\ files' = files /\ baks' = baks
  BY <1>0, <1>2, FormsAndNames DEF BackupVault, At, Backup, counts, Types, Exists
<1>4. pc'[w] = "rename vault" /\ keys' \in Keys
  BY <1>0, <1>3 DEF Types
<1>5. InStep(w, w)'
  BY <1>0, <1>1, <1>3, <1>4 DEF InStep
<1>6. InitAlone(w)' /\ ChangeHoldsKey(w)'
  BY <1>0, <1>1, <1>3, <1>4 DEF InitAlone, ChangeHoldsKey, Exists
<1> QED
  BY <1>0, <1>3, <1>4, <1>5, <1>6, Looking DEF Places, dir

\* The renamed vault: RenameVault, and WriteFails after the rename.
LEMMA PutVault ==
  ASSUME NEW w, Writer = {w}, IInv(w), pc[w] = "rename vault",
         Put("vault", [key |-> key[w], pass |-> Plain]),
         pc' = [pc EXCEPT ![w] = "idle"], UNCHANGED <<op, saw, key, keys>>
  PROVE  IInv(w)'
<1> PICK n : n = Target(op[w])
  OBVIOUS
<1>0. /\ w \in Process /\ Types /\ InStep(w, w) /\ InitAlone(w) /\ VaultWrittenOnce
      /\ n \in Forms /\ [key |-> key[w], pass |-> Plain] \in Content
  BY AtWriter DEF Process, Content
<1>1. op[w].do = "init"
  BY <1>0 DEF InStep
<1>2. /\ Exists(n) /\ files[n].key = key[w]
      /\ \A m \in Forms : Exists(m) => m = n
  BY <1>0, <1>1 DEF InitAlone
<1>3. /\ files' = [files EXCEPT !["vault"] = [key |-> key[w], pass |-> Plain]]
      /\ baks' = baks
  BY DEF Put
<1>4. /\ pc'[w] = "idle" /\ files'["vault"].key = key[w]
      /\ \A m \in Forms : files'[m] = files[m]
  BY <1>0, <1>3, FormsAndNames DEF Types
<1>5. /\ files' \in [Names -> Content \cup {Absent}]
      /\ baks' \in [Names -> Content \cup {Absent}]
  BY <1>0, <1>3 DEF Types
<1>6. InStep(w, w)' /\ InitAlone(w)' /\ ChangeHoldsKey(w)'
  BY <1>4 DEF InStep, InitAlone, ChangeHoldsKey
<1>7. OneKey'
  BY <1>0, <1>2, <1>4 DEF OneKey, Exists
<1>8. VaultWrittenOnce'
  BY <1>0, <1>3 DEF VaultWrittenOnce
<1>9. VaultKeyOnDisk'
  <2>1. \A v \in Held("vault")' : v = files'["vault"]
    BY <1>8 DEF Held, VaultWrittenOnce
  <2>2. files'[n] \in Held("age")' \cup Held("txt")' /\ files'[n].key = key[w]
    BY <1>0, <1>2, <1>4 DEF Held, Exists, Forms
  <2> QED
    BY <1>4, <2>1, <2>2 DEF VaultKeyOnDisk
<1> QED
  BY <1>5, <1>6, <1>7, <1>8, <1>9, Writing DEF Places

LEMMA RenameVaultStep ==
  ASSUME NEW w, Writer = {w}, IInv(w), NEW p \in Process, RenameVault(p)
  PROVE  IInv(w)'
<1>0. p = w
  BY AtWriter DEF RenameVault
<1> QED
  BY <1>0, PutVault DEF RenameVault, Return, counts

LEMMA WriteFailsStep ==
  ASSUME NEW w, Writer = {w}, IInv(w), NEW p \in Process, WriteFails(p)
  PROVE  IInv(w)'
<1>0. /\ p = w /\ w \in Process /\ Types
      /\ pc' = [pc EXCEPT ![w] = "idle"] /\ UNCHANGED <<op, saw, key, keys>>
  BY AtWriter DEF WriteFails, Return
<1>1. CASE UNCHANGED dir
  <2>1. pc'[w] = "idle" /\ keys' \in Keys
    BY <1>0 DEF Types
  <2>2. InStep(w, w)' /\ InitAlone(w)' /\ ChangeHoldsKey(w)'
    BY <2>1 DEF InStep, InitAlone, ChangeHoldsKey
  <2> QED
    BY <1>0, <1>1, <2>1, <2>2, Looking DEF Places
<1>2. CASE pc[w] = "rename" /\ Put(Target(op[w]), [key |-> key[w], pass |-> op[w].next])
  BY <1>0, <1>2, PutIdentity
<1>3. CASE pc[w] = "rename vault" /\ Put("vault", [key |-> key[w], pass |-> Plain])
  BY <1>0, <1>3, PutVault
<1> QED
  BY <1>0, <1>1, <1>2, <1>3 DEF WriteFails

\* The other form goes; the one just written stays, and it is the vault's.
LEMMA RemoveOtherStep ==
  ASSUME NEW w, Writer = {w}, IInv(w), NEW p \in Process, RemoveOther(p)
  PROVE  IInv(w)'
<1> PICK n : n = Target(op[w])
  OBVIOUS
<1> PICK o : o = Other(n)
  OBVIOUS
<1>0. /\ p = w /\ w \in Process /\ pc[w] = "remove" /\ Types /\ InStep(w, w)
      /\ ChangeHoldsKey(w) /\ OneKey /\ VaultWrittenOnce
      /\ n \in Forms /\ o \in Forms /\ o # n
  BY AtWriter, FormsAndNames DEF RemoveOther
<1>1. op[w].do # "init"
  BY <1>0 DEF InStep
<1>2. Exists(n)
  BY <1>0, <1>1 DEF ChangeHoldsKey
<1>3. /\ pc' = [pc EXCEPT ![w] = "idle"] /\ UNCHANGED <<op, saw, key, keys>>
      /\ files' = [files EXCEPT ![o] = Absent] /\ baks' = baks
  BY <1>0 DEF RemoveOther, Return, counts
<1>4. /\ pc'[w] = "idle" /\ files'[o] = Absent
      /\ \A m \in Names : m # o => files'[m] = files[m]
  BY <1>0, <1>3, FormsAndNames DEF Types
<1>5. /\ files' \in [Names -> Content \cup {Absent}]
      /\ baks' \in [Names -> Content \cup {Absent}]
  BY <1>0, <1>3 DEF Types
<1>6. InStep(w, w)' /\ InitAlone(w)' /\ ChangeHoldsKey(w)'
  BY <1>4 DEF InStep, InitAlone, ChangeHoldsKey
<1>7. OneKey' /\ VaultWrittenOnce'
  BY <1>0, <1>3, <1>4, FormsAndNames DEF OneKey, VaultWrittenOnce, Exists
<1>8. VaultKeyOnDisk'
  <2>1. \A v \in Held("vault")' : v = files["vault"] /\ Exists("vault")
    BY <1>0, <1>4, <1>7, FormsAndNames DEF Held, VaultWrittenOnce, Exists
  <2>2. files[n] \in Held("age")' \cup Held("txt")'
    BY <1>0, <1>2, <1>4, FormsAndNames DEF Held, Exists, Forms
  <2> QED
    BY <1>0, <1>2, <2>1, <2>2 DEF VaultKeyOnDisk, OneKey
<1> QED
  BY <1>0, <1>3, <1>5, <1>6, <1>7, <1>8, Writing DEF Places

-----------------------------------------------------------------------------
(* Every step *)

LEMMA NextIInv ==
  ASSUME NEW w, Writer = {w}, IInv(w), [Next]_vars
  PROVE  IInv(w)'
<1>1. ASSUME NEW p \in Writer, NEW o \in Ops, Begin(p, o) PROVE IInv(w)'
  BY <1>1, BeginStep DEF Process
<1>2. ASSUME NEW p \in Process, NEW o \in Loads, Begin(p, o) PROVE IInv(w)'
  BY <1>2, BeginStep
<1>3. ASSUME NEW p \in Process, Step(p) PROVE IInv(w)'
  <2>1. "age" \in Forms /\ "txt" \in Forms
    BY DEF Forms
  <2>2. CASE StatAge(p)
    BY <2>1, <2>2, StatStep DEF StatAge
  <2>3. CASE StatTxt(p)
    BY <2>1, <2>3, StatStep DEF StatTxt
  <2>4. CASE StatAgeAgain(p)
    BY <2>1, <2>4, StatStep DEF StatAgeAgain
  <2>5. CASE StatTxtAgain(p)
    BY <2>1, <2>5, StatStep DEF StatTxtAgain
  <2>6. CASE CheckForm(p)
    BY <2>6, CheckFormStep
  <2>7. CASE Open(p)
    BY <2>7, OpenStep
  <2>8. CASE CheckVault(p)
    BY <2>8, CheckVaultStep
  <2>9. CASE BackupIdentity(p)
    BY <2>9, BackupIdentityStep
  <2>10. CASE RenameIdentity(p)
    BY <2>10, RenameIdentityStep
  <2>11. CASE BackupVault(p)
    BY <2>11, BackupVaultStep
  <2>12. CASE RenameVault(p)
    BY <2>12, RenameVaultStep
  <2>13. CASE RemoveOther(p)
    BY <2>13, RemoveOtherStep
  <2> QED
    BY <1>3, <2>2, <2>3, <2>4, <2>5, <2>6, <2>7, <2>8, <2>9, <2>10, <2>11, <2>12,
       <2>13 DEF Step
<1>4. ASSUME NEW p \in Process, WriteFails(p) PROVE IInv(w)'
  BY <1>4, WriteFailsStep
<1>5. ASSUME NEW p \in Process, Kill(p) PROVE IInv(w)'
  BY <1>5, KillStep
<1>6. CASE UNCHANGED vars
  BY <1>6 DEF vars, dir, counts, IInv, Types, InStep, InitAlone, ChangeHoldsKey, OneKey,
     VaultWrittenOnce, VaultKeyOnDisk, Held, Exists
<1> QED
  BY <1>1, <1>2, <1>3, <1>4, <1>5, <1>6 DEF Next

-----------------------------------------------------------------------------
(* A second invariant: whoever is under way has no outcome yet *)

Outcomes ==
    /\ outcome = [p \in Process |-> outcome[p]]
    /\ \A p \in Process : pc[p] = "idle" \/ outcome[p] = "none"

\* One process moves; its outcome changes when it begins and when it ends.
Moved(p) ==
    \E at \in Places :
        /\ pc' = [pc EXCEPT ![p] = at]
        /\ \/ outcome' = outcome /\ pc[p] # "idle"
           \/ outcome' = [outcome EXCEPT ![p] = "none"]
           \/ at = "idle" /\ \E r : outcome' = [outcome EXCEPT ![p] = r]

Acts(p) == (\E o : Begin(p, o)) \/ Step(p) \/ WriteFails(p) \/ Kill(p)

LEMMA NextActs == Next => \E p \in Process : Acts(p)
BY DEF Next, Acts, Process

LEMMA ActsMoves == ASSUME NEW p, Acts(p) PROVE Moved(p)
<1>1. ASSUME NEW o, Begin(p, o) PROVE Moved(p)
  BY <1>1 DEF Begin, At, Moved, Places
<1>2. CASE Step(p)
  <2>1. CASE StatAge(p) \/ StatTxt(p) \/ StatAgeAgain(p) \/ StatTxtAgain(p)
    BY <2>1 DEF StatAge, StatTxt, StatAgeAgain, StatTxtAgain, Stat, At, Moved, Places
  <2>2. CASE CheckForm(p)
    <3>1. CASE op[p].do = "init"
      BY <2>2, <3>1 DEF CheckForm, Proceed, Return, Moved, Places
    <3>2. CASE op[p].do = "load"
      BY <2>2, <3>2 DEF CheckForm, Proceed, Return, Moved, Places
    <3>3. CASE op[p].do \notin {"init", "load"}
      BY <2>2, <3>3 DEF CheckForm, Proceed, Return, Moved, Places
    <3> QED
      BY <3>1, <3>2, <3>3
  <2>3. CASE Open(p)
    BY <2>3 DEF Open, Return, Moved, Places
  <2>4. CASE CheckVault(p)
    BY <2>4 DEF CheckVault, Proceed, Return, Moved, Places
  <2>5. CASE BackupIdentity(p) \/ BackupVault(p)
    BY <2>5 DEF BackupIdentity, BackupVault, Backup, At, Moved, Places
  <2>6. CASE RenameIdentity(p)
    <3>1. CASE op[p].do = "init"
      BY <2>6, <3>1 DEF RenameIdentity, AfterIdentity, Proceed, Moved, Places
    <3>2. CASE op[p].do = "change"
      BY <2>6, <3>2 DEF RenameIdentity, AfterIdentity, Return, Moved, Places
    <3>3. CASE op[p].do \notin {"init", "change"}
      BY <2>6, <3>3 DEF RenameIdentity, AfterIdentity, Proceed, Moved, Places
    <3> QED
      BY <3>1, <3>2, <3>3
  <2>7. CASE RenameVault(p) \/ RemoveOther(p)
    BY <2>7 DEF RenameVault, RemoveOther, Return, Moved, Places
  <2> QED
    BY <1>2, <2>1, <2>2, <2>3, <2>4, <2>5, <2>6, <2>7 DEF Step
<1>3. CASE WriteFails(p) \/ Kill(p)
  BY <1>3 DEF WriteFails, Kill, Return, Moved, Places
<1> QED
  BY <1>1, <1>2, <1>3 DEF Acts

LEMMA NextOutcomes ==
  ASSUME Types, Outcomes, [Next]_vars
  PROVE  Outcomes'
<1>1. ASSUME NEW p \in Process, Moved(p) PROVE Outcomes'
  BY <1>1 DEF Moved, Outcomes, Types
<1> QED
  BY <1>1, NextActs, ActsMoves DEF vars, Outcomes

-----------------------------------------------------------------------------
(* A third invariant: what w has seen stays true until it writes *)

Present == {f \in Forms : Exists(f)}

\* The one form that a change of the passphrase starts from.
Before(o) == IF o.do = "set" THEN "txt" ELSE "age"

LooksHold(w) ==
    pc[w] # "idle" /\ op[w].do \in {"change", "set", "remove"} =>
        /\ pc[w] = "age" => saw[w] = {}
        /\ pc[w] = "txt" => saw[w] = Present \cap {"age"}
        /\ pc[w] = "form" => saw[w] = Present
        /\ pc[w] \in {"age again", "txt again", "open", "backup"} => Present = {Before(op[w])}
        /\ pc[w] = "rename" => Present = {Before(op[w])} \ {Target(op[w])}
        /\ pc[w] = "remove" => Present = Forms

\* While nothing fails, only a change under way leaves another number of forms
\* than one beside the vault.
OneForm(w) ==
    fails = 0 /\ kills = 0 /\ Exists("vault") /\ pc[w] \notin {"rename", "remove"}
        => Exists("age") # Exists("txt")

\* An identity without a passphrase is never backed up, and gone once one is set.
NoPlainLeft(w) ==
    /\ baks["txt"] = Absent
    /\ op[w].do = "set" /\ outcome[w] = "ok" => ~Exists("txt")

FormsInv(w) ==
    /\ fails \in Nat /\ kills \in Nat
    /\ LooksHold(w) /\ OneForm(w) /\ NoPlainLeft(w)

LEMMA InitFormsInv == ASSUME NEW w \in Process, Init PROVE FormsInv(w)
<1>1. \A n \in Names : ~Exists(n) /\ baks[n] = Absent
  BY DEF Init, Exists
<1>2. "vault" \in Names /\ "txt" \in Names /\ pc[w] = "idle" /\ outcome[w] = "none"
  BY DEF Init, Names, Forms
<1> QED
  BY <1>1, <1>2 DEF Init, FormsInv, LooksHold, OneForm, NoPlainLeft

\* What is there, by name.
LEMMA PresentIs ==
  /\ Present = {"age"} <=> Exists("age") /\ ~Exists("txt")
  /\ Present = {"txt"} <=> Exists("txt") /\ ~Exists("age")
  /\ Present = {} <=> ~Exists("txt") /\ ~Exists("age")
  /\ Present = Forms <=> Exists("txt") /\ Exists("age")
BY DEF Present, Forms

LEMMA ChangesOf ==
  ASSUME NEW o \in Ops \cup Loads
  PROVE  /\ o.do \in {"change", "set"} => Target(o) = "age"
         /\ o.do = "remove" => Target(o) = "txt" /\ Other(Target(o)) = "age"
         /\ o.do = "set" => Other(Target(o)) = "txt"
         /\ o.do \in {"change", "set", "remove"} => Wanted(o) = {{Before(o)}}
         /\ o.do \in {"init", "load", "change", "set", "remove"}
<1>1. o.do \in {"init", "load", "change", "set", "remove"}
  BY DEF Ops, Loads
<1>2. /\ o.do \in {"change", "set"} => o.next \in Pass
      /\ o.do = "remove" => o.next = Plain
  BY DEF Ops, Loads
<1>3. Other("age") = "txt" /\ Other("txt") = "age"
  BY DEF Other, Forms
<1> QED
  BY <1>1, <1>2, <1>3 DEF Target, Wanted, Before

\* Who only loads leaves everything of w's alone.
LEMMA OthersStay ==
  ASSUME NEW w, Writer = {w}, IInv(w), Outcomes, NEW p \in Process, p # w, Acts(p)
  PROVE  /\ UNCHANGED <<files, baks>>
         /\ pc'[w] = pc[w] /\ op'[w] = op[w] /\ saw'[w] = saw[w] /\ outcome'[w] = outcome[w]
         /\ fails' = fails /\ (kills' = kills \/ kills' = kills + 1)
<1>1. Types /\ pc[p] \notin {"vault", "backup", "rename", "backup vault", "rename vault", "remove"}
  BY WhoWrites DEF IInv
<1>2. w \in Process
  BY DEF Process
<1>3. \/ \E o : Begin(p, o)
      \/ StatAge(p) \/ StatTxt(p) \/ StatAgeAgain(p) \/ StatTxtAgain(p)
      \/ CheckForm(p) \/ Open(p) \/ Kill(p)
  BY <1>1 DEF Acts, Step, CheckVault, BackupIdentity, RenameIdentity, BackupVault,
     RenameVault, RemoveOther, WriteFails, At
<1>4. /\ UNCHANGED <<files, baks, fails>> /\ (kills' = kills \/ kills' = kills + 1)
      /\ op' = op \/ \E o : op' = [op EXCEPT ![p] = o]
      /\ saw' = saw \/ \E x : saw' = [saw EXCEPT ![p] = x]
  <2>1. CASE \E o : Begin(p, o)
    BY <2>1 DEF Begin, dir, counts
  <2>2. CASE StatAge(p) \/ StatTxt(p) \/ StatAgeAgain(p) \/ StatTxtAgain(p)
    BY <2>2 DEF StatAge, StatTxt, StatAgeAgain, StatTxtAgain, Stat, dir, counts
  <2>3. CASE CheckForm(p)
    BY <2>3 DEF CheckForm, dir, counts
  <2>4. CASE Open(p) \/ Kill(p)
    BY <2>4 DEF Open, Kill, dir, counts
  <2> QED
    BY <1>3, <2>1, <2>2, <2>3, <2>4
<1>5. op'[w] = op[w] /\ saw'[w] = saw[w]
  BY <1>1, <1>2, <1>4 DEF Types
<1>6. pc'[w] = pc[w] /\ outcome'[w] = outcome[w]
  <2>1. \A at : [pc EXCEPT ![p] = at][w] = pc[w]
    BY <1>1, <1>2 DEF Types
  <2>2. \A r : [outcome EXCEPT ![p] = r][w] = outcome[w]
    BY <1>2 DEF Outcomes
  <2>3. PICK at : pc' = [pc EXCEPT ![p] = at]
    BY ActsMoves DEF Moved
  <2>4. outcome' = outcome \/ \E r : outcome' = [outcome EXCEPT ![p] = r]
    BY ActsMoves DEF Moved
  <2> QED
    BY <2>1, <2>2, <2>3, <2>4
<1> QED
  BY <1>4, <1>5, <1>6

\* A step of w that leaves the directory alone, and ends no operation well.
LEMMA LooksOn ==
  ASSUME NEW w, FormsInv(w), UNCHANGED <<files, baks>>,
         fails' \in {fails, fails + 1}, kills' \in {kills, kills + 1},
         \/ pc[w] \notin {"rename", "remove"} \/ ~Exists("vault")
         \/ fails' = fails + 1 \/ kills' = kills + 1,
         LooksHold(w)',
         op'[w].do # "set" \/ outcome'[w] # "ok"
  PROVE  FormsInv(w)'
<1>1. fails' \in Nat /\ kills' \in Nat
  BY DEF FormsInv
<1> QED
  BY <1>1 DEF FormsInv, OneForm, NoPlainLeft, Exists

\* The steps of w that look.
LEMMA LookingKeeps ==
  ASSUME NEW w, Writer = {w}, IInv(w), Outcomes, FormsInv(w),
         \/ \E o \in Ops \cup Loads : Begin(w, o)
         \/ StatAge(w) \/ StatTxt(w) \/ StatAgeAgain(w) \/ StatTxtAgain(w)
         \/ CheckForm(w) \/ Open(w) \/ CheckVault(w) \/ Kill(w)
  PROVE  FormsInv(w)'
<1>0. /\ w \in Process /\ Types /\ InStep(w, w) /\ LooksHold(w) /\ InitAlone(w)
      /\ fails \in Nat /\ kills \in Nat
  BY DEF IInv, FormsInv, Process
<1>1. CASE \E o \in Ops \cup Loads : Begin(w, o)
  <2>1. PICK o \in Ops \cup Loads : Begin(w, o)
    BY <1>1
  <2>2. /\ pc[w] = "idle" /\ pc'[w] = "age" /\ saw'[w] = {} /\ outcome'[w] = "none"
        /\ UNCHANGED <<files, baks, fails, kills>>
    BY <1>0, <2>1 DEF Begin, At, Types, Outcomes, dir, counts
  <2>3. LooksHold(w)'
    BY <2>2 DEF LooksHold
  <2> QED
    BY <2>2, <2>3, LooksOn
<1>2. CASE StatAge(w) \/ StatTxt(w) \/ StatAgeAgain(w) \/ StatTxtAgain(w)
  <2>1. PICK from, at \in Places, form \in Forms :
           /\ At(w, from, at) /\ Stat(w, form)
           /\ <<from, at, form>> \in {<<"age", "txt", "age">>, <<"txt", "form", "txt">>,
                 <<"age again", "txt again", "age">>, <<"txt again", "open", "txt">>}
    BY <1>2 DEF StatAge, StatTxt, StatAgeAgain, StatTxtAgain, Places, Forms
  <2>2. /\ pc[w] = from /\ pc'[w] = at /\ op' = op /\ outcome' = outcome
        /\ saw'[w] = saw[w] \cup {f \in {form} : Exists(f)}
        /\ UNCHANGED <<files, baks, fails, kills>>
    BY <1>0, <2>1 DEF At, Stat, Types, dir, counts
  <2>3. LooksHold(w)'
    <3>1. Present' = Present
      BY <2>2 DEF Present, Exists
    <3>2. CASE from = "age"
      <4>1. at = "txt" /\ form = "age"
        BY <2>1, <3>2
      <4>2. {f \in {form} : Exists(f)} = Present \cap {"age"}
        BY <4>1 DEF Present, Forms
      <4> QED
        BY <1>0, <2>2, <3>1, <3>2, <4>1, <4>2 DEF LooksHold
    <3>3. CASE from = "txt"
      <4>1. at = "form" /\ form = "txt"
        BY <2>1, <3>3
      <4>2. (Present \cap {"age"}) \cup {f \in {form} : Exists(f)} = Present
        BY <4>1 DEF Present, Forms
      <4> QED
        BY <1>0, <2>2, <3>1, <3>3, <4>1, <4>2 DEF LooksHold
    <3>4. CASE from \in {"age again", "txt again"}
      <4>1. at \in {"txt again", "open"}
        BY <2>1, <3>4
      <4> QED
        BY <1>0, <2>2, <3>1, <3>4, <4>1 DEF LooksHold
    <3> QED
      BY <2>1, <3>2, <3>3, <3>4
  <2>4. pc[w] \notin {"idle", "rename", "remove"}
    BY <2>1, <2>2
  <2>5. outcome'[w] # "ok"
    BY <1>0, <2>2, <2>4 DEF Outcomes
  <2> QED
    BY <2>2, <2>3, <2>4, <2>5, LooksOn
<1>3. CASE CheckForm(w)
  <2>1. /\ pc[w] = "form" /\ op' = op /\ UNCHANGED <<files, baks, fails, kills>>
        /\ Present' = Present
    BY <1>3 DEF CheckForm, dir, counts, Present, Exists
  <2>2. op[w] \in Ops \cup Loads
    BY <1>0, <2>1 DEF InStep
  <2>3. PICK at \in {"idle", "vault", "open", "age again"} :
           /\ pc' = [pc EXCEPT ![w] = at]
           /\ op[w].do \in {"change", "set", "remove"} =>
                 at = "idle" \/ (at = "age again" /\ saw[w] \in Wanted(op[w]))
    <3>1. CASE op[w].do = "init"
      BY <1>3, <3>1 DEF CheckForm, Proceed, Return
    <3>2. CASE op[w].do = "load"
      BY <1>3, <3>2 DEF CheckForm, Proceed, Return
    <3>3. CASE op[w].do \notin {"init", "load"}
      <4>1. Proceed(w, saw[w] \in Wanted(op[w]), "age again", "form")
        BY <1>3, <3>3 DEF CheckForm
      <4>2. CASE saw[w] \in Wanted(op[w])
        BY <4>1, <4>2 DEF Proceed
      <4>3. CASE saw[w] \notin Wanted(op[w])
        <5>1. Return(w, "form")
          BY <4>1, <4>3 DEF Proceed
        <5>2. pc' = [pc EXCEPT ![w] = "idle"]
          BY <5>1 DEF Return
        <5> QED
          BY <5>2
      <4> QED
        BY <4>2, <4>3
    <3> QED
      BY <3>1, <3>2, <3>3
  <2>4. pc'[w] = at
    BY <1>0, <2>3 DEF Types
  <2>5. op[w].do \in {"change", "set", "remove"} /\ at = "age again" => Present = {Before(op[w])}
    <3> SUFFICES ASSUME op[w].do \in {"change", "set", "remove"}, at = "age again"
                 PROVE  Present = {Before(op[w])}
      OBVIOUS
    <3>1. saw[w] = Present
      BY <1>0, <2>1 DEF LooksHold
    <3>2. saw[w] \in {{Before(op[w])}}
      BY <2>2, <2>3, ChangesOf
    <3> QED
      BY <3>1, <3>2
  <2>6. LooksHold(w)'
    BY <2>1, <2>3, <2>4, <2>5 DEF LooksHold
  <2>7. outcome'[w] # "ok"
    <3>1. outcome[w] # "ok"
      BY <1>0, <2>1 DEF Outcomes
    <3>2. \/ outcome' = outcome
          \/ outcome' = [outcome EXCEPT ![w] = "exists"]
          \/ outcome' = [outcome EXCEPT ![w] = "form"]
      BY <1>3 DEF CheckForm, Proceed, Return
    <3> QED
      BY <1>0, <3>1, <3>2 DEF Outcomes
  <2> QED
    BY <2>1, <2>6, <2>7, LooksOn
<1>4. CASE Open(w)
  <2>1. /\ pc[w] = "open" /\ op' = op /\ UNCHANGED <<files, baks, fails, kills>>
        /\ Present' = Present
    BY <1>4 DEF Open, dir, counts, Present, Exists
  <2>2. PICK at \in {"idle", "backup"} : pc' = [pc EXCEPT ![w] = at]
    BY <1>4 DEF Open, Return
  <2>3. pc'[w] = at
    BY <1>0, <2>2 DEF Types
  <2>4. LooksHold(w)'
    BY <1>0, <2>1, <2>3 DEF LooksHold
  <2>5. op'[w].do # "set" \/ outcome'[w] # "ok"
    <3> SUFFICES ASSUME op[w].do = "set" PROVE outcome'[w] # "ok"
      BY <2>1
    <3>1. outcome[w] # "ok"
      BY <1>0, <2>1 DEF Outcomes
    <3>2. \/ outcome' = outcome
          \/ \E r \in {"form", "missing", "passphrase"} : outcome' = [outcome EXCEPT ![w] = r]
      BY <1>4 DEF Open, Return
    <3> QED
      BY <1>0, <3>1, <3>2 DEF Outcomes
  <2> QED
    BY <2>1, <2>4, <2>5, LooksOn
<1>5. CASE CheckVault(w)
  <2>1. /\ pc[w] = "vault" /\ op' = op /\ UNCHANGED <<files, baks, fails, kills>>
    BY <1>5 DEF CheckVault, dir
  <2>2. op[w].do = "init"
    BY <1>0, <2>1 DEF InStep
  <2>3. LooksHold(w)'
    BY <2>1, <2>2 DEF LooksHold
  <2> QED
    BY <2>1, <2>2, <2>3, LooksOn
<1>6. CASE Kill(w)
  <2>1. /\ op' = op /\ UNCHANGED <<files, baks, fails>> /\ kills' = kills + 1
        /\ pc'[w] = "idle" /\ outcome'[w] = "killed"
    BY <1>0, <1>6 DEF Kill, Return, Types, Outcomes, dir
  <2>2. LooksHold(w)'
    BY <2>1 DEF LooksHold
  <2> QED
    BY <2>1, <2>2, LooksOn
<1> QED
  BY <1>1, <1>2, <1>3, <1>4, <1>5, <1>6

\* The steps of w that write.
LEMMA BackupKeeps ==
  ASSUME NEW w, Writer = {w}, IInv(w), Outcomes, FormsInv(w),
         BackupIdentity(w) \/ BackupVault(w)
  PROVE  FormsInv(w)'
<1>0. /\ w \in Process /\ Types /\ InStep(w, w) /\ LooksHold(w) /\ InitAlone(w)
      /\ OneForm(w) /\ NoPlainLeft(w) /\ fails \in Nat /\ kills \in Nat
  BY DEF IInv, FormsInv, Process
<1>1. CASE BackupIdentity(w)
  <2> DEFINE n == Target(op[w])
  <2>1. /\ pc[w] = "backup" /\ pc'[w] = "rename" /\ UNCHANGED <<op, outcome, fails, kills>>
        /\ baks' = [baks EXCEPT ![n] = IF Exists(n) THEN files[n] ELSE @]
        /\ files' = [files EXCEPT ![n] = Absent]
    BY <1>0, <1>1 DEF BackupIdentity, Backup, At, Types, counts
  <2>2. n \in Forms /\ op[w] \in Ops \cup Loads /\ op[w].do # "load"
    BY <1>0, <2>1, FormsAndNames DEF InStep
  <2> HIDE DEF n
  <2>3. /\ files'[n] = Absent /\ \A m \in Names : m # n => files'[m] = files[m]
        /\ ~Exists(n) => baks'[n] = baks[n]
        /\ \A m \in Names : m # n => baks'[m] = baks[m]
    BY <1>0, <2>1, <2>2, FormsAndNames DEF Types
  <2>4. n = "txt" => ~Exists("txt")
    <3>1. CASE op[w].do = "init"
      BY <1>0, <2>1, <3>1 DEF InitAlone
    <3>2. CASE op[w].do = "remove"
      <4>1. Present = {Before(op[w])} /\ Before(op[w]) = "age"
        BY <1>0, <2>1, <3>2 DEF LooksHold, Before
      <4> QED
        BY <4>1, PresentIs
    <3>3. CASE op[w].do \in {"change", "set"}
      BY <2>2, <3>3, ChangesOf DEF n
    <3> QED
      BY <2>2, <3>1, <3>2, <3>3, ChangesOf
  <2>5. Present' = Present \ {n}
    BY <2>2, <2>3, FormsAndNames DEF Present, Exists
  <2>6. LooksHold(w)'
    <3> SUFFICES ASSUME op[w].do \in {"change", "set", "remove"}
                 PROVE  Present' = {Before(op[w])} \ {n}
      BY <2>1 DEF LooksHold, n
    <3>1. Present = {Before(op[w])}
      BY <1>0, <2>1 DEF LooksHold
    <3> QED
      BY <2>5, <3>1
  <2>7. OneForm(w)'
    BY <2>1 DEF OneForm
  <2>8. baks'["txt"] = Absent
    BY <1>0, <2>2, <2>3, <2>4 DEF NoPlainLeft, Names, Forms
  <2>9. outcome'[w] # "ok"
    BY <1>0, <2>1 DEF Outcomes
  <2> QED
    BY <1>0, <2>1, <2>6, <2>7, <2>8, <2>9 DEF FormsInv, NoPlainLeft
<1>2. CASE BackupVault(w)
  <2>1. /\ pc[w] = "backup vault" /\ op' = op /\ outcome' = outcome
        /\ UNCHANGED <<fails, kills>>
        /\ pc'[w] = "rename vault"
    BY <1>0, <1>2 DEF BackupVault, Backup, At, Types, counts
  <2>2. op[w].do = "init"
    BY <1>0, <2>1 DEF InStep
  <2>3. ~Exists("vault")
    BY <1>0, <2>1, <2>2 DEF InitAlone
  <2>4. files' = files /\ baks' = baks
    BY <1>0, <1>2, <2>3, FormsAndNames DEF BackupVault, Backup, Types, Exists
  <2>5. LooksHold(w)'
    BY <2>1, <2>2 DEF LooksHold
  <2> QED
    BY <2>1, <2>2, <2>4, <2>5, LooksOn
<1> QED
  BY <1>1, <1>2

\* The identity file is there, under its name: RenameIdentity, and WriteFails
\* after the rename.
LEMMA Renamed ==
  ASSUME NEW w, Writer = {w}, IInv(w), FormsInv(w), pc[w] = "rename",
         Put(Target(op[w]), [key |-> key[w], pass |-> op[w].next])
  PROVE  /\ baks' = baks /\ (Exists("vault")' <=> Exists("vault"))
         /\ Present' = Present \cup {Target(op[w])}
<1> DEFINE n == Target(op[w])
           c == [key |-> key[w], pass |-> op[w].next]
<1>0. /\ w \in Process /\ Types /\ n \in Forms /\ op[w] \in Ops \cup Loads
  BY FormsAndNames DEF IInv, InStep, Process
<1>1. c \in Content /\ c # Absent
  <2>1. op[w].next \in Pass \cup {Plain}
    BY <1>0 DEF Ops, Loads
  <2>2. c \in Content
    BY <1>0, <2>1 DEF Types, Content
  <2> QED
    BY <2>2
<1> HIDE DEF n, c
<1>2. files' = [files EXCEPT ![n] = c] /\ baks' = baks
  BY DEF Put, n, c
<1>3. files'[n] = c /\ \A m \in Names : m # n => files'[m] = files[m]
  BY <1>0, <1>2, FormsAndNames DEF Types
<1>4. Present' = Present \cup {n}
  BY <1>0, <1>1, <1>3, FormsAndNames DEF Present, Exists
<1> QED
  BY <1>0, <1>2, <1>3, <1>4, FormsAndNames DEF n, Exists

LEMMA RenameIdentityKeeps ==
  ASSUME NEW w, Writer = {w}, IInv(w), Outcomes, FormsInv(w), RenameIdentity(w)
  PROVE  FormsInv(w)'
<1>0. /\ w \in Process /\ Types /\ InStep(w, w) /\ LooksHold(w) /\ InitAlone(w)
      /\ OneForm(w) /\ NoPlainLeft(w) /\ fails \in Nat /\ kills \in Nat
  BY DEF IInv, FormsInv, Process
<1>1. /\ pc[w] = "rename" /\ UNCHANGED <<op, fails, kills>>
      /\ Put(Target(op[w]), [key |-> key[w], pass |-> op[w].next]) /\ AfterIdentity(w)
  BY DEF RenameIdentity, counts
<1>2. /\ baks' = baks /\ (Exists("vault")' <=> Exists("vault"))
      /\ Present' = Present \cup {Target(op[w])}
  BY <1>1, Renamed
<1>3. op[w] \in Ops \cup Loads /\ op[w].do # "load" /\ outcome[w] # "ok"
  BY <1>0, <1>1 DEF InStep, Outcomes
<1>4. CASE op[w].do = "init"
  <2>1. pc'[w] = "backup vault" /\ outcome' = outcome
    BY <1>0, <1>1, <1>4 DEF AfterIdentity, Proceed, Types
  <2>2. ~Exists("vault")'
    BY <1>0, <1>1, <1>2, <1>4 DEF InitAlone
  <2> QED
    BY <1>0, <1>1, <1>2, <1>4, <2>1, <2>2 DEF FormsInv, LooksHold, OneForm, NoPlainLeft
<1>5. CASE op[w].do = "change"
  <2>1. pc'[w] = "idle"
    BY <1>0, <1>1, <1>5 DEF AfterIdentity, Return, Types
  <2>2. Present' = {"age"}
    <3>1. Target(op[w]) = "age"
      BY <1>3, <1>5, ChangesOf
    <3>2. Before(op[w]) = "age"
      BY <1>5 DEF Before
    <3>3. Present = {Before(op[w])} \ {Target(op[w])}
      BY <1>0, <1>1, <1>5 DEF LooksHold
    <3> QED
      BY <1>2, <3>1, <3>2, <3>3
  <2>3. Exists("age")' /\ ~Exists("txt")'
    BY <2>2 DEF Present, Forms
  <2> QED
    BY <1>0, <1>1, <1>2, <1>5, <2>1, <2>3 DEF FormsInv, LooksHold, OneForm, NoPlainLeft
<1>6. CASE op[w].do \in {"set", "remove"}
  <2>1. pc'[w] = "remove" /\ outcome' = outcome
    BY <1>0, <1>1, <1>6 DEF AfterIdentity, Proceed, Types
  <2>2. Present' = Forms
    <3>1. Target(op[w]) = (IF op[w].do = "set" THEN "age" ELSE "txt")
      BY <1>3, <1>6, ChangesOf
    <3>2. Before(op[w]) = (IF op[w].do = "set" THEN "txt" ELSE "age")
      BY <1>6 DEF Before
    <3>3. Present = {Before(op[w])} \ {Target(op[w])}
      BY <1>0, <1>1, <1>6 DEF LooksHold
    <3> QED
      BY <1>2, <3>1, <3>2, <3>3 DEF Forms
  <2> QED
    BY <1>0, <1>1, <1>2, <1>3, <1>6, <2>1, <2>2 DEF FormsInv, LooksHold, OneForm, NoPlainLeft
<1> QED
  BY <1>3, <1>4, <1>5, <1>6, ChangesOf

LEMMA RenameVaultKeeps ==
  ASSUME NEW w, Writer = {w}, IInv(w), Outcomes, FormsInv(w), pc[w] = "rename vault",
         Put("vault", [key |-> key[w], pass |-> Plain]), UNCHANGED op,
         pc'[w] = "idle", fails' = fails, kills' = kills
  PROVE  FormsInv(w)'
<1>0. /\ w \in Process /\ Types /\ InStep(w, w) /\ InitAlone(w)
      /\ NoPlainLeft(w) /\ fails \in Nat /\ kills \in Nat
  BY DEF IInv, FormsInv, Process
<1>1. op[w].do = "init"
  BY <1>0 DEF InStep
<1>2. /\ baks' = baks /\ \A m \in Forms : files'[m] = files[m]
  BY <1>0, FormsAndNames DEF Put, Types
<1>3. Exists("age") # Exists("txt")
  <2>1. Target(op[w]) \in Forms /\ Exists(Target(op[w]))
        /\ \A n \in Forms : Exists(n) => n = Target(op[w])
    BY <1>0, <1>1, FormsAndNames DEF InitAlone
  <2> QED
    BY <2>1 DEF Forms, Exists
<1>4. Exists("age")' # Exists("txt")'
  BY <1>2, <1>3 DEF Forms, Exists
<1>5. LooksHold(w)' /\ OneForm(w)'
  BY <1>4 DEF LooksHold, OneForm
<1>6. NoPlainLeft(w)'
  <2>1. baks'["txt"] = Absent
    BY <1>0, <1>2 DEF NoPlainLeft
  <2>2. op'[w].do # "set"
    BY <1>1
  <2> QED
    BY <2>1, <2>2 DEF NoPlainLeft
<1>7. fails' \in Nat
  BY <1>0
<1>8. kills' \in Nat
  BY <1>0
<1> QED
  BY <1>5, <1>6, <1>7, <1>8 DEF FormsInv

LEMMA RemoveOtherKeeps ==
  ASSUME NEW w, Writer = {w}, IInv(w), Outcomes, FormsInv(w), RemoveOther(w)
  PROVE  FormsInv(w)'
<1> PICK n : n = Target(op[w])
  OBVIOUS
<1> PICK o : o = Other(n)
  OBVIOUS
<1>0. /\ w \in Process /\ Types /\ InStep(w, w) /\ LooksHold(w)
      /\ NoPlainLeft(w) /\ fails \in Nat /\ kills \in Nat
      /\ n \in Forms /\ o \in Forms /\ o # n
  BY FormsAndNames DEF IInv, FormsInv, Process
<1>1. /\ pc[w] = "remove" /\ pc'[w] = "idle" /\ baks' = baks
      /\ files' = [files EXCEPT ![o] = Absent]
      /\ UNCHANGED <<op, fails, kills>>
  BY <1>0 DEF RemoveOther, Return, Types, counts
<1>2. op[w] \in Ops \cup Loads /\ op[w].do \notin {"init", "load"}
  BY <1>0, <1>1 DEF InStep
<1>3. Exists("age") /\ Exists("txt")
  <2>1. op[w].do \in {"change", "set", "remove"}
    BY <1>2, ChangesOf
  <2> QED
    BY <1>0, <1>1, <2>1, PresentIs DEF LooksHold
<1>4. op[w].do = "set" => o = "txt"
  BY <1>2, ChangesOf
<1>5. Exists(n)
  BY <1>0, <1>3 DEF Forms
<1>6. files'[o] = Absent /\ files'[n] = files[n]
  BY <1>0, <1>1, FormsAndNames DEF Types
<1>7. ~Exists(o)' /\ Exists(n)'
  BY <1>5, <1>6 DEF Exists
<1>8. Exists("age")' # Exists("txt")'
  <2>1. CASE n = "age" /\ o = "txt"
    BY <1>7, <2>1
  <2>2. CASE n = "txt" /\ o = "age"
    BY <1>7, <2>2
  <2> QED
    BY <1>0, <2>1, <2>2 DEF Forms
<1>9. LooksHold(w)' /\ OneForm(w)'
  BY <1>1, <1>8 DEF LooksHold, OneForm
<1>10. NoPlainLeft(w)'
  BY <1>0, <1>1, <1>4, <1>7 DEF NoPlainLeft
<1> QED
  BY <1>0, <1>1, <1>9, <1>10 DEF FormsInv

LEMMA WriteFailsKeeps ==
  ASSUME NEW w, Writer = {w}, IInv(w), Outcomes, FormsInv(w), WriteFails(w)
  PROVE  FormsInv(w)'
<1>0. /\ w \in Process /\ Types /\ NoPlainLeft(w) /\ fails \in Nat /\ kills \in Nat
  BY DEF IInv, FormsInv, Process
<1>1. /\ pc'[w] = "idle" /\ outcome'[w] = "failed" /\ UNCHANGED <<op, kills>>
      /\ fails' = fails + 1
  BY <1>0 DEF WriteFails, Return, Types, Outcomes
<1>2. LooksHold(w)'
  BY <1>1 DEF LooksHold
<1>3. OneForm(w)'
  BY <1>0, <1>1 DEF OneForm
<1>4. baks' = baks
  BY DEF WriteFails, Put, dir
<1> QED
  BY <1>0, <1>1, <1>2, <1>3, <1>4 DEF FormsInv, NoPlainLeft

LEMMA NextFormsInv ==
  ASSUME NEW w, Writer = {w}, IInv(w), Outcomes, FormsInv(w), [Next]_vars
  PROVE  FormsInv(w)'
<1>0. w \in Process
  BY DEF Process
<1>1. ASSUME NEW p \in Process, p # w, Acts(p) PROVE FormsInv(w)'
  <2>1. /\ UNCHANGED <<files, baks>>
        /\ pc'[w] = pc[w] /\ op'[w] = op[w] /\ saw'[w] = saw[w] /\ outcome'[w] = outcome[w]
        /\ fails' = fails /\ (kills' = kills \/ kills' = kills + 1)
    BY <1>1, OthersStay
  <2>2. LooksHold(w)' /\ NoPlainLeft(w)'
    BY <2>1 DEF FormsInv, LooksHold, NoPlainLeft, Present, Exists
  <2>3. OneForm(w)' /\ fails' \in Nat /\ kills' \in Nat
    BY <2>1 DEF FormsInv, OneForm, Exists
  <2> QED
    BY <2>2, <2>3 DEF FormsInv
<1>2. CASE \E o \in Ops \cup Loads : Begin(w, o)
  BY <1>2, LookingKeeps
<1>3. CASE Step(w)
  <2>1. CASE StatAge(w) \/ StatTxt(w) \/ StatAgeAgain(w) \/ StatTxtAgain(w)
             \/ CheckForm(w) \/ Open(w) \/ CheckVault(w)
    BY <2>1, LookingKeeps
  <2>2. CASE BackupIdentity(w) \/ BackupVault(w)
    BY <2>2, BackupKeeps
  <2>3. CASE RenameIdentity(w)
    BY <2>3, RenameIdentityKeeps
  <2>4. CASE RenameVault(w)
    <3>1. pc'[w] = "idle"
      BY <1>0, <2>4 DEF RenameVault, Return, IInv, Types
    <3> QED
      BY <2>4, <3>1, RenameVaultKeeps DEF RenameVault, counts
  <2>5. CASE RemoveOther(w)
    BY <2>5, RemoveOtherKeeps
  <2> QED
    BY <1>3, <2>1, <2>2, <2>3, <2>4, <2>5 DEF Step
<1>4. CASE WriteFails(w)
  BY <1>4, WriteFailsKeeps
<1>5. CASE Kill(w)
  BY <1>5, LookingKeeps
<1>6. CASE UNCHANGED vars
  BY <1>6 DEF vars, dir, counts, FormsInv, LooksHold, OneForm, NoPlainLeft, Present, Exists
<1>7. Next => \/ \E p \in Process : p # w /\ Acts(p)
              \/ \E o \in Ops \cup Loads : Begin(w, o)
              \/ Step(w) \/ WriteFails(w) \/ Kill(w)
  BY DEF Next, Acts, Process
<1> QED
  BY <1>1, <1>2, <1>3, <1>4, <1>5, <1>6, <1>7

-----------------------------------------------------------------------------
(* Theorems *)

THEOREM InvariantHolds ==
  ASSUME NEW w, Writer = {w}
  PROVE  Spec => []IInv(w)
<1>1. Init => IInv(w)
  BY InitIInv
<1>2. IInv(w) /\ [Next]_vars => IInv(w)'
  BY NextIInv
<1> QED
  BY <1>1, <1>2, PTL DEF Spec

\* Whatever fails or is killed, init (setup.go:20-52) and the changes of the
\* passphrase (setup.go:54-97) leave the identity that opens the vault on the
\* disk, in one of the four identity files.
THEOREM VaultKeyStays ==
  ASSUME NEW w, Writer = {w}
  PROVE  Spec => []VaultKeyOnDisk
<1>1. IInv(w) => VaultKeyOnDisk
  BY DEF IInv
<1> QED
  BY <1>1, InvariantHolds, PTL

\* Load (identity.go) never returns another identity than the vault's, however
\* its looks at the directory fall between the steps of a change.
THEOREM LoadIsVaultKey ==
  ASSUME NEW w, Writer = {w}
  PROVE  Spec => LoadsVaultKey
<1> DEFINE A == \A p \in Process :
          op[p].do = "load" /\ pc[p] = "open" /\ outcome'[p] = "ok"
              => \A v \in Held("vault") : v.key = key'[p]
<1>1. Init => Outcomes
  BY DEF Init, Outcomes
<1>2. IInv(w) /\ Outcomes /\ [Next]_vars => Outcomes'
  BY NextOutcomes DEF IInv
<1>3. IInv(w) /\ Outcomes /\ [Next]_vars => [A]_vars
  <2> SUFFICES ASSUME IInv(w), Outcomes, Next, NEW p \in Process, op[p].do = "load",
                      pc[p] = "open", outcome'[p] = "ok", NEW v \in Held("vault")
               PROVE  v.key = key'[p]
    OBVIOUS
  <2>1. Exists("vault") /\ v = files["vault"]
    BY DEF IInv, VaultWrittenOnce, Held, Exists
  <2>2. outcome[p] = "none" /\ \A r : [outcome EXCEPT ![p] = r][p] = r
    BY DEF Outcomes
  <2>3. ASSUME NEW q \in Process, q # p, Moved(q) PROVE FALSE
    BY <2>2, <2>3 DEF Moved, Outcomes
  <2>4. Acts(p)
    BY <2>3, NextActs, ActsMoves
  <2>5. ~(\E o : Begin(p, o)) /\ ~WriteFails(p) /\ ~Kill(p)
    BY <2>2 DEF Begin, At, WriteFails, Kill, Return
  <2>6. Open(p)
    BY <2>4, <2>5 DEF Acts, Step, StatAge, StatTxt, StatAgeAgain, StatTxtAgain, At,
       CheckForm, CheckVault, BackupIdentity, RenameIdentity, BackupVault, RenameVault,
       RemoveOther
  <2>7. ~OpenFails(p)
    BY <2>2 DEF OpenFails
  <2> QED
    BY <2>1, <2>6, <2>7, Opened
<1> QED
  BY <1>1, <1>2, <1>3, InvariantHolds, PTL DEF Spec, LoadsVaultKey

\* setup.go:72-97: where nothing failed an initialised directory holds one
\* identity in one form, which opens the vault; and after a passphrase has been
\* set no file, nor a backup, holds the identity without one.
THEOREM OneFormLeft ==
  ASSUME NEW w, Writer = {w}
  PROVE  Spec => []SuccessLeavesOneForm
<1>1. Init => Outcomes /\ FormsInv(w)
  <2>1. Init => Outcomes
    BY DEF Init, Outcomes
  <2>2. w \in Process
    BY DEF Process
  <2> QED
    BY <2>1, <2>2, InitFormsInv
<1>2. IInv(w) /\ Outcomes /\ FormsInv(w) /\ [Next]_vars => Outcomes' /\ FormsInv(w)'
  BY NextOutcomes, NextFormsInv DEF IInv
<1>3. IInv(w) /\ FormsInv(w) => SuccessLeavesOneForm
  <2> SUFFICES ASSUME IInv(w), FormsInv(w) PROVE SuccessLeavesOneForm
    OBVIOUS
  <2>1. w \in Process /\ baks["vault"] = Absent /\ baks["txt"] = Absent
    BY DEF IInv, VaultWrittenOnce, FormsInv, NoPlainLeft, Process
  <2>2. Held("vault") # {} => Exists("vault")
    BY <2>1 DEF Held, Exists
  <2>3. AllIdle /\ fails = 0 /\ kills = 0 /\ Exists("vault") => Exists("age") # Exists("txt")
    BY <2>1 DEF AllIdle, FormsInv, OneForm
  <2>4. Exists("vault") => \A n \in Forms : Exists(n) => files[n].key = files["vault"].key
    BY DEF IInv, OneKey
  <2>5. op[w].do = "set" /\ outcome[w] = "ok" => Held("txt") = {}
    BY <2>1 DEF FormsInv, NoPlainLeft, Held, Exists
  <2> QED
    BY <2>2, <2>3, <2>4, <2>5 DEF SuccessLeavesOneForm
<1> QED
  BY <1>1, <1>2, <1>3, InvariantHolds, PTL DEF Spec
=============================================================================

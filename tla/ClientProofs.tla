---------------------------- MODULE ClientProofs ----------------------------
(***************************************************************************)
(* Theorems about the daemon's clients.                                    *)
(*                                                                         *)
(* Clients, for any number of processes, any commands and names: import,   *)
(* export and exec do all or fail, --no-overwrite replaces nothing that    *)
(* was there, and what a credential helper has stored it finds again.      *)
(*                                                                         *)
(* Calls, for any number of calls, whatever the callers set out to do, and *)
(* any number of daemons: no copy of a secret is left behind, an answered  *)
(* store is lost only to another daemon, and what a caller is told is the  *)
(* truth, that is, Calls implements Promise.                               *)
(***************************************************************************)
EXTENDS Calls, Clients, FiniteSetTheorems, WellFoundedInduction, TLAPS

-----------------------------------------------------------------------------
(* Clients: what holds of each process at each of its calls *)

\* What a command has handled of its names: stored, or skipped.
Finished(c) == wrote[c] \cup IF cmd[c].guard THEN DOMAIN listed[c] ELSE {}

Asked(c) ==
    /\ \/ cmd[c] = Idle /\ next[c] = "done" /\ wrote[c] = {}
       \/ cmd[c] \in Commands /\ serial.of[c] \in 1 .. MaxCommands
    /\ kept[c] \subseteq DOMAIN secrets

\* What --no-overwrite is still to store was not there when it began.
Keeps(c) ==
    cmd[c].guard =>
        /\ wrote[c] \cap kept[c] = {}
        /\ next[c] = "write" => \A i \in DOMAIN todo[c] : todo[c][i] \notin kept[c]

Exports(c) ==
    Op(c) = "export" =>
        /\ next[c] \in {"list", "get", "done"}
        /\ next[c] = "get" =>
              \A n \in kept[c] : n \in DOMAIN got[c] \/ \E i \in DOMAIN todo[c] : todo[c][i] = n
        /\ Succeeded(c) => kept[c] \subseteq DOMAIN got[c]

Execs(c) ==
    Op(c) = "exec" =>
        /\ next[c] \in {"get", "done"}
        /\ next[c] = "get" =>
              \A i \in DOMAIN cmd[c].names :
                  \/ cmd[c].names[i] \in DOMAIN got[c] \/ missing[c]
                  \/ i \in DOMAIN todo[c] /\ todo[c][i] = cmd[c].names[i]
        /\ Succeeded(c) => \A i \in DOMAIN cmd[c].names : cmd[c].names[i] \in DOMAIN got[c]

\* An import has handled its names up to the one it has come to.
Imports(c) ==
    Op(c) = "import" =>
        /\ next[c] \in {"list", "write", "done"}
        /\ next[c] = "list" => cmd[c].guard /\ wrote[c] = {}
        /\ \A i, j \in DOMAIN cmd[c].names :
              i < j /\ cmd[c].names[j] \in wrote[c] => cmd[c].names[i] \in Finished(c)
        /\ next[c] = "write" =>
              /\ \A i \in DOMAIN todo[c] :
                     /\ i \in DOMAIN cmd[c].names /\ todo[c][i] = cmd[c].names[i]
                     /\ todo[c][i] \notin wrote[c]
              /\ \A i \in DOMAIN cmd[c].names :
                     cmd[c].names[i] \in Finished(c) \/ i \in DOMAIN todo[c]
        /\ Succeeded(c) => \A i \in DOMAIN cmd[c].names : cmd[c].names[i] \in Finished(c)

\* The one name a helper is to store is that of the match, or a new one.
Chosen(c, n) ==
    \/ Picked(c, listed[c]) = {n}
    \/ Picked(c, listed[c]) = {} /\ n = NewName(c)

Answered(c) ==
    \E n \in wrote[c] : Picked(c, secrets) = {n} /\ secrets[n].value = serial.of[c]

Helps(c) ==
    Op(c) \in {"git store", "docker store"} =>
        /\ next[c] \in {"list", "write", "done"}
        /\ next[c] \in {"list", "write"} => wrote[c] = {}
        /\ next[c] = "write" =>
              /\ DOMAIN todo[c] = {1} /\ Chosen(c, todo[c][1])
              /\ quiet[c] => listed[c] = secrets
        /\ Succeeded(c) /\ quiet[c] /\ wrote[c] # {} => Answered(c)

InTurn(c) == Asked(c) /\ Keeps(c) /\ Exports(c) /\ Execs(c) /\ Imports(c) /\ Helps(c)
ClientsIInv == ClientsTypeOK /\ \A c \in Client : InTurn(c)

-----------------------------------------------------------------------------
(* Names by position *)

Below == {p \in Nat \X Nat : p[1] < p[2]}

LEMMA BelowIsWellFounded == IsWellFoundedOn(Below, Nat)
BY NatLessThanWellFounded DEF OpToRel, Below

LEMMA Least ==
  ASSUME NEW S \in SUBSET Nat, S # {}
  PROVE  Min(S) \in S /\ \A i \in S : Min(S) <= i
<1>1. PICK x \in S : \A y \in S : ~ (<<y, x>> \in Below)
  BY BelowIsWellFounded, WFMin
<1>2. \A y \in S : x <= y
  <2> TAKE y \in S
  <2>1. x \in Nat /\ y \in Nat /\ ~ (<<y, x>> \in Below)
    BY <1>1
  <2>2. ~ (y < x)
    BY <2>1 DEF Below
  <2> QED
    BY <2>1, <2>2
<1> QED
  BY <1>2 DEF Min

LEMMA FrontIs ==
  ASSUME ClientsTypeOK, NEW c \in Client, DOMAIN todo[c] # {}
  PROVE  /\ Front(c) \in DOMAIN todo[c] /\ \A i \in DOMAIN todo[c] : Front(c) <= i
         /\ Front(c) \in Nat
         /\ Name(c) = todo[c][Front(c)] /\ Name(c) \in Names
         /\ DOMAIN Rest(c) = DOMAIN todo[c] \ {Front(c)}
         /\ \A i \in DOMAIN todo[c] \ {Front(c)} : Rest(c)[i] = todo[c][i]
<1>1. DOMAIN todo[c] \in SUBSET Nat /\ \A i \in DOMAIN todo[c] : todo[c][i] \in Names
  BY DEF ClientsTypeOK
<1>2. Front(c) \in DOMAIN todo[c] /\ \A i \in DOMAIN todo[c] : Front(c) <= i
  BY <1>1, Least DEF Front
<1> QED
  BY <1>1, <1>2 DEF Name, Rest

LEMMA PartIs ==
  ASSUME NEW names \in Seq(Names), NEW S
  PROVE  /\ DOMAIN Part(names, S) = {i \in DOMAIN names : names[i] \in S}
         /\ DOMAIN Part(names, S) \subseteq Nat
         /\ \A i \in DOMAIN Part(names, S) :
                i \in DOMAIN names /\ Part(names, S)[i] = names[i] /\ names[i] \in Names
<1>1. DOMAIN names \subseteq Nat /\ \A i \in DOMAIN names : names[i] \in Names
  OBVIOUS
<1> QED
  BY <1>1 DEF Part

-----------------------------------------------------------------------------
(* Matching *)

LEMMA ScoreIs ==
  ASSUME NEW s
  PROVE  Score(s) \in 0 .. 2
<1> DEFINE F == {f \in Optional : s[f] # None}
<1>1. IsFiniteSet(Optional) /\ Cardinality(Optional) <= 2
  <2>1. IsFiniteSet({"user"}) /\ Cardinality({"user"}) = 1 /\ Optional = {"user"} \cup {"path"}
    BY FS_Singleton DEF Optional
  <2>2. IsFiniteSet(Optional)
    BY <2>1, FS_AddElement
  <2>3. Cardinality({"user"} \cup {"path"}) = Cardinality({"user"}) + 1
    BY <2>1, FS_AddElement
  <2> QED
    BY <2>1, <2>2, <2>3
<1>2. IsFiniteSet(F) /\ Cardinality(F) <= Cardinality(Optional)
  BY <1>1, FS_Subset
<1>3. Cardinality(F) \in Nat /\ Cardinality(Optional) \in Nat
  BY <1>1, <1>2, FS_CardinalityType
<1> QED
  BY <1>1, <1>2, <1>3 DEF Score

LEMMA MaxIs ==
  ASSUME NEW S \in SUBSET (0 .. 2), S # {}
  PROVE  Max(S) \in S /\ \A i \in S : i <= Max(S)
<1>1. \E x \in S : \A y \in S : x >= y
  <2>1. CASE 2 \in S
    BY <2>1
  <2>2. CASE 2 \notin S /\ 1 \in S
    BY <2>2
  <2>3. CASE 2 \notin S /\ 1 \notin S
    <3>1. \A y \in S : y = 0
      BY <2>3
    <3>2. PICK x \in S : TRUE
      OBVIOUS
    <3>3. \A y \in S : x >= y
      BY <3>1, <3>2
    <3> QED
      BY <3>3
  <2> QED
    BY <2>1, <2>2, <2>3
<1>2. Max(S) \in S /\ \A y \in S : Max(S) >= y
  BY <1>1 DEF Max
<1> QED
  BY <1>2

\* The names that git's request may mean, and the best score among them.
Fitting(table, r) == {n \in DOMAIN table : Agrees(table[n], r)}

LEMMA GitMatchIs ==
  ASSUME NEW table, NEW r
  PROVE  /\ GitMatch(table, r) \subseteq Fitting(table, r)
         /\ \A n \in Fitting(table, r) :
               n \in GitMatch(table, r) <=>
                   \A m \in Fitting(table, r) : Score(table[m]) <= Score(table[n])
         /\ GitMatch(table, r) = {} => Fitting(table, r) = {}
<1> DEFINE fits == Fitting(table, r)
           scores == {Score(table[n]) : n \in fits} \cup {0}
<1>1. scores \in SUBSET (0 .. 2) /\ scores # {}
  BY ScoreIs
<1>2. Max(scores) \in scores /\ \A i \in scores : i <= Max(scores)
  BY <1>1, MaxIs
<1>3. GitMatch(table, r) = {n \in fits : Score(table[n]) = Max(scores)}
  BY DEF GitMatch, Fitting
<1>4. \A n \in fits : Score(table[n]) \in scores /\ Score(table[n]) \in 0 .. 2
  BY ScoreIs
<1>5. fits # {} => \E n \in fits : Score(table[n]) = Max(scores)
  <2>1. CASE Max(scores) = 0
    BY <1>2, <1>4, <2>1
  <2>2. CASE Max(scores) # 0
    BY <1>2, <2>2
  <2> QED
    BY <2>1, <2>2
<1>6. ASSUME NEW n \in fits
      PROVE  Score(table[n]) = Max(scores) <=> \A m \in fits : Score(table[m]) <= Score(table[n])
  <2>1. Score(table[n]) = Max(scores) => \A m \in fits : Score(table[m]) <= Score(table[n])
    BY <1>2, <1>4
  <2>2. ASSUME \A m \in fits : Score(table[m]) <= Score(table[n])
        PROVE  Score(table[n]) = Max(scores)
    <3>1. PICK b \in fits : Score(table[b]) = Max(scores)
      BY <1>5
    <3>2. Score(table[n]) <= Max(scores) /\ Max(scores) <= Score(table[n])
      BY <1>2, <1>4, <2>2, <3>1
    <3> QED
      BY <1>4, <3>1, <3>2
  <2> QED
    BY <2>1, <2>2
<1> QED
  BY <1>3, <1>5, <1>6

\* A table with a record under a name.
With(table, n, s) == [m \in DOMAIN table \cup {n} |-> IF m = n THEN s ELSE table[m]]

\* A record that agrees with the request, where none did.
LEMMA NewMatches ==
  ASSUME NEW table, NEW r, NEW n, NEW s, GitMatch(table, r) = {}, Agrees(s, r)
  PROVE  GitMatch(With(table, n, s), r) = {n}
<1> DEFINE new == With(table, n, s)
<1>1. /\ DOMAIN new = DOMAIN table \cup {n} /\ new[n] = s
      /\ \A m \in DOMAIN new : m # n => m \in DOMAIN table /\ new[m] = table[m]
  BY DEF With
<1>2. Agrees(new[n], r)
  BY <1>1
<1>3. \A m \in DOMAIN table : ~Agrees(table[m], r)
  BY GitMatchIs DEF Fitting
<1>4. Fitting(new, r) = {n}
  BY <1>1, <1>2, <1>3 DEF Fitting
<1>5. Score(new[n]) <= Score(new[n])
  BY ScoreIs
<1> HIDE DEF new
<1>6. n \in GitMatch(new, r) /\ GitMatch(new, r) \subseteq {n}
  BY <1>4, <1>5, GitMatchIs
<1> QED
  BY <1>6 DEF new

\* A match whose attributes have not been changed.
Alike(s, t) == s.kind = t.kind /\ s.host = t.host /\ \A f \in Optional : s[f] = t[f]

LEMMA MatchStays ==
  ASSUME NEW table, NEW r, NEW n, NEW s, GitMatch(table, r) = {n}, Alike(s, table[n])
  PROVE  GitMatch(With(table, n, s), r) = {n}
<1> DEFINE new == With(table, n, s)
<1>1. n \in DOMAIN table
  BY GitMatchIs DEF Fitting
<1>2. /\ DOMAIN new = DOMAIN table
      /\ \A m \in DOMAIN table : new[m] = IF m = n THEN s ELSE table[m]
  BY <1>1 DEF With
<1>3. (Agrees(s, r) <=> Agrees(table[n], r)) /\ Score(s) = Score(table[n])
  <2>1. {f \in Optional : s[f] # None} = {f \in Optional : table[n][f] # None}
    BY DEF Alike
  <2> QED
    BY <2>1 DEF Alike, Agrees, Score
<1>4. \A m \in DOMAIN table : (Agrees(new[m], r) <=> Agrees(table[m], r))
                              /\ Score(new[m]) = Score(table[m])
  BY <1>2, <1>3
<1>5. Fitting(new, r) = Fitting(table, r)
  BY <1>2, <1>4 DEF Fitting
<1>6. \A m \in Fitting(table, r) : m \in DOMAIN table
  BY DEF Fitting
<1> HIDE DEF new
<1>7. \A m \in Fitting(table, r) : m \in GitMatch(new, r) <=> m \in GitMatch(table, r)
  BY <1>4, <1>5, <1>6, GitMatchIs
<1>8. GitMatch(table, r) \subseteq Fitting(table, r) /\ GitMatch(new, r) \subseteq Fitting(new, r)
  BY GitMatchIs
<1> QED
  BY <1>5, <1>7, <1>8 DEF new

\* The same for docker: what the record holds besides does not matter.
LEMMA DockerMatches ==
  ASSUME NEW table, NEW r, NEW n, NEW s, DockerMatch(table, r) \subseteq {n},
         s.kind = "docker" /\ s.host = r.host /\ s.path = r.path
  PROVE  DockerMatch(With(table, n, s), r) = {n}
BY DEF DockerMatch, With

\* What a helper has stored for a request is what the request finds.
OnlyOne(S, n) == S = {n}
NoneYet(S)    == S = {}

LEMMA NewIsFound ==
  ASSUME NEW table, NEW r, NEW n, NEW s, NoneYet(GitMatch(table, r)), Agrees(s, r)
  PROVE  OnlyOne(GitMatch(With(table, n, s), r), n)
BY NewMatches DEF OnlyOne, NoneYet

LEMMA MatchIsFound ==
  ASSUME NEW table, NEW r, NEW n, NEW s, OnlyOne(GitMatch(table, r), n), Alike(s, table[n])
  PROVE  OnlyOne(GitMatch(With(table, n, s), r), n)
BY MatchStays DEF OnlyOne

OfLogin(s, r) == s.kind = "docker" /\ s.host = r.host /\ s.path = r.path

LEMMA DockerIsFound ==
  ASSUME NEW table, NEW r, NEW n, NEW s,
         NoneYet(DockerMatch(table, r)) \/ OnlyOne(DockerMatch(table, r), n),
         OfLogin(s, r)
  PROVE  OnlyOne(DockerMatch(With(table, n, s), r), n)
<1>1. DockerMatch(table, r) \subseteq {n}
  BY DEF OnlyOne, NoneYet
<1> QED
  BY <1>1, DockerMatches DEF OnlyOne, OfLogin

LEMMA GitFinds ==
  ASSUME NEW c \in Client, NEW table, NEW n, NEW s, Op(c) = "git store",
         \/ NoneYet(Picked(c, table)) /\ Agrees(s, Req(c))
         \/ OnlyOne(Picked(c, table), n) /\ Alike(s, table[n])
  PROVE  OnlyOne(Picked(c, With(table, n, s)), n)
<1>1. \A t : Picked(c, t) = GitMatch(t, Req(c))
  BY DEF Picked
<1>2. CASE NoneYet(Picked(c, table)) /\ Agrees(s, Req(c))
  BY <1>1, <1>2, NewIsFound
<1>3. CASE OnlyOne(Picked(c, table), n) /\ Alike(s, table[n])
  BY <1>1, <1>3, MatchIsFound
<1> QED
  BY <1>2, <1>3

LEMMA DockerFinds ==
  ASSUME NEW c \in Client, NEW table, NEW n, NEW s, Op(c) = "docker store",
         NoneYet(Picked(c, table)) \/ OnlyOne(Picked(c, table), n),
         OfLogin(s, Req(c))
  PROVE  OnlyOne(Picked(c, With(table, n, s)), n)
<1>1. \A t : Picked(c, t) = DockerMatch(t, Req(c))
  BY DEF Picked
<1>2. NoneYet(DockerMatch(table, Req(c))) \/ OnlyOne(DockerMatch(table, Req(c)), n)
  BY <1>1
<1>3. OnlyOne(DockerMatch(With(table, n, s), Req(c)), n)
  BY <1>2, DockerIsFound
<1> QED
  BY <1>1, <1>3

-----------------------------------------------------------------------------
(* What a step does to the process that takes it, and to the others *)

Calling == {"done", "list", "get", "write", "delete", "status", "unlock", "report"}

\* The type invariant in two halves: where processes are, and what they hold.
Course ==
    /\ next \in [Client -> Calling] /\ DOMAIN todo = Client
    /\ \A c \in Client :
          /\ DOMAIN todo[c] \subseteq Nat /\ \A i \in DOMAIN todo[c] : todo[c][i] \in Names
          /\ next[c] \in {"get", "write", "delete"} <=> DOMAIN todo[c] # {}
    /\ exit \in [Client -> 0 .. 1] /\ missing \in [Client -> BOOLEAN]

Books ==
    /\ IsTable(secrets) /\ locked \in BOOLEAN /\ fails \in 0 .. MaxFails
    /\ cmd \in [Client -> Commands \cup {Idle}]
    /\ DOMAIN listed = Client /\ DOMAIN got = Client
    /\ \A c \in Client : IsTable(listed[c]) /\ IsTable(got[c])
    /\ quiet \in [Client -> BOOLEAN]
    /\ wrote \in [Client -> SUBSET Names] /\ kept \in [Client -> SUBSET Names]
    /\ serial.all \in 0 .. MaxCommands /\ serial.of \in [Client -> 0 .. serial.all]

LEMMA Halves == ClientsTypeOK <=> Course /\ Books
BY DEF ClientsTypeOK, Course, Books, Calling

\* A process that takes no part in a step, which may yet change the vault.
Waits(d) == next'[d] = next[d] /\ todo'[d] = todo[d] /\ exit'[d] = exit[d] /\ missing'[d] = missing[d]
Retains(d) ==
    /\ cmd'[d] = cmd[d] /\ listed'[d] = listed[d] /\ got'[d] = got[d] /\ wrote'[d] = wrote[d]
    /\ serial'.of[d] = serial.of[d]
Fewer(d) ==
    /\ kept'[d] \subseteq kept[d] /\ kept'[d] \subseteq DOMAIN secrets'
    /\ quiet'[d] => quiet[d] /\ secrets' = secrets

LEMMA InTurnElsewhere ==
  ASSUME NEW d \in Client, InTurn(d), Waits(d), Retains(d), Fewer(d)
  PROVE  InTurn(d)'
<1> USE DEF Waits, Retains, Fewer, Op, Succeeded
<1>1. Asked(d)'
  BY DEF InTurn, Asked
<1>2. Keeps(d)'
  BY DEF InTurn, Keeps
<1>3. Exports(d)' /\ Execs(d)'
  BY DEF InTurn, Exports, Execs
<1>4. Imports(d)'
  BY DEF InTurn, Imports, Finished
<1>5. Helps(d)'
  BY DEF InTurn, Helps, Chosen, Answered, Picked, NewName, Req
<1> QED
  BY <1>1, <1>2, <1>3, <1>4, <1>5 DEF InTurn

\* The vault, and what is known of it, stay as they are.
LEMMA VaultStays ==
  ASSUME NEW d \in Client, InTurn(d), UNCHANGED <<secrets, history>>
  PROVE  Fewer(d)
BY DEF InTurn, Asked, Fewer, history

LEMMA ThenIs ==
  ASSUME Course, NEW c \in Client, NEW call, NEW part, Then(c, call, part),
         call \in {"get", "write", "delete"} \/ DOMAIN part = {},
         DOMAIN part \subseteq Nat, \A i \in DOMAIN part : part[i] \in Names,
         exit' \in [Client -> 0 .. 1], missing' \in [Client -> BOOLEAN]
  PROVE  /\ Course'
         /\ next'[c] = IF DOMAIN part = {} THEN "done" ELSE call
         /\ todo'[c] = part
         /\ \A d \in Client \ {c} : next'[d] = next[d] /\ todo'[d] = todo[d]
<1>1. /\ next' = [next EXCEPT ![c] = IF DOMAIN part = {} THEN "done" ELSE call]
      /\ todo' = [todo EXCEPT ![c] = part]
      /\ next \in [Client -> Calling] /\ DOMAIN todo = Client
  BY DEF Then, Course
<1>2. /\ next'[c] = IF DOMAIN part = {} THEN "done" ELSE call
      /\ todo'[c] = part /\ DOMAIN todo' = Client
      /\ \A d \in Client \ {c} : next'[d] = next[d] /\ todo'[d] = todo[d]
  BY <1>1
<1>3. next' \in [Client -> Calling]
  BY <1>1 DEF Calling
<1>4. ASSUME NEW d \in Client
      PROVE  /\ DOMAIN todo'[d] \subseteq Nat /\ \A i \in DOMAIN todo'[d] : todo'[d][i] \in Names
             /\ next'[d] \in {"get", "write", "delete"} <=> DOMAIN todo'[d] # {}
  <2>1. CASE d = c
    BY <1>2, <2>1
  <2>2. CASE d # c
    BY <1>2, <2>2 DEF Course
  <2> QED
    BY <2>1, <2>2
<1> QED
  BY <1>2, <1>3, <1>4 DEF Course

\* A command ends.
Ended(c, code) == next'[c] = "done" /\ exit'[c] = code /\ \A d \in Client \ {c} : Waits(d)

LEMMA EndsIs ==
  ASSUME Course, NEW c \in Client, NEW code \in 0 .. 1, EndsWith(c, code), UNCHANGED missing
  PROVE  Course' /\ Ended(c, code)
<1>1. Then(c, "done", <<>>) /\ exit' = [exit EXCEPT ![c] = code]
  BY DEF EndsWith
<1>2. DOMAIN <<>> = {}
  OBVIOUS
<1>3. exit' \in [Client -> 0 .. 1] /\ exit'[c] = code /\ \A d \in Client \ {c} : exit'[d] = exit[d]
  BY <1>1 DEF Course
<1>3a. missing' \in [Client -> BOOLEAN]
  BY DEF Course
<1>4. Course' /\ next'[c] = "done" /\ \A d \in Client \ {c} : next'[d] = next[d] /\ todo'[d] = todo[d]
  BY <1>1, <1>2, <1>3, <1>3a, ThenIs
<1> QED
  BY <1>3, <1>4 DEF Ended, Waits

\* A command goes on to its next name; it succeeds after the last one if none
\* was missing.
Advanced(c, lacks) ==
    /\ next'[c] = IF DOMAIN Rest(c) = {} THEN "done" ELSE next[c]
    /\ todo'[c] = Rest(c) /\ missing'[c] = (missing[c] \/ lacks)
    /\ Succeeded(c)' => DOMAIN Rest(c) = {} /\ ~missing'[c]
    /\ \A d \in Client \ {c} : Waits(d)

LEMMA GoOnIs ==
  ASSUME ClientsTypeOK, NEW c \in Client, next[c] \in {"get", "write", "delete"},
         NEW lacks \in BOOLEAN, GoOn(c, lacks)
  PROVE  Course' /\ Advanced(c, lacks)
<1>0. Course /\ DOMAIN todo[c] # {}
  BY Halves DEF Course
<1>1. /\ missing' = [missing EXCEPT ![c] = @ \/ lacks]
      /\ Then(c, next[c], Rest(c))
      /\ exit' = [exit EXCEPT ![c] = IF DOMAIN Rest(c) = {} /\ missing'[c] THEN 1 ELSE 0]
  BY DEF GoOn
<1>2. /\ missing' \in [Client -> BOOLEAN] /\ missing'[c] = (missing[c] \/ lacks)
      /\ \A d \in Client \ {c} : missing'[d] = missing[d]
  BY <1>0, <1>1 DEF Course
<1>3. /\ exit' \in [Client -> 0 .. 1]
      /\ exit'[c] = IF DOMAIN Rest(c) = {} /\ missing'[c] THEN 1 ELSE 0
      /\ \A d \in Client \ {c} : exit'[d] = exit[d]
  BY <1>0, <1>1 DEF Course
<1>4. DOMAIN Rest(c) \subseteq Nat /\ \A i \in DOMAIN Rest(c) : Rest(c)[i] \in Names
  <2>1. /\ DOMAIN todo[c] \subseteq Nat /\ \A i \in DOMAIN todo[c] : todo[c][i] \in Names
    BY <1>0 DEF Course
  <2>2. /\ DOMAIN Rest(c) = DOMAIN todo[c] \ {Front(c)}
        /\ \A i \in DOMAIN todo[c] \ {Front(c)} : Rest(c)[i] = todo[c][i]
    BY <1>0, FrontIs
  <2> QED
    BY <2>1, <2>2
<1>5. /\ Course' /\ todo'[c] = Rest(c)
      /\ next'[c] = IF DOMAIN Rest(c) = {} THEN "done" ELSE next[c]
      /\ \A d \in Client \ {c} : next'[d] = next[d] /\ todo'[d] = todo[d]
  BY <1>0, <1>1, <1>2, <1>3, <1>4, ThenIs
<1>6. Succeeded(c)' => DOMAIN Rest(c) = {} /\ ~missing'[c]
  BY <1>3, <1>5 DEF Succeeded
<1> QED
  BY <1>2, <1>3, <1>5, <1>6 DEF Advanced, Waits

-----------------------------------------------------------------------------
(* Steps that leave the vault alone *)

LEMMA Composed ==
  ASSUME ClientsIInv, NEW c \in Client,
         \A d \in Client \ {c} : Waits(d) /\ Retains(d) /\ Fewer(d),
         Course', Books', InTurn(c)'
  PROVE  ClientsIInv'
<1>1. \A d \in Client \ {c} : InTurn(d)'
  BY InTurnElsewhere DEF ClientsIInv
<1>3. ClientsTypeOK'
  BY Halves, PTL
<1> QED
  BY <1>1, <1>3 DEF ClientsIInv

Special == {"export", "exec", "import", "git store", "docker store"}

\* A command that fails, or of which nothing is said.
LEMMA EndedInTurn ==
  ASSUME ClientsIInv, NEW c \in Client, next[c] # "done",
         NEW code \in 0 .. 1, Ended(c, code), code = 1 \/ Op(c) \notin Special,
         UNCHANGED <<secrets, cmd, listed, got, serial, history>>
  PROVE  InTurn(c)'
<1> USE DEF Op, history
<1>0. InTurn(c) /\ next'[c] = "done" /\ exit'[c] = code
  BY DEF ClientsIInv, Ended
<1>1. Succeeded(c)' => Op(c) \notin Special
  BY <1>0 DEF Succeeded
<1>2. Asked(c)'
  BY <1>0 DEF InTurn, Asked
<1>3. Keeps(c)'
  BY <1>0 DEF InTurn, Keeps
<1>4. Exports(c)' /\ Execs(c)'
  BY <1>0, <1>1 DEF Exports, Execs, Special
<1>5. Imports(c)'
  BY <1>0, <1>1 DEF InTurn, Imports, Finished, Special
<1>6. Helps(c)'
  BY <1>0, <1>1 DEF Helps, Special
<1> QED
  BY <1>2, <1>3, <1>4, <1>5, <1>6 DEF InTurn

LEMMA EndsKeeps ==
  ASSUME ClientsIInv, NEW c \in Client, next[c] # "done",
         NEW code \in 0 .. 1, EndsWith(c, code), code = 1 \/ Op(c) \notin Special,
         UNCHANGED <<secrets, cmd, listed, got, missing, serial, history>>,
         locked' \in BOOLEAN, fails' \in 0 .. MaxFails
  PROVE  ClientsIInv'
<1>0. Course /\ Books /\ \A d \in Client : InTurn(d)
  BY Halves DEF ClientsIInv
<1>1. Course' /\ Ended(c, code)
  BY <1>0, EndsIs
<1>2. Books'
  BY <1>0 DEF Books, history, IsTable
<1>3. InTurn(c)'
  BY <1>1, EndedInTurn
<1>4. \A d \in Client \ {c} : Waits(d) /\ Retains(d) /\ Fewer(d)
  BY <1>0, <1>1, VaultStays DEF Ended, Retains, history
<1> QED
  BY <1>1, <1>2, <1>3, <1>4, Composed

LEMMA RefusedIs ==
  ASSUME ClientsTypeOK, NEW code, Refused(code), UNCHANGED locked
  PROVE  locked' \in BOOLEAN /\ fails' \in 0 .. MaxFails
<1>1. fails \in Nat /\ MaxFails \in Nat /\ locked \in BOOLEAN /\ fails \in 0 .. MaxFails
  BY ClientsAssumption DEF ClientsTypeOK
<1> QED
  BY <1>1 DEF Refused

LEMMA RejectedKeeps ==
  ASSUME ClientsIInv, NEW c \in Client, StoreRejected(c) \/ DeleteRejected(c)
  PROVE  ClientsIInv'
<1>1. /\ next[c] # "done" /\ EndsWith(c, 1)
      /\ UNCHANGED <<secrets, locked, fails, cmd, listed, got, missing, serial, history>>
  BY DEF StoreRejected, DeleteRejected, At, StopsWith, daemon
<1>2. locked' \in BOOLEAN /\ fails' \in 0 .. MaxFails
  BY <1>1 DEF ClientsIInv, ClientsTypeOK
<1> QED
  BY <1>1, <1>2, EndsKeeps

LEMMA ListFailsKeeps ==
  ASSUME ClientsIInv, NEW c \in Client, ListFails(c)
  PROVE  ClientsIInv'
<1>1. PICK code \in {"LOCKED", "INTERNAL"} :
          /\ Refused(code)
          /\ EndsWith(c, IF Op(c) = "docker list" /\ code = "LOCKED" THEN 0 ELSE 1)
  BY DEF ListFails
<1>2. next[c] = "list" /\ UNCHANGED <<secrets, locked, cmd, listed, got, missing, serial, history>>
  BY DEF ListFails
<1>3. locked' \in BOOLEAN /\ fails' \in 0 .. MaxFails
  BY <1>1, <1>2, RefusedIs DEF ClientsIInv
<1>4. CASE Op(c) = "docker list" /\ EndsWith(c, 0)
  <2>1. Op(c) \notin Special /\ EndsWith(c, 0)
    BY <1>4 DEF Special
  <2> QED
    BY <1>2, <1>3, <2>1, EndsKeeps
<1>5. CASE EndsWith(c, 1)
  BY <1>2, <1>3, <1>5, EndsKeeps
<1> QED
  BY <1>1, <1>4, <1>5

\* A name that has been looked up, or found missing.
LEMMA LookedUp ==
  ASSUME ClientsIInv, NEW c \in Client, next[c] = "get",
         NEW lacks \in BOOLEAN, Advanced(c, lacks),
         DOMAIN got[c] \subseteq DOMAIN got'[c],
         Name(c) \in DOMAIN got'[c] \/ (Op(c) = "exec" /\ lacks),
         UNCHANGED <<secrets, cmd, listed, serial, history>>
  PROVE  InTurn(c)'
<1> USE DEF Op, history
<1>0. /\ InTurn(c) /\ ClientsTypeOK /\ next'[c] \in {"get", "done"} /\ todo'[c] = Rest(c)
      /\ missing'[c] = (missing[c] \/ lacks)
      /\ next'[c] = "get" <=> DOMAIN Rest(c) # {}
      /\ Succeeded(c)' => DOMAIN Rest(c) = {} /\ ~missing'[c]
  BY DEF ClientsIInv, Advanced
<1>1. DOMAIN todo[c] # {}
  BY <1>0 DEF ClientsTypeOK
<1>2. /\ Name(c) = todo[c][Front(c)] /\ DOMAIN Rest(c) = DOMAIN todo[c] \ {Front(c)}
      /\ \A i \in DOMAIN todo[c] \ {Front(c)} : Rest(c)[i] = todo[c][i]
  BY <1>0, <1>1, FrontIs
<1>3. Asked(c)'
  BY <1>0 DEF InTurn, Asked
<1>4. Keeps(c)'
  BY <1>0 DEF InTurn, Keeps
<1>5. Exports(c)'
  <2>1. SUFFICES ASSUME Op(c) = "export", NEW n \in kept[c]
                 PROVE  n \in DOMAIN got'[c] \/ \E i \in DOMAIN Rest(c) : Rest(c)[i] = n
    BY <1>0 DEF Exports
  <2>2. CASE n \in DOMAIN got[c]
    BY <2>2
  <2>3. ASSUME NEW i \in DOMAIN todo[c], todo[c][i] = n
        PROVE  n \in DOMAIN got'[c] \/ \E j \in DOMAIN Rest(c) : Rest(c)[j] = n
    BY <1>2, <2>1, <2>3
  <2> QED
    BY <1>0, <2>1, <2>2, <2>3 DEF InTurn, Exports
<1>6. Execs(c)'
  <2>1. SUFFICES ASSUME Op(c) = "exec", NEW i \in DOMAIN cmd[c].names
                 PROVE  \/ cmd[c].names[i] \in DOMAIN got'[c] \/ missing'[c]
                        \/ i \in DOMAIN Rest(c) /\ Rest(c)[i] = cmd[c].names[i]
    BY <1>0 DEF Execs
  <2>2. \/ cmd[c].names[i] \in DOMAIN got[c] \/ missing[c]
        \/ i \in DOMAIN todo[c] /\ todo[c][i] = cmd[c].names[i]
    BY <1>0, <2>1 DEF InTurn, Execs
  <2> QED
    BY <1>0, <1>2, <2>2
<1>7. Imports(c)' /\ Helps(c)'
  BY <1>0 DEF InTurn, Imports, Helps
<1> QED
  BY <1>3, <1>4, <1>5, <1>6, <1>7 DEF InTurn

LEMMA GetKeeps ==
  ASSUME ClientsIInv, NEW c \in Client, Get(c)
  PROVE  ClientsIInv'
<1>0. ClientsTypeOK /\ Course /\ Books /\ \A d \in Client : InTurn(d)
  BY Halves DEF ClientsIInv
<1>1. next[c] = "get" /\ UNCHANGED <<secrets, locked, fails, cmd, listed, serial, history>>
  BY DEF Get, At, daemon
<1>2. CASE Name(c) \in DOMAIN secrets
  <2>1. /\ got' = [got EXCEPT ![c] = [m \in DOMAIN @ \cup {Name(c)} |->
                                         IF m = Name(c) THEN secrets[Name(c)] ELSE @[m]]]
        /\ GoOn(c, FALSE)
    BY <1>2 DEF Get
  <2>2. Course' /\ Advanced(c, FALSE)
    BY <1>0, <1>1, <2>1, GoOnIs
  <2>3. /\ DOMAIN got' = Client /\ \A d \in Client \ {c} : got'[d] = got[d]
        /\ DOMAIN got'[c] = DOMAIN got[c] \cup {Name(c)}
        /\ \A m \in DOMAIN got'[c] : got'[c][m] = IF m = Name(c) THEN secrets[m] ELSE got[c][m]
    BY <1>0, <2>1 DEF Books
  <2>4. IsTable(got'[c])
    BY <1>0, <1>2, <2>3 DEF Books, IsTable
  <2>5. Books'
    BY <1>0, <1>1, <2>3, <2>4 DEF Books, IsTable, history
  <2>6. InTurn(c)'
    BY <1>1, <2>2, <2>3, LookedUp
  <2>7. \A d \in Client \ {c} : Waits(d) /\ Retains(d) /\ Fewer(d)
    BY <1>0, <1>1, <2>2, <2>3, VaultStays DEF Advanced, Retains, history
  <2> QED
    BY <2>2, <2>5, <2>6, <2>7, Composed
<1>3. CASE Name(c) \notin DOMAIN secrets /\ Op(c) = "exec"
  <2>1. UNCHANGED got /\ GoOn(c, TRUE)
    BY <1>3 DEF Get
  <2>2. Course' /\ Advanced(c, TRUE)
    BY <1>0, <1>1, <2>1, GoOnIs
  <2>3. Books'
    BY <1>0, <1>1, <2>1 DEF Books, IsTable, history
  <2>4. InTurn(c)'
    BY <1>1, <1>3, <2>1, <2>2, LookedUp
  <2>5. \A d \in Client \ {c} : Waits(d) /\ Retains(d) /\ Fewer(d)
    BY <1>0, <1>1, <2>1, <2>2, VaultStays DEF Advanced, Retains, history
  <2> QED
    BY <2>2, <2>3, <2>4, <2>5, Composed
<1>4. CASE Name(c) \notin DOMAIN secrets /\ Op(c) # "exec"
  <2>1. EndsWith(c, 1) /\ UNCHANGED <<missing, got>>
    BY <1>4 DEF Get, StopsWith
  <2>2. locked' \in BOOLEAN /\ fails' \in 0 .. MaxFails
    BY <1>0, <1>1 DEF Books
  <2> QED
    BY <1>1, <2>1, <2>2, EndsKeeps
<1> QED
  BY <1>2, <1>3, <1>4

LEMMA GetFailsKeeps ==
  ASSUME ClientsIInv, NEW c \in Client, GetFails(c)
  PROVE  ClientsIInv'
<1>0. ClientsTypeOK /\ Course /\ Books /\ \A d \in Client : InTurn(d)
  BY Halves DEF ClientsIInv
<1>1. next[c] = "get" /\ UNCHANGED <<secrets, locked, cmd, listed, got, serial, history>>
  BY DEF GetFails, At
<1>2. PICK code \in {"LOCKED", "INTERNAL"} :
          /\ Refused(code)
          /\ IF Op(c) = "exec" /\ code = "INTERNAL" THEN GoOn(c, TRUE) ELSE StopsWith(c, 1)
  BY DEF GetFails
<1>3. locked' \in BOOLEAN /\ fails' \in 0 .. MaxFails
  BY <1>0, <1>1, <1>2, RefusedIs
<1>4. CASE Op(c) = "exec" /\ GoOn(c, TRUE)
  <2>1. Course' /\ Advanced(c, TRUE)
    BY <1>0, <1>1, <1>4, GoOnIs
  <2>2. Books'
    BY <1>0, <1>1, <1>3 DEF Books, IsTable, history
  <2>3. InTurn(c)'
    BY <1>1, <1>4, <2>1, LookedUp
  <2>4. \A d \in Client \ {c} : Waits(d) /\ Retains(d) /\ Fewer(d)
    BY <1>0, <1>1, <2>1, VaultStays DEF Advanced, Retains, history
  <2> QED
    BY <2>1, <2>2, <2>3, <2>4, Composed
<1>5. CASE StopsWith(c, 1)
  BY <1>1, <1>3, <1>5, EndsKeeps DEF StopsWith
<1> QED
  BY <1>2, <1>4, <1>5

-----------------------------------------------------------------------------
(* Steps that change the vault *)

LEMMA BecomesIs ==
  ASSUME ClientsTypeOK, NEW c \in Client, NEW t, IsTable(t), Becomes(c, t)
  PROVE  /\ secrets' = t /\ IsTable(secrets')
         /\ quiet' \in [Client -> BOOLEAN] /\ kept' \in [Client -> SUBSET Names]
         /\ quiet'[c] = quiet[c] /\ kept'[c] = kept[c] \cap DOMAIN t
         /\ \A d \in Client \ {c} : Fewer(d)
<1>1. quiet \in [Client -> BOOLEAN] /\ kept \in [Client -> SUBSET Names]
  BY DEF ClientsTypeOK
<1>2. /\ secrets' = t
      /\ kept' = [d \in Client |-> kept[d] \cap DOMAIN t]
      /\ quiet' = [d \in Client |-> quiet[d] /\ (d = c \/ t = secrets)]
  BY DEF Becomes
<1>3. \A d \in Client : /\ kept'[d] = kept[d] \cap DOMAIN t
                        /\ quiet'[d] = (quiet[d] /\ (d = c \/ t = secrets))
  BY <1>2
<1>4. \A d \in Client : quiet[d] \in BOOLEAN /\ kept[d] \subseteq Names
  BY <1>1
<1>5. quiet' \in [Client -> BOOLEAN] /\ kept' \in [Client -> SUBSET Names]
  BY <1>2, <1>4
<1>6. \A d \in Client \ {c} : Fewer(d)
  BY <1>2, <1>3 DEF Fewer
<1>7. quiet'[c] = quiet[c]
  BY <1>3, <1>4
<1> QED
  BY <1>2, <1>3, <1>5, <1>6, <1>7

\* What a store writes is a record, and stands for what the command asks.
LEMMA WrittenIs ==
  ASSUME ClientsIInv, NEW c \in Client, next[c] = "write"
  PROVE  /\ Written(c, Name(c)) \in Records
         /\ Written(c, Name(c)).value = serial.of[c]
         /\ Op(c) \in {"git store", "docker store"} =>
               /\ Chosen(c, Name(c)) /\ DOMAIN Rest(c) = {} /\ wrote[c] = {}
               /\ quiet[c] => listed[c] = secrets
<1> DEFINE n == Name(c)
<1>0. /\ ClientsTypeOK /\ InTurn(c) /\ Asked(c) /\ Helps(c)
      /\ DOMAIN todo[c] # {}
  BY DEF ClientsIInv, ClientsTypeOK, InTurn, Asked
<1>1. /\ cmd[c] \in Commands /\ serial.of[c] \in 1 .. MaxCommands
      /\ cmd[c].kind \in SecretKinds /\ Req(c) \in Requests \cup {NoRequest}
  BY <1>0, CommandAssumption DEF Asked, Req
<1>2. Record(cmd[c].kind, Req(c), serial.of[c]) \in Records
  <2>1. /\ Req(c).host \in Host \cup {None} /\ Req(c).user \in User \cup {None}
        /\ Req(c).path \in Path \cup {None}
    BY <1>1 DEF Requests, NoRequest
  <2> QED
    BY <1>1, <2>1 DEF Record, Records
<1>3. CASE Op(c) \notin {"git store", "docker store"}
  BY <1>2, <1>3 DEF Written, Record
<1>4. CASE Op(c) \in {"git store", "docker store"}
  <2>1. /\ DOMAIN todo[c] = {1} /\ Chosen(c, todo[c][1]) /\ wrote[c] = {}
        /\ quiet[c] => listed[c] = secrets
    BY <1>0, <1>4 DEF Helps
  <2>2. Front(c) = 1 /\ n = todo[c][1] /\ DOMAIN Rest(c) = {}
    <3>1. Front(c) \in DOMAIN todo[c] /\ n = todo[c][Front(c)]
          /\ DOMAIN Rest(c) = DOMAIN todo[c] \ {Front(c)}
      BY <1>0, FrontIs
    <3> QED
      BY <2>1, <3>1
  <2>3. Chosen(c, n)
    BY <2>1, <2>2
  <2>4. CASE Picked(c, listed[c]) = {}
    BY <1>2, <2>1, <2>2, <2>3, <2>4 DEF Written, Record
  <2>5. CASE Picked(c, listed[c]) # {}
    <3>1. n \in Picked(c, listed[c])
      BY <2>3, <2>5 DEF Chosen
    <3>2. n \in DOMAIN listed[c]
      BY <3>1, GitMatchIs DEF Picked, DockerMatch, Fitting
    <3>3. listed[c][n] \in Records
      BY <1>0, <3>2 DEF ClientsTypeOK, IsTable
    <3>4. Written(c, n) = [listed[c][n] EXCEPT
                              !.value = serial.of[c],
                              !.user = IF Op(c) = "docker store" THEN Req(c).user ELSE @]
      BY <1>4, <2>5 DEF Written
    <3>5. Req(c).user \in User \cup {None}
      BY <1>1 DEF Requests, NoRequest
    <3>6. Written(c, n) \in Records /\ Written(c, n).value = serial.of[c]
      BY <1>1, <3>3, <3>4, <3>5 DEF Records
    <3> QED
      BY <2>1, <2>2, <2>3, <3>6
  <2> QED
    BY <2>4, <2>5
<1> QED
  BY <1>3, <1>4

\* A helper that has stored what it was given finds it again.
LEMMA AnsweredAgain ==
  ASSUME ClientsIInv, NEW c \in Client, next[c] = "write",
         Op(c) \in {"git store", "docker store"}, listed[c] = secrets
  PROVE  OnlyOne(Picked(c, With(secrets, Name(c), Written(c, Name(c)))), Name(c))
<1>0. Chosen(c, Name(c))
  BY WrittenIs
<1>1. NoneYet(Picked(c, secrets)) \/ OnlyOne(Picked(c, secrets), Name(c))
  BY <1>0 DEF Chosen, NoneYet, OnlyOne
<1>2. cmd[c] \in Commands /\ cmd[c].do = Op(c)
  BY DEF ClientsIInv, InTurn, Asked, Op
<1>3. /\ Op(c) = "git store" => cmd[c].kind = "git"
      /\ Op(c) = "docker store" => cmd[c].kind = "docker"
  BY <1>2, CommandAssumption
<1>4. ASSUME NoneYet(Picked(c, secrets))
      PROVE  /\ Op(c) = "git store" => Agrees(Written(c, Name(c)), Req(c))
             /\ Op(c) = "docker store" => OfLogin(Written(c, Name(c)), Req(c))
  <2>1. /\ Written(c, Name(c)).kind = cmd[c].kind /\ Written(c, Name(c)).host = Req(c).host
        /\ Written(c, Name(c)).user = Req(c).user /\ Written(c, Name(c)).path = Req(c).path
    BY <1>4 DEF Written, Record, NoneYet
  <2> QED
    BY <1>3, <2>1 DEF Agrees, Optional, OfLogin
<1>5. ASSUME OnlyOne(Picked(c, secrets), Name(c))
      PROVE  /\ Op(c) = "git store" => Alike(Written(c, Name(c)), secrets[Name(c)])
             /\ Op(c) = "docker store" => OfLogin(Written(c, Name(c)), Req(c))
  <2>1. Name(c) \in DOMAIN secrets /\ Name(c) \in Picked(c, secrets)
    BY <1>5, GitMatchIs DEF Picked, DockerMatch, Fitting, OnlyOne
  <2>2. secrets[Name(c)] \in Records
    BY <2>1 DEF ClientsIInv, ClientsTypeOK, IsTable
  <2>3. /\ Written(c, Name(c)).kind = secrets[Name(c)].kind
        /\ Written(c, Name(c)).host = secrets[Name(c)].host
        /\ Written(c, Name(c)).path = secrets[Name(c)].path
        /\ Op(c) = "git store" => Written(c, Name(c)).user = secrets[Name(c)].user
    <3>1. Written(c, Name(c)) =
            [secrets[Name(c)] EXCEPT !.value = serial.of[c],
                                     !.user = IF Op(c) = "docker store" THEN Req(c).user ELSE @]
      BY <1>5 DEF Written, OnlyOne
    <3> QED
      BY <2>2, <3>1 DEF Records
  <2>4. Op(c) = "docker store" => OfLogin(secrets[Name(c)], Req(c))
    BY <2>1 DEF Picked, DockerMatch, OfLogin
  <2> QED
    BY <2>3, <2>4 DEF Alike, Optional, OfLogin
<1> HIDE <1>0
<1>6. CASE Op(c) = "git store"
  <2>1. \/ NoneYet(Picked(c, secrets)) /\ Agrees(Written(c, Name(c)), Req(c))
        \/ OnlyOne(Picked(c, secrets), Name(c)) /\ Alike(Written(c, Name(c)), secrets[Name(c)])
    BY <1>1, <1>4, <1>5, <1>6
  <2> QED
    BY <1>6, <2>1, GitFinds
<1>7. CASE Op(c) = "docker store"
  <2>1. /\ NoneYet(Picked(c, secrets)) \/ OnlyOne(Picked(c, secrets), Name(c))
        /\ OfLogin(Written(c, Name(c)), Req(c))
    BY <1>1, <1>4, <1>5, <1>7
  <2> QED
    BY <1>7, <2>1, DockerFinds
<1> QED
  BY <1>6, <1>7

\* The vault after a store.
LEMMA StoredIs ==
  ASSUME ClientsIInv, NEW c \in Client, next[c] = "write", Name(c) # BadName
  PROVE  /\ Stored(c, Name(c)) = With(secrets, Name(c), Written(c, Name(c)))
         /\ IsTable(Stored(c, Name(c)))
         /\ DOMAIN Stored(c, Name(c)) = DOMAIN secrets \cup {Name(c)}
         /\ Stored(c, Name(c))[Name(c)].value = serial.of[c]
<1>1. IsTable(secrets) /\ Name(c) \in Names /\ Written(c, Name(c)) \in Records
  BY FrontIs, WrittenIs DEF ClientsIInv, ClientsTypeOK
<1>2. Written(c, Name(c)).value = serial.of[c]
  BY WrittenIs
<1>3. /\ DOMAIN Stored(c, Name(c)) = DOMAIN secrets \cup {Name(c)}
      /\ \A m \in DOMAIN Stored(c, Name(c)) :
             Stored(c, Name(c))[m] = IF m = Name(c) THEN Written(c, Name(c)) ELSE secrets[m]
  BY DEF Stored
<1>4. Stored(c, Name(c)) = With(secrets, Name(c), Written(c, Name(c)))
  BY DEF Stored, With
<1>5. IsTable(Stored(c, Name(c)))
  BY <1>1, <1>3 DEF IsTable
<1> QED
  BY <1>2, <1>3, <1>4, <1>5

\* The command has stored its next name, and goes on, or learns of a failure.
HasStored(c) ==
    /\ secrets' = Stored(c, Name(c)) /\ wrote'[c] = wrote[c] \cup {Name(c)}
    /\ kept'[c] \subseteq kept[c] /\ kept'[c] \subseteq DOMAIN secrets' /\ quiet'[c] = quiet[c]
    /\ UNCHANGED <<cmd, listed, got, serial>>
    /\ next'[c] \in {"write", "done"}
    /\ next'[c] = "write" => DOMAIN Rest(c) # {} /\ todo'[c] = Rest(c)
    /\ Succeeded(c)' => DOMAIN Rest(c) = {}

LEMMA StoresForImport ==
  ASSUME ClientsIInv, NEW c \in Client, next[c] = "write", HasStored(c)
  PROVE  Imports(c)'
<1> SUFFICES ASSUME Op(c) = "import"
             PROVE  Imports(c)'
  BY DEF Imports, HasStored, Op
<1> DEFINE names == cmd[c].names
<1>0. /\ wrote'[c] = wrote[c] \cup {Name(c)} /\ cmd'[c] = cmd[c] /\ listed'[c] = listed[c]
      /\ next'[c] \in {"write", "done"}
      /\ next'[c] = "write" => todo'[c] = Rest(c)
      /\ Succeeded(c)' => DOMAIN Rest(c) = {}
  BY DEF HasStored
<1>1. /\ Imports(c) /\ cmd[c] \in Commands /\ DOMAIN todo[c] # {} /\ ClientsTypeOK
  BY DEF ClientsIInv, ClientsTypeOK, InTurn, Asked
<1>2. /\ names \in Seq(Names)
      /\ \A i, j \in DOMAIN names : names[i] = names[j] => i = j
  BY <1>1, CommandAssumption DEF Op
<1>2a. DOMAIN names \subseteq Nat
  BY <1>2
<1>3. /\ \A i, j \in DOMAIN names : i < j /\ names[j] \in wrote[c] => names[i] \in Finished(c)
      /\ \A i \in DOMAIN todo[c] :
             i \in DOMAIN names /\ todo[c][i] = names[i] /\ todo[c][i] \notin wrote[c]
      /\ \A i \in DOMAIN names : names[i] \in Finished(c) \/ i \in DOMAIN todo[c]
  BY <1>1 DEF Imports
<1>4. /\ Front(c) \in DOMAIN todo[c] /\ \A i \in DOMAIN todo[c] : Front(c) <= i
      /\ Name(c) = todo[c][Front(c)] /\ DOMAIN Rest(c) = DOMAIN todo[c] \ {Front(c)}
      /\ \A i \in DOMAIN todo[c] \ {Front(c)} : Rest(c)[i] = todo[c][i]
  BY <1>1, FrontIs
<1>5. Front(c) \in DOMAIN names /\ Name(c) = names[Front(c)] /\ Front(c) \in Nat
  BY <1>2a, <1>3, <1>4
<1>6. Finished(c)' = Finished(c) \cup {Name(c)}
  BY <1>0 DEF Finished
<1> HIDE DEF names
<1>7. ASSUME NEW i \in DOMAIN names, NEW j \in DOMAIN names, i < j, names[j] \in wrote'[c]
      PROVE  names[i] \in Finished(c)'
  <2>1. CASE names[j] \in wrote[c]
    BY <1>3, <1>6, <1>7, <2>1
  <2>2. CASE names[j] = Name(c)
    <3>1. j = Front(c)
      BY <1>2, <1>5, <2>2
    <3>2. i \notin DOMAIN todo[c]
      BY <1>2a, <1>4, <1>5, <1>7, <3>1
    <3> QED
      BY <1>3, <1>6, <3>2
  <2> QED
    BY <1>0, <1>7, <2>1, <2>2
<1>8. ASSUME NEW i \in DOMAIN Rest(c)
      PROVE  i \in DOMAIN names /\ Rest(c)[i] = names[i] /\ Rest(c)[i] \notin wrote'[c]
  BY <1>0, <1>2, <1>3, <1>4, <1>5
<1>9. \A i \in DOMAIN names : names[i] \in Finished(c)' \/ i \in DOMAIN Rest(c)
  BY <1>3, <1>4, <1>5, <1>6
<1>10. (cmd[c].names)' = names
  BY <1>0 DEF names
<1> QED
  BY <1>0, <1>7, <1>8, <1>9, <1>10 DEF Imports

LEMMA StoresForHelper ==
  ASSUME ClientsIInv, NEW c \in Client, next[c] = "write", Name(c) # BadName, HasStored(c)
  PROVE  Helps(c)'
<1> SUFFICES ASSUME Op(c) \in {"git store", "docker store"}
             PROVE  Helps(c)'
  BY DEF Helps, HasStored, Op
<1>1. /\ secrets' = Stored(c, Name(c)) /\ wrote'[c] = wrote[c] \cup {Name(c)}
      /\ quiet'[c] = quiet[c] /\ UNCHANGED <<cmd, serial>>
      /\ next'[c] \in {"write", "done"}
      /\ next'[c] = "write" => DOMAIN Rest(c) # {}
  BY DEF HasStored
<1>2. DOMAIN Rest(c) = {} /\ (quiet[c] => listed[c] = secrets)
  BY WrittenIs
<1>3. next'[c] = "done"
  BY <1>1, <1>2
<1>4. ASSUME quiet[c]
      PROVE  Answered(c)'
  <2>1. OnlyOne(Picked(c, secrets'), Name(c))
    <3>1. listed[c] = secrets
      BY <1>2, <1>4
    <3>2. OnlyOne(Picked(c, With(secrets, Name(c), Written(c, Name(c)))), Name(c))
      BY <3>1, AnsweredAgain
    <3> QED
      BY <1>1, <3>2, StoredIs
  <2>2. Picked(c, secrets)' = Picked(c, secrets')
    BY <1>1 DEF Picked, Op, Req
  <2>3. secrets'[Name(c)].value = serial'.of[c]
    BY <1>1, StoredIs
  <2>4. Picked(c, secrets)' = {Name(c)} /\ Name(c) \in wrote'[c]
    BY <1>1, <2>1, <2>2 DEF OnlyOne
  <2> QED
    BY <2>3, <2>4 DEF Answered
<1> QED
  BY <1>1, <1>3, <1>4 DEF Helps

LEMMA StoresInTurn ==
  ASSUME ClientsIInv, NEW c \in Client, next[c] = "write", Name(c) # BadName, HasStored(c)
  PROVE  InTurn(c)'
<1> USE DEF Op
<1>0. ClientsTypeOK /\ InTurn(c) /\ Asked(c) /\ DOMAIN todo[c] # {}
  BY DEF ClientsIInv, ClientsTypeOK, InTurn
<1>1. /\ wrote'[c] = wrote[c] \cup {Name(c)}
      /\ kept'[c] \subseteq kept[c] /\ kept'[c] \subseteq DOMAIN secrets'
      /\ UNCHANGED <<cmd, listed, got, serial>>
      /\ next'[c] \in {"write", "done"}
      /\ next'[c] = "write" => todo'[c] = Rest(c)
  BY DEF HasStored
<1>2. /\ Front(c) \in DOMAIN todo[c] /\ Name(c) = todo[c][Front(c)]
      /\ DOMAIN Rest(c) = DOMAIN todo[c] \ {Front(c)}
      /\ \A i \in DOMAIN todo[c] \ {Front(c)} : Rest(c)[i] = todo[c][i]
  BY <1>0, FrontIs
<1>3. Asked(c)'
  BY <1>0, <1>1 DEF Asked
<1>4. Keeps(c)'
  <2>1. SUFFICES ASSUME cmd[c].guard
                 PROVE  /\ wrote'[c] \cap kept'[c] = {}
                        /\ next'[c] = "write" => \A i \in DOMAIN Rest(c) : Rest(c)[i] \notin kept'[c]
    BY <1>1 DEF Keeps
  <2>2. wrote[c] \cap kept[c] = {} /\ \A i \in DOMAIN todo[c] : todo[c][i] \notin kept[c]
    BY <1>0, <2>1 DEF InTurn, Keeps
  <2> QED
    BY <1>1, <1>2, <2>2
<1>5. Exports(c)' /\ Execs(c)'
  BY <1>0, <1>1 DEF InTurn, Exports, Execs
<1>6. Imports(c)' /\ Helps(c)'
  BY StoresForImport, StoresForHelper
<1> QED
  BY <1>3, <1>4, <1>5, <1>6 DEF InTurn

\* What the step does to the other processes.
LEMMA StoresBeside ==
  ASSUME ClientsIInv, NEW c \in Client, next[c] = "write", Name(c) # BadName,
         Becomes(c, Stored(c, Name(c))), wrote' = [wrote EXCEPT ![c] = @ \cup {Name(c)}],
         UNCHANGED <<locked, cmd, listed, got, serial>>, fails' \in 0 .. MaxFails
  PROVE  /\ Books' /\ \A d \in Client \ {c} : Retains(d) /\ Fewer(d)
         /\ secrets' = Stored(c, Name(c)) /\ wrote'[c] = wrote[c] \cup {Name(c)}
         /\ kept'[c] \subseteq kept[c] /\ kept'[c] \subseteq DOMAIN secrets' /\ quiet'[c] = quiet[c]
<1>1. ClientsTypeOK /\ Books /\ Name(c) \in Names
  BY Halves, FrontIs DEF ClientsIInv, ClientsTypeOK
<1>2. IsTable(Stored(c, Name(c)))
  BY StoredIs
<1>3. /\ secrets' = Stored(c, Name(c)) /\ IsTable(secrets')
      /\ quiet' \in [Client -> BOOLEAN] /\ kept' \in [Client -> SUBSET Names]
      /\ quiet'[c] = quiet[c] /\ kept'[c] = kept[c] \cap DOMAIN Stored(c, Name(c))
      /\ \A d \in Client \ {c} : Fewer(d)
  BY <1>1, <1>2, BecomesIs
<1>4. /\ wrote' \in [Client -> SUBSET Names] /\ wrote'[c] = wrote[c] \cup {Name(c)}
      /\ \A d \in Client \ {c} : wrote'[d] = wrote[d]
  BY <1>1 DEF Books
<1>5. Books'
  BY <1>1, <1>3, <1>4 DEF Books, IsTable
<1>6. kept'[c] \subseteq kept[c] /\ kept'[c] \subseteq DOMAIN secrets'
  BY <1>3
<1> QED
  BY <1>3, <1>4, <1>5, <1>6 DEF Retains

LEMMA StoreKeeps ==
  ASSUME ClientsIInv, NEW c \in Client, Store(c)
  PROVE  ClientsIInv'
<1>0. ClientsTypeOK /\ next[c] = "write" /\ Name(c) # BadName
  BY DEF Store, At, ClientsIInv
<1>1. /\ Becomes(c, Stored(c, Name(c))) /\ wrote' = [wrote EXCEPT ![c] = @ \cup {Name(c)}]
      /\ GoOn(c, FALSE) /\ UNCHANGED <<locked, fails, cmd, listed, got, serial>>
  BY DEF Store
<1>2. Course' /\ Advanced(c, FALSE)
  BY <1>0, <1>1, GoOnIs
<1>3. fails' \in 0 .. MaxFails
  BY <1>0, <1>1 DEF ClientsTypeOK
<1>4. /\ Books' /\ \A d \in Client \ {c} : Retains(d) /\ Fewer(d)
      /\ secrets' = Stored(c, Name(c)) /\ wrote'[c] = wrote[c] \cup {Name(c)}
      /\ kept'[c] \subseteq kept[c] /\ kept'[c] \subseteq DOMAIN secrets' /\ quiet'[c] = quiet[c]
  BY <1>0, <1>1, <1>3, StoresBeside
<1>5. HasStored(c)
  BY <1>0, <1>1, <1>2, <1>4 DEF HasStored, Advanced
<1>6. InTurn(c)'
  BY <1>0, <1>5, StoresInTurn
<1>7. \A d \in Client \ {c} : Waits(d)
  BY <1>2 DEF Advanced
<1> QED
  BY <1>2, <1>4, <1>6, <1>7, Composed

\* A command of which nothing is said may change the vault as it likes.
LEMMA OthersInTurn ==
  ASSUME ClientsIInv, NEW c \in Client, next[c] # "done", Op(c) \notin Special,
         next'[c] # "write", wrote'[c] = wrote[c],
         kept'[c] \subseteq kept[c] /\ kept'[c] \subseteq DOMAIN secrets',
         UNCHANGED <<cmd, serial>>
  PROVE  InTurn(c)'
<1> USE DEF Op
<1>0. InTurn(c) /\ Asked(c) /\ Keeps(c)
  BY DEF ClientsIInv, InTurn
<1>1. Asked(c)' /\ Keeps(c)'
  BY <1>0 DEF Asked, Keeps
<1>2. Exports(c)' /\ Execs(c)' /\ Imports(c)' /\ Helps(c)'
  BY DEF Exports, Execs, Imports, Helps, Special
<1> QED
  BY <1>0, <1>1, <1>2 DEF InTurn

\* Only the other commands make these calls.
LEMMA OtherCalls ==
  ASSUME ClientsIInv, NEW c \in Client, next[c] \in {"delete", "status", "unlock", "report"}
  PROVE  Op(c) \notin Special
<1>1. InTurn(c)
  BY DEF ClientsIInv
<1> QED
  BY <1>1 DEF InTurn, Exports, Execs, Imports, Helps, Special

LEMMA WithoutIs ==
  ASSUME ClientsTypeOK, NEW n
  PROVE  IsTable(Without(n))
BY DEF ClientsTypeOK, IsTable, Without

\* A deletion, or a failed call that has deleted the secret all the same.
LEMMA DeletesBeside ==
  ASSUME ClientsIInv, NEW c \in Client,
         \/ Becomes(c, Without(Name(c)))
         \/ UNCHANGED <<secrets, kept, quiet>>,
         UNCHANGED <<locked, cmd, listed, got, serial, wrote>>, fails' \in 0 .. MaxFails
  PROVE  /\ Books' /\ \A d \in Client \ {c} : Retains(d) /\ Fewer(d)
         /\ kept'[c] \subseteq kept[c] /\ kept'[c] \subseteq DOMAIN secrets'
<1>0. ClientsTypeOK /\ Books /\ \A d \in Client : InTurn(d)
  BY Halves DEF ClientsIInv
<1>1. CASE Becomes(c, Without(Name(c)))
  <2>1. /\ secrets' = Without(Name(c)) /\ IsTable(secrets')
        /\ quiet' \in [Client -> BOOLEAN] /\ kept' \in [Client -> SUBSET Names]
        /\ quiet'[c] = quiet[c] /\ kept'[c] = kept[c] \cap DOMAIN Without(Name(c))
        /\ \A d \in Client \ {c} : Fewer(d)
    BY <1>0, <1>1, WithoutIs, BecomesIs
  <2>2. Books'
    BY <1>0, <2>1 DEF Books, IsTable
  <2>3. kept'[c] \subseteq kept[c] /\ kept'[c] \subseteq DOMAIN secrets'
    BY <2>1
  <2> QED
    BY <2>1, <2>2, <2>3 DEF Retains
<1>2. CASE UNCHANGED <<secrets, kept, quiet>>
  <2>1. Books'
    BY <1>0, <1>2 DEF Books, IsTable
  <2>2. \A d \in Client : Fewer(d)
    BY <1>0, <1>2 DEF InTurn, Asked, Fewer
  <2> QED
    BY <2>1, <2>2 DEF Retains, Fewer
<1> QED
  BY <1>1, <1>2

LEMMA DeleteKeeps ==
  ASSUME ClientsIInv, NEW c \in Client, Delete(c)
  PROVE  ClientsIInv'
<1>0. ClientsTypeOK /\ next[c] = "delete" /\ UNCHANGED <<locked, fails, cmd, listed, got, serial, wrote>>
  BY DEF Delete, At, ClientsIInv
<1>1. /\ Becomes(c, Without(Name(c))) \/ UNCHANGED <<secrets, kept, quiet>>
      /\ \E lacks \in BOOLEAN : GoOn(c, lacks)
  BY DEF Delete
<1>2. fails' \in 0 .. MaxFails
  BY <1>0 DEF ClientsTypeOK
<1>3. PICK lacks \in BOOLEAN : Course' /\ Advanced(c, lacks)
  BY <1>0, <1>1, GoOnIs
<1>4. /\ Books' /\ \A d \in Client \ {c} : Retains(d) /\ Fewer(d)
      /\ kept'[c] \subseteq kept[c] /\ kept'[c] \subseteq DOMAIN secrets'
  BY <1>0, <1>1, <1>2, DeletesBeside
<1>5. next'[c] # "write" /\ wrote'[c] = wrote[c] /\ UNCHANGED <<cmd, serial>>
  BY <1>0, <1>3 DEF Advanced
<1>6. Op(c) \notin Special /\ next[c] # "done"
  BY <1>0, OtherCalls
<1>7. InTurn(c)'
  BY <1>4, <1>5, <1>6, OthersInTurn
<1>8. \A d \in Client \ {c} : Waits(d)
  BY <1>3 DEF Advanced
<1> QED
  BY <1>3, <1>4, <1>7, <1>8, Composed

LEMMA WriteFailsKeeps ==
  ASSUME ClientsIInv, NEW c \in Client, WriteFails(c)
  PROVE  ClientsIInv'
<1>0. /\ ClientsTypeOK /\ Course /\ \A d \in Client : InTurn(d)
      /\ next[c] \in {"write", "delete"} /\ Name(c) # BadName
      /\ EndsWith(c, 1) /\ UNCHANGED <<missing, locked, cmd, listed, got, serial>>
  BY Halves DEF WriteFails, ClientsIInv, StopsWith
<1>1. fails' \in 0 .. MaxFails /\ locked' \in BOOLEAN
  BY <1>0, RefusedIs DEF WriteFails
<1>2. Course' /\ Ended(c, 1)
  BY <1>0, EndsIs
<1>3. next'[c] = "done" /\ ~Succeeded(c)' /\ \A d \in Client \ {c} : Waits(d)
  BY <1>2 DEF Ended, Succeeded
<1>4. CASE UNCHANGED <<secrets, history>>
  BY <1>0, <1>1, <1>4, EndsKeeps
<1>5. CASE /\ At(c, "write") /\ Becomes(c, Stored(c, Name(c)))
           /\ wrote' = [wrote EXCEPT ![c] = @ \cup {Name(c)}]
  <2>1. next[c] = "write"
    BY <1>5 DEF At
  <2>2. /\ Books' /\ \A d \in Client \ {c} : Retains(d) /\ Fewer(d)
        /\ secrets' = Stored(c, Name(c)) /\ wrote'[c] = wrote[c] \cup {Name(c)}
        /\ kept'[c] \subseteq kept[c] /\ kept'[c] \subseteq DOMAIN secrets' /\ quiet'[c] = quiet[c]
    BY <1>0, <1>1, <1>5, <2>1, StoresBeside
  <2>3. HasStored(c)
    BY <1>0, <1>3, <2>2 DEF HasStored
  <2>4. InTurn(c)'
    BY <1>0, <2>1, <2>3, StoresInTurn
  <2> QED
    BY <1>2, <1>3, <2>2, <2>4, Composed
<1>6. CASE At(c, "delete") /\ Becomes(c, Without(Name(c))) /\ UNCHANGED wrote
  <2>1. next[c] = "delete"
    BY <1>6 DEF At
  <2>2. /\ Books' /\ \A d \in Client \ {c} : Retains(d) /\ Fewer(d)
        /\ kept'[c] \subseteq kept[c] /\ kept'[c] \subseteq DOMAIN secrets'
    BY <1>0, <1>1, <1>6, DeletesBeside
  <2>3. next'[c] # "write" /\ wrote'[c] = wrote[c] /\ UNCHANGED <<cmd, serial>>
    BY <1>0, <1>3, <1>6
  <2>4. Op(c) \notin Special /\ next[c] # "done"
    BY <2>1, OtherCalls
  <2>5. InTurn(c)'
    BY <2>2, <2>3, <2>4, OthersInTurn
  <2> QED
    BY <1>2, <1>3, <2>2, <2>5, Composed
<1> QED
  BY <1>4, <1>5, <1>6 DEF WriteFails

\* unlock: its steps touch neither the vault nor what the commands have done.
LEMMA UnlockingKeeps ==
  ASSUME ClientsIInv, NEW c \in Client, Status(c) \/ Unlock(c) \/ Report(c)
  PROVE  ClientsIInv'
<1>0. ClientsTypeOK /\ Course /\ Books /\ \A d \in Client : InTurn(d)
  BY Halves DEF ClientsIInv
<1>1. PICK call \in {"unlock", "done", "report"} : next' = [next EXCEPT ![c] = call]
  BY DEF Status, Unlock, Report, Goto
<1>2. /\ next[c] \in {"status", "unlock", "report"} /\ locked' \in BOOLEAN
      /\ UNCHANGED <<secrets, fails, cmd, todo, listed, got, missing, exit, serial, history>>
  BY <1>0 DEF Status, Unlock, Report, Goto, At, daemon, Books
<1>3. /\ next' \in [Client -> Calling] /\ next'[c] = call
      /\ \A d \in Client \ {c} : next'[d] = next[d]
  BY <1>0, <1>1 DEF Course, Calling
<1>4. Course'
  BY <1>0, <1>2, <1>3 DEF Course
<1>5. Books'
  BY <1>0, <1>2 DEF Books, IsTable, history
<1>6. InTurn(c)'
  <2>1. Op(c) \notin Special
    BY <1>2, OtherCalls
  <2>2. Fewer(c)
    BY <1>0, <1>2, VaultStays
  <2>3. next[c] # "done" /\ next'[c] # "write" /\ wrote'[c] = wrote[c] /\ UNCHANGED <<cmd, serial>>
    BY <1>2, <1>3 DEF history
  <2> QED
    BY <2>1, <2>2, <2>3, OthersInTurn DEF Fewer
<1>7. \A d \in Client \ {c} : Waits(d) /\ Retains(d) /\ Fewer(d)
  BY <1>0, <1>2, <1>3, VaultStays DEF Waits, Retains, history
<1> QED
  BY <1>4, <1>5, <1>6, <1>7, Composed

LEMMA LockKeeps ==
  ASSUME ClientsIInv, Lock
  PROVE  ClientsIInv'
<1>0. Course /\ Books /\ \A d \in Client : InTurn(d)
  BY Halves DEF ClientsIInv
<1>1. /\ UNCHANGED <<secrets, fails, cmd, next, todo, listed, got, missing, exit, serial, history>>
      /\ locked' \in BOOLEAN
  BY DEF Lock
<1>2. Course' /\ Books'
  BY <1>0, <1>1 DEF Course, Books, IsTable, history
<1>3. \A d \in Client : InTurn(d)'
  BY <1>0, <1>1, VaultStays, InTurnElsewhere DEF Waits, Retains, history
<1>4. ClientsTypeOK'
  BY <1>2, Halves, PTL
<1> QED
  BY <1>3, <1>4 DEF ClientsIInv

-----------------------------------------------------------------------------
(* Listing, and the start of a command *)

LEMMA ListsBeside ==
  ASSUME ClientsIInv, NEW c \in Client, listed' = [listed EXCEPT ![c] = secrets],
         UNCHANGED <<daemon, cmd, got, missing, serial, history>>
  PROVE  /\ Books' /\ \A d \in Client \ {c} : Retains(d) /\ Fewer(d)
         /\ listed'[c] = secrets
<1>0. Books /\ \A d \in Client : InTurn(d)
  BY Halves DEF ClientsIInv
<1>1. /\ DOMAIN listed' = Client /\ listed'[c] = secrets
      /\ \A d \in Client \ {c} : listed'[d] = listed[d]
  BY <1>0 DEF Books
<1>2. Books'
  BY <1>0, <1>1 DEF Books, IsTable, daemon, history
<1>3. \A d \in Client \ {c} : Retains(d) /\ Fewer(d)
  BY <1>0, <1>1, VaultStays DEF Retains, daemon, history
<1> QED
  BY <1>1, <1>2, <1>3

\* A command goes on with the names in part.
Continued(c, call, part) ==
    /\ next'[c] = IF DOMAIN part = {} THEN "done" ELSE call
    /\ todo'[c] = part
    /\ \A d \in Client \ {c} : Waits(d)

LEMMA ContinuesIs ==
  ASSUME Course, NEW c \in Client, NEW call, NEW part, Then(c, call, part),
         call \in {"get", "write", "delete"},
         DOMAIN part \subseteq Nat, \A i \in DOMAIN part : part[i] \in Names,
         UNCHANGED <<exit, missing>>
  PROVE  Course' /\ Continued(c, call, part)
<1>1. exit' \in [Client -> 0 .. 1] /\ missing' \in [Client -> BOOLEAN]
  BY DEF Course
<1>2. /\ Course' /\ todo'[c] = part
      /\ next'[c] = IF DOMAIN part = {} THEN "done" ELSE call
      /\ \A d \in Client \ {c} : next'[d] = next[d] /\ todo'[d] = todo[d]
  BY <1>1, ThenIs
<1> QED
  BY <1>2 DEF Continued, Waits

\* What has been listed is all that has changed of what the command holds.
HasListed(c) ==
    /\ next[c] = "list" /\ listed'[c] = secrets
    /\ UNCHANGED <<secrets, cmd, got, serial, history>>

\* The list has left it nothing to do.
LEMMA ListedLast ==
  ASSUME ClientsIInv, NEW c \in Client, HasListed(c), next'[c] = "done",
         Op(c) \notin {"export", "exec", "import"}
  PROVE  InTurn(c)'
<1>0. InTurn(c) /\ Asked(c) /\ UNCHANGED <<secrets, cmd, got, serial, history>> /\ next[c] = "list"
  BY DEF ClientsIInv, InTurn, HasListed
<1>1. CASE Op(c) \notin Special
  BY <1>0, <1>1, OthersInTurn DEF Asked, history
<1>2. CASE Op(c) \in {"git store", "docker store"}
  <2>1. wrote'[c] = {}
    BY <1>0, <1>2 DEF InTurn, Helps, history
  <2>2. Asked(c)' /\ Keeps(c)'
    BY <1>0, <2>1 DEF Asked, Keeps, history
  <2>3. Exports(c)' /\ Execs(c)' /\ Imports(c)'
    BY <1>0, <1>2 DEF Exports, Execs, Imports, Op
  <2>4. Helps(c)'
    BY <1>0, <2>1 DEF Helps
  <2> QED
    BY <2>2, <2>3, <2>4 DEF InTurn
<1> QED
  BY <1>1, <1>2 DEF Special

\* store and import skip what exists.
LEMMA ListedForStore ==
  ASSUME ClientsIInv, NEW c \in Client, HasListed(c), Op(c) \in {"store", "import"},
         NEW part, part = Part(cmd[c].names, Names \ DOMAIN secrets),
         Continued(c, "write", part)
  PROVE  InTurn(c)'
<1> DEFINE names == cmd[c].names
<1>0. /\ InTurn(c) /\ Asked(c) /\ next[c] = "list" /\ listed'[c] = secrets
      /\ UNCHANGED <<secrets, cmd, got, serial, history>>
  BY DEF ClientsIInv, InTurn, HasListed
<1>1. cmd[c] \in Commands /\ names \in Seq(Names)
  BY <1>0, CommandAssumption DEF Asked
<1>2. /\ DOMAIN part = {i \in DOMAIN names : names[i] \in Names \ DOMAIN secrets}
      /\ \A i \in DOMAIN part : i \in DOMAIN names /\ part[i] = names[i]
      /\ \A i \in DOMAIN names : names[i] \in Names
  BY <1>1, PartIs
<1>3. /\ next'[c] \in {"write", "done"} /\ todo'[c] = part
      /\ next'[c] = "done" => DOMAIN part = {}
  BY DEF Continued
<1>4. Asked(c)'
  BY <1>0, <1>1 DEF Asked, history
<1>5. Keeps(c)'
  BY <1>0, <1>2, <1>3 DEF InTurn, Keeps, Asked, history
<1>6. Exports(c)' /\ Execs(c)' /\ Helps(c)'
  BY <1>0 DEF Exports, Execs, Helps, Op
<1>7. Imports(c)'
  <2>1. SUFFICES ASSUME Op(c) = "import"
                 PROVE  Imports(c)'
    BY <1>0 DEF Imports, Op
  <2>2. cmd[c].guard /\ wrote'[c] = {}
    BY <1>0, <2>1 DEF InTurn, Imports, history
  <2>3. Finished(c)' = DOMAIN secrets
    BY <1>0, <2>2 DEF Finished
  <2>4. \A i \in DOMAIN names : names[i] \in Finished(c)' \/ i \in DOMAIN part
    BY <1>2, <2>3
  <2> HIDE DEF names
  <2>5. (cmd[c].names)' = names
    BY <1>0 DEF names
  <2> QED
    BY <1>2, <1>3, <2>2, <2>4, <2>5 DEF Imports, Succeeded
<1> QED
  BY <1>4, <1>5, <1>6, <1>7 DEF InTurn

LEMMA ListedForExport ==
  ASSUME ClientsIInv, NEW c \in Client, HasListed(c), Op(c) = "export",
         NEW part, part = Part(Order, DOMAIN secrets), Continued(c, "get", part)
  PROVE  InTurn(c)'
<1>0. /\ InTurn(c) /\ Asked(c) /\ Keeps(c) /\ next[c] = "list"
      /\ UNCHANGED <<secrets, cmd, got, serial, history>> /\ IsTable(secrets)
  BY DEF ClientsIInv, ClientsTypeOK, InTurn, HasListed
<1>1. /\ DOMAIN part = {i \in DOMAIN Order : Order[i] \in DOMAIN secrets}
      /\ \A i \in DOMAIN part : part[i] = Order[i]
  BY OrderAssumption, PartIs
<1>2. /\ next'[c] \in {"get", "done"} /\ todo'[c] = part
      /\ next'[c] = "done" => DOMAIN part = {}
  BY DEF Continued
<1>3. ASSUME NEW n \in kept'[c]
      PROVE  \E i \in DOMAIN part : part[i] = n
  <2>1. n \in DOMAIN secrets /\ n \in Names
    BY <1>0 DEF Asked, IsTable, history
  <2>2. PICK i \in DOMAIN Order : Order[i] = n
    BY <2>1 DEF Names
  <2> QED
    BY <1>1, <2>1, <2>2
<1>4. Asked(c)' /\ Keeps(c)'
  BY <1>0, <1>2 DEF Asked, Keeps, history
<1>5. Exports(c)'
  BY <1>2, <1>3 DEF Exports, Succeeded
<1>6. Execs(c)' /\ Imports(c)' /\ Helps(c)'
  BY <1>0 DEF Execs, Imports, Helps, Op
<1> QED
  BY <1>4, <1>5, <1>6 DEF InTurn

\* A helper goes on with one name, to store it or for something else.
LEMMA ListedForHelper ==
  ASSUME ClientsIInv, NEW c \in Client, HasListed(c),
         Op(c) \notin {"store", "import", "export", "exec"},
         NEW n, NEW part, DOMAIN part = {1}, part[1] = n, Continued(c, HelperCall(c), part),
         HelperCall(c) = "write" => OnlyOne(Picked(c, secrets), n)
                                    \/ (NoneYet(Picked(c, secrets)) /\ n = NewName(c))
  PROVE  InTurn(c)'
<1>0. /\ InTurn(c) /\ Asked(c) /\ next[c] = "list" /\ listed'[c] = secrets
      /\ UNCHANGED <<secrets, cmd, got, serial, history>>
  BY DEF ClientsIInv, InTurn, HasListed
<1>1. next'[c] = HelperCall(c) /\ todo'[c] = part
  BY DEF Continued
<1>2. HelperCall(c) \in {"get", "write", "delete"}
      /\ (HelperCall(c) = "write" <=> Op(c) \in {"git store", "docker store"})
  BY DEF HelperCall
<1>3. CASE Op(c) \notin Special
  <2>1. next'[c] # "write"
    BY <1>1, <1>2, <1>3 DEF Special
  <2> QED
    BY <1>0, <1>3, <2>1, OthersInTurn DEF Asked, history
<1>4. CASE Op(c) \in {"git store", "docker store"}
  <2>1. wrote'[c] = {} /\ cmd[c] \in Commands /\ ~cmd[c].guard
    <3>1. wrote[c] = {} /\ cmd[c] \in Commands
      BY <1>0, <1>4 DEF InTurn, Helps, Asked
    <3> QED
      BY <1>0, <1>4, <3>1, CommandAssumption DEF history, Op
  <2>2. Asked(c)' /\ Keeps(c)'
    BY <1>0, <2>1 DEF Asked, Keeps, history
  <2>3. Exports(c)' /\ Execs(c)' /\ Imports(c)'
    BY <1>0, <1>4 DEF Exports, Execs, Imports, Op
  <2>4. Chosen(c, n)'
    <3>1. Picked(c, listed[c])' = Picked(c, secrets) /\ NewName(c)' = NewName(c)
      BY <1>0 DEF Picked, NewName, Op, Req
    <3> QED
      BY <1>2, <1>4, <3>1 DEF Chosen, OnlyOne, NoneYet
  <2>5. DOMAIN todo'[c] = {1} /\ Chosen(c, todo[c][1])'
    <3>1. (todo[c][1])' = n
      BY <1>1
    <3> QED
      BY <1>1, <2>4, <3>1 DEF Chosen
  <2>6. Helps(c)'
    BY <1>0, <1>1, <1>2, <1>4, <2>1, <2>5 DEF Helps, Succeeded
  <2> QED
    BY <2>2, <2>3, <2>6 DEF InTurn
<1> QED
  BY <1>3, <1>4 DEF Special

LEMMA ListKeeps ==
  ASSUME ClientsIInv, NEW c \in Client, List(c)
  PROVE  ClientsIInv'
<1>0. /\ Course /\ InTurn(c) /\ Asked(c) /\ next[c] = "list" /\ IsTable(secrets)
      /\ cmd[c] \in Commands
  BY Halves DEF ClientsIInv, ClientsTypeOK, InTurn, Asked, List
<1>1. /\ listed' = [listed EXCEPT ![c] = secrets]
      /\ UNCHANGED <<daemon, cmd, got, missing, serial, history>>
  BY DEF List
<1>2. /\ Books' /\ \A d \in Client \ {c} : Retains(d) /\ Fewer(d)
      /\ listed'[c] = secrets
  BY <1>1, ListsBeside
<1>3. HasListed(c)
  BY <1>0, <1>1, <1>2 DEF HasListed, daemon
<1> SUFFICES Course' /\ InTurn(c)' /\ \A d \in Client \ {c} : Waits(d)
  BY <1>2, Composed
\* Its end.
<1>4. ASSUME NEW code \in 0 .. 1, EndsWith(c, code), Op(c) \notin {"export", "exec", "import"}
      PROVE  Course' /\ InTurn(c)' /\ \A d \in Client \ {c} : Waits(d)
  <2>1. Course' /\ Ended(c, code)
    BY <1>0, <1>1, <1>4, EndsIs
  <2>2. next'[c] = "done" /\ \A d \in Client \ {c} : Waits(d)
    BY <2>1 DEF Ended
  <2> QED
    BY <1>3, <1>4, <2>1, <2>2, ListedLast
<1>5. CASE Op(c) \in {"store", "import"}
  <2>1. SkipExisting(c, secrets)
    BY <1>5 DEF List
  <2>2. CASE Op(c) = "store" /\ EndsWith(c, 1)
    BY <1>4, <2>2
  <2>3. CASE Then(c, "write", Part(cmd[c].names, Names \ DOMAIN secrets)) /\ UNCHANGED exit
    <3>1. cmd[c].names \in Seq(Names)
      BY <1>0, CommandAssumption
    <3> DEFINE fresh == Names \ DOMAIN secrets
    <3> HIDE DEF fresh
    <3>2. /\ DOMAIN Part(cmd[c].names, fresh) \subseteq Nat
          /\ \A i \in DOMAIN Part(cmd[c].names, fresh) : Part(cmd[c].names, fresh)[i] \in Names
      BY <3>1, PartIs
    <3> USE DEF fresh
    <3>3. PICK part : part = Part(cmd[c].names, fresh)
      OBVIOUS
    <3>4. DOMAIN part \subseteq Nat /\ \A i \in DOMAIN part : part[i] \in Names
      BY <3>2, <3>3
    <3>5. Course' /\ Continued(c, "write", part)
      BY <1>0, <1>1, <2>3, <3>3, <3>4, ContinuesIs
    <3>6. InTurn(c)'
      BY <1>3, <1>5, <3>3, <3>5, ListedForStore
    <3> QED
      BY <3>5, <3>6 DEF Continued
  <2> QED
    BY <2>1, <2>2, <2>3 DEF SkipExisting
<1>6. CASE Op(c) = "export"
  <2>1. Then(c, "get", Part(Order, DOMAIN secrets)) /\ UNCHANGED exit
    BY <1>6 DEF List
  <2>2. PICK part : part = Part(Order, DOMAIN secrets)
    OBVIOUS
  <2>3. DOMAIN part \subseteq Nat /\ \A i \in DOMAIN part : part[i] \in Names
    BY <2>2, OrderAssumption, PartIs
  <2>4. Course' /\ Continued(c, "get", part)
    BY <1>0, <1>1, <2>1, <2>2, <2>3, ContinuesIs
  <2>5. InTurn(c)'
    BY <1>3, <1>6, <2>2, <2>4, ListedForExport
  <2> QED
    BY <2>4, <2>5 DEF Continued
<1>7. CASE Op(c) = "docker list"
  <2>1. EndsWith(c, 0) /\ Op(c) \notin {"export", "exec", "import"}
    BY <1>7 DEF List
  <2> QED
    BY <1>4, <2>1
<1>8. CASE Op(c) \notin {"store", "import", "export", "docker list"}
  <2>1. Helper(c, Picked(c, secrets))
    BY <1>8 DEF List
  <2>2. Op(c) # "exec"
    BY <1>0 DEF InTurn, Execs
  <2>3. ASSUME NEW code \in 0 .. 1, EndsWith(c, code)
        PROVE  Course' /\ InTurn(c)' /\ \A d \in Client \ {c} : Waits(d)
    BY <1>4, <1>8, <2>2, <2>3
  <2>4. ASSUME NEW n \in Names, Then(c, HelperCall(c), <<n>>), UNCHANGED exit,
               HelperCall(c) = "write" => OnlyOne(Picked(c, secrets), n)
                                          \/ (NoneYet(Picked(c, secrets)) /\ n = NewName(c))
        PROVE  Course' /\ InTurn(c)' /\ \A d \in Client \ {c} : Waits(d)
    <3>1. DOMAIN <<n>> = {1} /\ <<n>>[1] = n
      OBVIOUS
    <3>2. PICK part : part = <<n>>
      OBVIOUS
    <3>3. DOMAIN part = {1} /\ part[1] = n /\ Then(c, HelperCall(c), part)
      BY <2>4, <3>1, <3>2
    <3>4. DOMAIN part \subseteq Nat /\ \A i \in DOMAIN part : part[i] \in Names
      BY <3>3
    <3>5. HelperCall(c) \in {"get", "write", "delete"}
      BY DEF HelperCall
    <3>6. Course' /\ Continued(c, HelperCall(c), part)
      BY <1>0, <1>1, <2>4, <3>3, <3>4, <3>5, ContinuesIs
    <3>7. InTurn(c)'
      BY <1>3, <1>8, <2>2, <2>4, <3>3, <3>6, ListedForHelper
    <3> QED
      BY <3>6, <3>7 DEF Continued
  <2>5. CASE \E m, n \in Picked(c, secrets) : m # n
    <3>1. EndsWith(c, AmbiguousExit(c))
      BY <2>1, <2>5 DEF Helper
    <3>2. AmbiguousExit(c) \in 0 .. 1
      BY DEF AmbiguousExit
    <3> QED
      BY <2>3, <3>1, <3>2
  <2>6. CASE ~(\E m, n \in Picked(c, secrets) : m # n) /\ Picked(c, secrets) # {}
    <3>1. \E n \in Picked(c, secrets) :
              Then(c, HelperCall(c), <<n>>) /\ UNCHANGED exit /\ OnlyOne(Picked(c, secrets), n)
      BY <2>1, <2>6 DEF Helper, OnlyOne
    <3>2. PICK n \in Picked(c, secrets) :
              Then(c, HelperCall(c), <<n>>) /\ UNCHANGED exit /\ OnlyOne(Picked(c, secrets), n)
      BY <3>1
    <3>3. n \in Names
      <4>1. n \in DOMAIN secrets
        BY GitMatchIs DEF Picked, DockerMatch, Fitting
      <4> QED
        BY <1>0, <4>1 DEF IsTable
    <3>4. HelperCall(c) = "write" => OnlyOne(Picked(c, secrets), n)
                                     \/ (NoneYet(Picked(c, secrets)) /\ n = NewName(c))
      BY <3>2
    <3>5. Then(c, HelperCall(c), <<n>>) /\ UNCHANGED exit
      BY <3>2
    <3> QED
      BY <2>4, <3>3, <3>4, <3>5
  <2>7. CASE Picked(c, secrets) = {} /\ HelperCall(c) = "write"
    <3>1. Then(c, HelperCall(c), <<NewName(c)>>) /\ UNCHANGED exit
      BY <2>1, <2>7 DEF Helper
    <3>2. NewName(c) \in Names
      BY <1>0, <2>7, CommandAssumption DEF NewName, HelperCall, Op, Req
    <3>3. NoneYet(Picked(c, secrets))
      BY <2>7 DEF NoneYet
    <3> QED
      BY <2>4, <3>1, <3>2, <3>3
  <2>8. CASE Picked(c, secrets) = {} /\ HelperCall(c) # "write"
    <3>1. EndsWith(c, NoMatchExit(c))
      BY <2>1, <2>8 DEF Helper
    <3>2. NoMatchExit(c) \in 0 .. 1
      BY DEF NoMatchExit
    <3> QED
      BY <2>3, <3>1, <3>2
  <2> QED
    BY <2>5, <2>6, <2>7, <2>8
<1> QED
  BY <1>5, <1>6, <1>7, <1>8

\* A command begins: nothing that it has done, and nothing it relies on yet.
LEMMA RunsKeeps ==
  ASSUME ClientsIInv, NEW c \in Client, NEW k \in Commands, Runs(c, k)
  PROVE  ClientsIInv'
<1>0. ClientsTypeOK /\ Course /\ Books /\ \A d \in Client : InTurn(d)
  BY Halves DEF ClientsIInv
<1>1. /\ k.names \in Seq(Names) /\ (k.guard => k.do \in {"store", "import"})
      /\ k.guard \in BOOLEAN
  BY CommandAssumption
<1>2. DOMAIN k.names \subseteq Nat /\ \A i \in DOMAIN k.names : k.names[i] \in Names
  BY <1>1
<1>3. /\ First(k) \in {"list", "write", "delete", "get", "status"}
      /\ k.guard => First(k) = "list"
      /\ First(k) = "write" => k.do \in {"store", "import"}
      /\ k.do = "import" /\ First(k) = "list" => k.guard
      /\ k.do = "exec" => First(k) = "get"
      /\ k.do \in {"export", "git store", "docker store"} => First(k) = "list"
      /\ k.do = "import" => First(k) \in {"list", "write"}
  BY <1>1 DEF First
<1>4. /\ cmd' = [cmd EXCEPT ![c] = k]
      /\ listed' = [listed EXCEPT ![c] = Nothing] /\ got' = [got EXCEPT ![c] = Nothing]
      /\ missing' = [missing EXCEPT ![c] = FALSE] /\ exit' = [exit EXCEPT ![c] = 0]
      /\ serial' = [all |-> serial.all + 1, of |-> [serial.of EXCEPT ![c] = serial.all + 1]]
      /\ wrote' = [wrote EXCEPT ![c] = {}] /\ kept' = [kept EXCEPT ![c] = DOMAIN secrets]
      /\ quiet' = [quiet EXCEPT ![c] = TRUE] /\ UNCHANGED <<secrets, locked, fails>>
      /\ serial.all < MaxCommands
  BY DEF Runs, daemon
<1>5. /\ IF First(k) \in {"list", "status"}
         THEN next' = [next EXCEPT ![c] = First(k)] /\ todo' = [todo EXCEPT ![c] = <<>>]
         ELSE Then(c, First(k), k.names)
  BY DEF Runs
<1>6. exit' \in [Client -> 0 .. 1] /\ missing' \in [Client -> BOOLEAN]
      /\ \A d \in Client \ {c} : exit'[d] = exit[d] /\ missing'[d] = missing[d]
  BY <1>0, <1>4 DEF Course
<1>7. /\ Course'
      /\ First(k) \in {"list", "status"} => next'[c] = First(k)
      /\ First(k) \notin {"list", "status"} =>
            todo'[c] = k.names /\ next'[c] = IF DOMAIN k.names = {} THEN "done" ELSE First(k)
      /\ \A d \in Client \ {c} : next'[d] = next[d] /\ todo'[d] = todo[d]
  <2>1. CASE First(k) \in {"list", "status"}
    <3>1. next' = [next EXCEPT ![c] = First(k)] /\ todo' = [todo EXCEPT ![c] = <<>>]
      BY <1>5, <2>1
    <3>2. DOMAIN <<>> = {} /\ First(k) \in Calling /\ First(k) \notin {"get", "write", "delete"}
      BY <2>1 DEF Calling
    <3>3. /\ next' \in [Client -> Calling] /\ next'[c] = First(k)
          /\ DOMAIN todo' = Client /\ todo'[c] = <<>>
          /\ \A d \in Client \ {c} : next'[d] = next[d] /\ todo'[d] = todo[d]
      BY <1>0, <3>1, <3>2 DEF Course
    <3>4. ASSUME NEW d \in Client
          PROVE  /\ DOMAIN todo'[d] \subseteq Nat /\ \A i \in DOMAIN todo'[d] : todo'[d][i] \in Names
                 /\ next'[d] \in {"get", "write", "delete"} <=> DOMAIN todo'[d] # {}
      <4>1. CASE d = c
        BY <3>2, <3>3, <4>1
      <4>2. CASE d # c
        BY <1>0, <3>3, <4>2 DEF Course
      <4> QED
        BY <4>1, <4>2
    <3>5. Course'
      BY <1>6, <3>3, <3>4 DEF Course
    <3> QED
      BY <2>1, <3>3, <3>5
  <2>2. CASE First(k) \notin {"list", "status"}
    <3>1. Then(c, First(k), k.names) /\ First(k) \in {"get", "write", "delete"}
      BY <1>3, <1>5, <2>2
    <3>2. /\ Course' /\ todo'[c] = k.names
          /\ next'[c] = IF DOMAIN k.names = {} THEN "done" ELSE First(k)
          /\ \A d \in Client \ {c} : next'[d] = next[d] /\ todo'[d] = todo[d]
      <4>1. \A call, part :
                /\ Then(c, call, part) /\ call \in {"get", "write", "delete"}
                /\ DOMAIN part \subseteq Nat /\ \A i \in DOMAIN part : part[i] \in Names
                => /\ Course' /\ todo'[c] = part
                   /\ next'[c] = IF DOMAIN part = {} THEN "done" ELSE call
                   /\ \A d \in Client \ {c} : next'[d] = next[d] /\ todo'[d] = todo[d]
        BY <1>0, <1>6, ThenIs
      <4> QED
        BY <1>2, <3>1, <4>1
    <3> QED
      BY <2>2, <3>2
  <2> QED
    BY <2>1, <2>2
<1>8. /\ cmd'[c] = k /\ wrote'[c] = {} /\ kept'[c] = DOMAIN secrets /\ secrets' = secrets
      /\ \A d \in Client \ {c} : /\ cmd'[d] = cmd[d] /\ listed'[d] = listed[d] /\ got'[d] = got[d]
                                 /\ wrote'[d] = wrote[d] /\ kept'[d] = kept[d] /\ quiet'[d] = quiet[d]
  BY <1>0, <1>4 DEF Books
<1>9. /\ serial'.all = serial.all + 1 /\ serial'.of = [serial.of EXCEPT ![c] = serial.all + 1]
      /\ serial.all \in 0 .. MaxCommands /\ serial.of \in [Client -> 0 .. serial.all]
      /\ MaxCommands \in Nat /\ serial.all < MaxCommands
  BY <1>0, <1>4, ClientsAssumption DEF Books
<1>10. /\ serial'.all \in 0 .. MaxCommands /\ serial'.of \in [Client -> 0 .. serial'.all]
       /\ serial'.of[c] \in 1 .. MaxCommands
       /\ \A d \in Client \ {c} : serial'.of[d] = serial.of[d]
  BY <1>9
<1>11. Books'
  <2>1. IsTable(Nothing)
    BY DEF IsTable, Nothing
  <2>2. IsTable(secrets') /\ locked' \in BOOLEAN /\ fails' \in 0 .. MaxFails
    BY <1>0, <1>4 DEF Books
  <2>3. /\ cmd' \in [Client -> Commands \cup {Idle}] /\ quiet' \in [Client -> BOOLEAN]
        /\ wrote' \in [Client -> SUBSET Names] /\ kept' \in [Client -> SUBSET Names]
    <3>1. DOMAIN secrets \in SUBSET Names
      BY <1>0 DEF Books, IsTable
    <3> QED
      BY <1>0, <1>4, <3>1 DEF Books
  <2>4. /\ DOMAIN listed' = Client /\ DOMAIN got' = Client
        /\ \A d \in Client : IsTable(listed'[d]) /\ IsTable(got'[d])
    BY <1>0, <1>4, <2>1 DEF Books
  <2> QED
    BY <1>10, <2>2, <2>3, <2>4 DEF Books, IsTable
<1>12. InTurn(c)'
  <2>1. Asked(c)'
    BY <1>8, <1>10 DEF Asked
  <2>2. Keeps(c)'
    BY <1>3, <1>7, <1>8 DEF Keeps
  <2>3. Exports(c)'
    BY <1>3, <1>7, <1>8 DEF Exports, Op, Succeeded
  <2>4. Execs(c)'
    BY <1>3, <1>7, <1>8 DEF Execs, Op, Succeeded
  <2>5. Imports(c)'
    BY <1>3, <1>7, <1>8 DEF Imports, Op, Succeeded, Finished
  <2>6. Helps(c)'
    BY <1>3, <1>7, <1>8 DEF Helps, Op, Succeeded
  <2> QED
    BY <2>1, <2>2, <2>3, <2>4, <2>5, <2>6 DEF InTurn
<1>13. \A d \in Client \ {c} : Waits(d) /\ Retains(d)
  BY <1>6, <1>7, <1>8, <1>10 DEF Waits, Retains
<1>14. \A d \in Client \ {c} : Fewer(d)
  BY <1>0, <1>8 DEF Fewer, InTurn, Asked
<1> QED
  BY <1>7, <1>11, <1>12, <1>13, <1>14, Composed

LEMMA ClientsInitIInv == ClientsInit => ClientsIInv
<1> SUFFICES ASSUME ClientsInit
             PROVE  ClientsIInv
  OBVIOUS
<1> USE DEF ClientsInit
<1>0. MaxCommands \in Nat /\ MaxFails \in Nat /\ DOMAIN Nothing = {} /\ DOMAIN <<>> = {}
  BY ClientsAssumption DEF Nothing
<1>1. IsTable(Nothing)
  BY <1>0 DEF IsTable
<1>2. \A c \in Client : /\ cmd[c] = Idle /\ next[c] = "done" /\ wrote[c] = {} /\ kept[c] = {}
                        /\ DOMAIN todo[c] = {} /\ listed[c] = Nothing /\ got[c] = Nothing
  BY <1>0
<1>3. ClientsTypeOK
  BY <1>0, <1>1, <1>2 DEF ClientsTypeOK
<1>4. Idle.do = "none" /\ Idle.guard = FALSE
  BY DEF Idle
<1>5. \A c \in Client : InTurn(c)
  BY <1>2, <1>4 DEF InTurn, Asked, Keeps, Exports, Execs, Imports, Helps, Op
<1> QED
  BY <1>3, <1>5 DEF ClientsIInv

LEMMA ClientsNextIInv == ClientsIInv /\ [ClientsNext]_clientsVars => ClientsIInv'
<1> SUFFICES ASSUME ClientsIInv, [ClientsNext]_clientsVars
             PROVE  ClientsIInv'
  OBVIOUS
<1>1. ASSUME NEW c \in Client, NEW k \in Commands, Runs(c, k)
      PROVE  ClientsIInv'
  BY <1>1, RunsKeeps
<1>2. ASSUME NEW c \in Client, List(c) \/ ListFails(c)
      PROVE  ClientsIInv'
  BY <1>2, ListKeeps, ListFailsKeeps
<1>3. ASSUME NEW c \in Client, Get(c) \/ GetFails(c)
      PROVE  ClientsIInv'
  BY <1>3, GetKeeps, GetFailsKeeps
<1>4. ASSUME NEW c \in Client, Store(c) \/ StoreRejected(c) \/ WriteFails(c)
      PROVE  ClientsIInv'
  BY <1>4, StoreKeeps, RejectedKeeps, WriteFailsKeeps
<1>5. ASSUME NEW c \in Client, Delete(c) \/ DeleteRejected(c)
      PROVE  ClientsIInv'
  BY <1>5, DeleteKeeps, RejectedKeeps
<1>6. ASSUME NEW c \in Client, Status(c) \/ Unlock(c) \/ Report(c)
      PROVE  ClientsIInv'
  BY <1>6, UnlockingKeeps
<1>7. CASE Lock
  BY <1>7, LockKeeps
<1>8. CASE UNCHANGED clientsVars
  <2>1. Course /\ Books /\ \A d \in Client : InTurn(d)
    BY Halves DEF ClientsIInv
  <2>2. /\ UNCHANGED <<secrets, locked, fails, cmd, next, todo, listed, got, missing, exit>>
        /\ UNCHANGED <<serial, history>>
    BY <1>8 DEF clientsVars, daemon
  <2>3. Course' /\ Books'
    BY <2>1, <2>2 DEF Course, Books, IsTable, history
  <2>4. \A d \in Client : InTurn(d)'
    BY <2>1, <2>2, VaultStays, InTurnElsewhere DEF Waits, Retains, history
  <2>5. ClientsTypeOK'
    BY <2>3, Halves, PTL
  <2> QED
    BY <2>4, <2>5 DEF ClientsIInv
<1> QED
  BY <1>1, <1>2, <1>3, <1>4, <1>5, <1>6, <1>7, <1>8 DEF ClientsNext

\* Whatever the commands and however many processes, each is in turn: it has
\* done what it should have by the call it makes next.
THEOREM ClientsInvariantHolds == ClientsSpec => []ClientsIInv
BY ClientsInitIInv, ClientsNextIInv, PTL DEF ClientsSpec

\* --no-overwrite (store, import) replaces no secret that was there when the
\* command began, whatever others do to the vault between its list and its
\* stores.
THEOREM NothingOverwritten == ClientsSpec => []NoOverwriteKeeps
<1>1. ClientsIInv => NoOverwriteKeeps
  BY DEF ClientsIInv, InTurn, Keeps, NoOverwriteKeeps
<1> QED
  BY <1>1, ClientsInvariantHolds, PTL

\* export, exec and import do all they were asked for or fail: none of them
\* succeeds without a secret, and an import stores in name order.
THEOREM AllOrFailure == ClientsSpec => []WholeOrFails
<1>1. ClientsIInv => WholeOrFails
  BY DEF ClientsIInv, InTurn, Exports, Execs, Imports, Finished, WholeOrFails
<1> QED
  BY <1>1, ClientsInvariantHolds, PTL

\* What git or docker has had its helper store is what it is given for the same
\* request, and nothing else, as long as no other process changes the vault.
THEOREM FoundAgain == ClientsSpec => []StoredIsAnswered
<1>1. ClientsIInv => StoredIsAnswered
  BY DEF ClientsIInv, InTurn, Helps, Answered, StoredIsAnswered
<1> QED
  BY <1>1, ClientsInvariantHolds, PTL

-----------------------------------------------------------------------------
(* Calls: the inductive invariant *)

USE BoundAssumption, PlanAssumption


\* Handlers that have decided nothing, and so answered nothing.
Undecided == {"none", "reading", "dispatch", "stuck", "loaded", "hung"}

\* A call that has not dialled is known to no daemon.
DiallingFirst(k) ==
    /\ pc[k] \in {"new", "check", "dial"} => to[k] = 0
    /\ to[k] = 0 <=> srv[k] = "none"
    /\ to[k] = 0 => h[k] = "none"

\* Decision, answer and return come in this order, and agree.
AnswerAgrees(k) ==
    /\ h[k] \in Undecided => decided[k] = "none"
    /\ h[k] = "respond" => decided[k] \in {"ok", "code"}
    /\ h[k] \in Undecided => answer[k] = "nothing"
    /\ h[k] = "respond" => answer[k] \in {"nothing", "part"}
    /\ kind[k] # "huge" /\ answer[k] \in {"ok", "code"} => answer[k] = decided[k]
    /\ pc[k] = "decode" => answer[k] \in {"ok", "code"}
    /\ told[k] = "none" <=> pc[k] # "returned"
    /\ told[k] \in {"ok", "code"} => told[k] = decided[k]
    /\ told[k] \in {"invalid", "not running", "dial"} => to[k] = 0

InOrder == \A k \in Call : DiallingFirst(k) /\ AnswerAgrees(k)

\* The caller's copies are gone when it returns, but for the line of a call that
\* failed: nothing is in the buffer before the response, or when it is decoded.
ClientWiped(k) ==
    /\ pc[k] = "returned" => mem[k] \cap OfClient \subseteq {"line"}
    /\ "line" \in mem[k] => \/ pc[k] = "read"
                            \/ pc[k] = "returned" /\ told[k] \notin {"ok", "code"}

\* The handler's are gone when it has answered, and there are none before it has
\* read the request, but for the line of a request it does not get to decide and
\* for the value of a get it has decided.
HandlerWiped(k) ==
    /\ h[k] \in {"none", "reading", "answered", "over"} =>
          mem[k] \cap OfServer \subseteq {"input", "value"}
    /\ h[k] = "respond" => "request" \notin mem[k]
    /\ "input" \in mem[k] => h[k] \in {"reading", "over"} /\ decided[k] = "none"
    /\ "value" \in mem[k] => kind[k] \in Brings /\ decided[k] = "ok"

Wiped == \A k \in Call : ClientWiped(k) /\ HandlerWiped(k)

\* One write of a daemon at a time is between its reading and its writing.
OneWriter ==
    \A j, k \in Call : h[j] = "loaded" /\ h[k] = "loaded" /\ to[j] = to[k] => j = k

\* Another daemon than k's has decided something.
Overtaken(k) == \E j \in Call : to[j] \notin {0, to[k]} /\ decided[j] # "none"

\* A decided store is in the file and in what its daemon's writer has read.
StoreIsKept ==
    \A k \in Call : kind[k] = "store" /\ decided[k] = "ok" =>
        \/ Overtaken(k)
        \/ /\ k \in vault.file
           /\ \A j \in Call : h[j] = "loaded" /\ to[j] = to[k] => k \in vault.read[j]

IInv == TypeOK /\ InOrder /\ Wiped /\ OneWriter /\ StoreIsKept

-----------------------------------------------------------------------------
(* Types *)

LEMMA InitIInv == Init => IInv
<1> SUFFICES ASSUME Init PROVE IInv
  OBVIOUS
<1>1. PICK plan \in Plans : /\ kind = [k \in Call |-> plan[k].kind]
                            /\ ctx = [k \in Call |-> plan[k].ctx]
  BY DEF Init
<1>2. plan \in [Call -> [kind: Kinds \cup {"none"}, ctx: {"none", "live"}]]
  OBVIOUS
<1>3. kind \in [Call -> Kinds \cup {"none"}] /\ ctx \in [Call -> {"none", "live", "done"}]
  BY <1>1, <1>2
<1>4. TypeOK
  BY <1>3 DEF Init, TypeOK, Outcomes
<1> QED
  BY <1>4 DEF Init, IInv, InOrder, DiallingFirst, AnswerAgrees, Wiped, ClientWiped,
     HandlerWiped, OneWriter, StoreIsKept

\* Whatever a call returns with leaves the types as they are.
LEMMA ReturnsType ==
  ASSUME TypeOK, NEW k \in Call, NEW outcome \in Outcomes, Returns(k, outcome)
  PROVE  TypeOK'
BY ZenonT(60) DEF TypeOK, Returns, ClearsAll, Clears, wire, daemons

LEMMA CallerType ==
  ASSUME TypeOK, InOrder, NEW k \in Call,
         Begin(k) \/ Caller(k) \/ Cancel(k) \/ TimesOut(k)
  PROVE  TypeOK'
<1>1. CASE Begin(k)
  BY <1>1 DEF TypeOK, Begin, Goes, Holds, wire, daemons, OfClient
<1>2. CASE RefuseNil(k)
  BY <1>2, ReturnsType DEF RefuseNil, Outcomes
<1>3. CASE NewRequest(k)
  BY <1>3 DEF TypeOK, NewRequest, Goes, Holds, wire, daemons, OfClient
<1>4. CASE NotRunning(k)
  BY <1>4, ReturnsType DEF NotRunning, Outcomes
<1>5. CASE Dial(k)
  BY <1>5 DEF TypeOK, Dial, Goes, daemons
<1>6. CASE DialFails(k)
  BY <1>6, ReturnsType DEF DialFails, Outcomes
<1>7. CASE AfterFunc(k)
  BY ZenonT(60), <1>7 DEF TypeOK, AfterFunc, wire, daemons
<1>8. CASE WritePart(k)
  BY <1>8 DEF TypeOK, WritePart, client, daemons
<1>9. CASE WriteRest(k)
  BY <1>9 DEF TypeOK, WriteRest, Goes, daemons
<1>10. CASE IOFails(k)
  BY <1>10, ReturnsType DEF IOFails, IOError, Outcomes
<1>11. CASE ReadResponse(k)
  BY <1>11 DEF TypeOK, ReadResponse, Goes, Decodes, wire, daemons, OfClient
<1>12. CASE Decode(k)
  <2>1. answer[k] \in Outcomes
    BY <1>12 DEF Decode, InOrder, AnswerAgrees, Outcomes
  <2> QED
    BY <1>12, <2>1, ReturnsType DEF Decode, Outcomes
<1>13. CASE Cancel(k)
  BY <1>13 DEF TypeOK, Cancel, wire, daemons
<1>14. CASE TimesOut(k)
  BY <1>14, ReturnsType DEF TimesOut, Outcomes
<1>15. CASE ReadPart(k)
  BY <1>15 DEF TypeOK, ReadPart, Holds, client, wire, daemons, OfClient
<1> QED
  BY <1>1, <1>2, <1>3, <1>4, <1>5, <1>6, <1>7, <1>8, <1>9, <1>10, <1>11,
     <1>12, <1>13, <1>14, <1>15 DEF Caller

LEMMA DecidesType ==
  ASSUME TypeOK, NEW k \in Call, NEW code \in {"ok", "code"}, Decides(k, code)
  PROVE  decided' \in [Call -> {"none", "ok", "code"}]
         /\ mem' \in [Call -> SUBSET (OfClient \cup OfServer)]
BY DEF TypeOK, Decides, Decodes, OfServer

LEMMA HandlerType ==
  ASSUME TypeOK, InOrder, NEW k \in Call, Handler(k) \/ GetsStuck(k)
  PROVE  TypeOK'
<1>1. CASE Accept(k)
  BY <1>1 DEF TypeOK, Accept, Moves, client, wire, daemons
<1>2. CASE ReadRequest(k)
  BY <1>2 DEF TypeOK, ReadRequest, Moves, Decodes, client, wire, daemons, OfServer
<1>3. CASE TooLong(k)
  BY <1>3 DEF TypeOK, TooLong, Moves, client, daemons
<1>4. CASE EndOfInput(k)
  <2>1. h' = [h EXCEPT ![k] = "over"] /\ srv' = [srv EXCEPT ![k] = "closed"]
    BY <1>4 DEF EndOfInput, Moves
  <2>2. UNCHANGED <<client, wire, decided, vault, daemons, mem>>
    BY <1>4 DEF EndOfInput
  <2> QED
    BY <2>1, <2>2 DEF TypeOK, client, wire, daemons
<1>5. CASE GetsStuck(k)
  BY <1>5 DEF TypeOK, GetsStuck, Moves, client, wire, daemons
<1>6. CASE Load(k)
  BY <1>6 DEF TypeOK, Load, Moves, client, wire, daemons
<1>7. CASE WriteVault(k)
  <2>1. PICK code \in {"ok", "code"} : Decides(k, code)
    BY <1>7 DEF WriteVault
  <2>2. vault' \in [file: SUBSET Call, read: [Call -> SUBSET Call]]
    <3>1. /\ vault \in [file: SUBSET Call, read: [Call -> SUBSET Call]]
          /\ vault.read \in [Call -> SUBSET Call]
          /\ vault.read[k] \cup {k} \in SUBSET Call
      BY ZenonT(60) DEF TypeOK
    <3>2. [vault.read EXCEPT ![k] = {}] \in [Call -> SUBSET Call]
      BY <3>1
    <3>3. CASE vault' = [vault EXCEPT !.file = vault.read[k] \cup {k}, !.read[k] = {}]
      BY <3>1, <3>2, <3>3
    <3>4. CASE vault' = [vault EXCEPT !.read[k] = {}]
      BY <3>1, <3>2, <3>4
    <3> QED
      BY <1>7, <3>3, <3>4 DEF WriteVault
  <2> QED
    BY <1>7, <2>1, <2>2, DecidesType
       DEF TypeOK, WriteVault, Moves, Decides, client, wire, daemons
<1>8. CASE Dispatch(k)
  <2>1. PICK code \in {"ok", "code"} : Decides(k, code)
    BY <1>8 DEF Dispatch
  <2> QED
    BY <1>8, <2>1, DecidesType DEF TypeOK, Dispatch, Moves, Decides, client, wire, daemons
<1>9. CASE Respond(k)
  <2>1. mem' \in [Call -> SUBSET (OfClient \cup OfServer)]
    BY <1>9 DEF TypeOK, Respond, ClearsResult, Clears
  <2>2. decided[k] \in {"ok", "code"}
    BY <1>9 DEF Respond, Moves, InOrder, AnswerAgrees
  <2>3. UNCHANGED <<client, sent, to, decided, vault, daemons>>
    BY <1>9 DEF Respond
  <2>4. CASE srv[k] = "open" /\ k \notin cut
    <3>1. PICK a \in {"ok", "code", "too long"} : answer' = [answer EXCEPT ![k] = a]
      BY <1>9, <2>2, <2>4 DEF Respond
    <3>2. h' = [h EXCEPT ![k] = "answered"] /\ srv' = srv
      BY <1>9, <2>4 DEF Respond, Moves
    <3> QED
      BY <2>1, <2>3, <3>1, <3>2 DEF TypeOK, client, daemons
  <2>5. CASE ~(srv[k] = "open" /\ k \notin cut)
    <3>1. /\ h' = [h EXCEPT ![k] = "over"] /\ srv' = [srv EXCEPT ![k] = "closed"]
          /\ answer' = answer
      BY <1>9, <2>5 DEF Respond, Moves
    <3> QED
      BY <2>1, <2>3, <3>1 DEF TypeOK, client, daemons
  <2> QED
    BY <2>4, <2>5
<1>10. CASE Receive(k)
  BY <1>10 DEF TypeOK, Receive, Holds, client, wire, daemons, OfServer
<1>11. CASE RespondPart(k)
  BY <1>11 DEF TypeOK, RespondPart, client, daemons
<1> QED
  BY <1>1, <1>2, <1>3, <1>4, <1>5, <1>6, <1>7, <1>8, <1>9, <1>10, <1>11 DEF Handler

LEMMA DaemonType ==
  ASSUME TypeOK, NEW d \in Daemon, Start(d) \/ Stop(d) \/ Shutdown(d) \/ Kill(d)
  PROVE  TypeOK'
<1>1. CASE Start(d)
  <2>1. d \in 0 .. MaxDaemons
    BY DEF Daemon
  <2> QED
    BY <1>1, <2>1 DEF TypeOK, Start, client, wire
<1>2. CASE Stop(d)
  <2>1. 0 \in 0 .. MaxDaemons
    OBVIOUS
  <2>2. srv' \in [Call -> {"none", "queued", "open", "closed"}]
    BY <1>2 DEF TypeOK, Stop
  <2>3. life' \in [Daemon -> {"unborn", "serving", "stopping", "closing", "over"}]
    BY <1>2 DEF TypeOK, Stop
  <2> QED
    BY <1>2, <2>1, <2>2, <2>3 DEF TypeOK, Stop, client, wire
<1>3. CASE CloseConns(d)
  BY <1>3 DEF TypeOK, CloseConns, Closed, client, wire
<1>4. CASE Exit(d)
  BY <1>4 DEF TypeOK, Exit, Forgotten, client, wire
<1>5. CASE Kill(d)
  BY <1>5 DEF TypeOK, Kill, Closed, Forgotten, client, wire
<1> QED
  BY <1>1, <1>2, <1>3, <1>4, <1>5 DEF Shutdown

-----------------------------------------------------------------------------
(* No step disturbs the order of events at a connection *)

LEMMA CallerOrder ==
  ASSUME IInv, NEW k \in Call,
         Begin(k) \/ Caller(k) \/ Cancel(k) \/ TimesOut(k)
  PROVE  InOrder'
<1> SUFFICES ASSUME NEW j \in Call PROVE DiallingFirst(j)' /\ AnswerAgrees(j)'
  BY DEF InOrder
<1>0. /\ TypeOK
      /\ DiallingFirst(j) /\ AnswerAgrees(j) /\ DiallingFirst(k) /\ AnswerAgrees(k)
  BY DEF IInv, InOrder
<1> USE DEF DiallingFirst, AnswerAgrees
<1>1. CASE Begin(k)
  BY ZenonT(60), <1>0, <1>1 DEF TypeOK, Begin, Goes, wire
<1>2. CASE RefuseNil(k)
  BY ZenonT(60), <1>0, <1>2 DEF TypeOK, RefuseNil, Returns, wire
<1>3. CASE NewRequest(k)
  BY ZenonT(60), <1>0, <1>3 DEF TypeOK, NewRequest, Goes, wire
<1>4. CASE NotRunning(k)
  BY ZenonT(60), <1>0, <1>4 DEF TypeOK, NotRunning, Returns, wire
<1>5. CASE Dial(k)
  <2>1. sock # 0
    BY <1>5 DEF Dial, Listens, Daemon
  <2>2. /\ pc[k] = "dial" /\ pc' = [pc EXCEPT ![k] = "write"]
        /\ to' = [to EXCEPT ![k] = sock] /\ srv' = [srv EXCEPT ![k] = "queued"]
        /\ UNCHANGED <<kind, told, answer, h, decided>>
    BY <1>5 DEF Dial, Goes
  <2>3. /\ pc \in [Call -> {"new", "check", "dial", "write", "read", "decode", "returned"}]
        /\ to \in [Call -> 0 .. MaxDaemons]
        /\ srv \in [Call -> {"none", "queued", "open", "closed"}]
    BY <1>0 DEF TypeOK
  <2> QED
    BY <1>0, <2>1, <2>2, <2>3
<1>6. CASE DialFails(k)
  BY ZenonT(60), <1>0, <1>6 DEF TypeOK, DialFails, Returns, wire
<1>7. CASE AfterFunc(k)
  BY <1>0, <1>7 DEF TypeOK, AfterFunc, wire
<1>8. CASE WritePart(k)
  BY <1>0, <1>8 DEF TypeOK, WritePart, client
<1>9. CASE WriteRest(k)
  BY ZenonT(60), <1>0, <1>9 DEF TypeOK, WriteRest, Writable, Goes
<1>10. CASE IOFails(k)
  BY ZenonT(60), <1>0, <1>10 DEF TypeOK, IOFails, IOError, Returns, wire
<1>11. CASE ReadResponse(k)
  BY ZenonT(60), <1>0, <1>11 DEF TypeOK, ReadResponse, Goes, wire
<1>12. CASE Decode(k)
  <2>1. /\ pc' = [pc EXCEPT ![k] = "returned"] /\ pc[k] = "decode"
        /\ UNCHANGED <<kind, answer, to, srv, h, decided>>
    BY <1>12 DEF Decode, Returns, wire
  <2>2. PICK outcome \in {"protocol", "ok", "code"} :
           /\ told' = [told EXCEPT ![k] = outcome]
           /\ outcome # "protocol" => outcome = decided[k]
    BY <1>0, <1>12 DEF Decode, Returns
  <2>3. /\ told \in [Call -> Outcomes]
        /\ pc \in [Call -> {"new", "check", "dial", "write", "read", "decode", "returned"}]
    BY <1>0 DEF TypeOK
  <2>4. CASE j = k
    BY <1>0, <2>1, <2>2, <2>3, <2>4
  <2>5. CASE j # k
    BY <1>0, <2>1, <2>2, <2>3, <2>5
  <2> QED
    BY <2>4, <2>5
<1>13. CASE Cancel(k)
  BY <1>0, <1>13 DEF TypeOK, Cancel, wire
<1>14. CASE TimesOut(k)
  BY ZenonT(60), <1>0, <1>14 DEF TypeOK, TimesOut, Returns, wire
<1>15. CASE ReadPart(k)
  BY <1>0, <1>15 DEF ReadPart, client, wire
<1> QED
  BY <1>1, <1>2, <1>3, <1>4, <1>5, <1>6, <1>7, <1>8, <1>9, <1>10, <1>11,
     <1>12, <1>13, <1>14, <1>15 DEF Caller

LEMMA HandlerOrder ==
  ASSUME IInv, NEW k \in Call, Handler(k) \/ GetsStuck(k)
  PROVE  InOrder'
<1> SUFFICES ASSUME NEW j \in Call PROVE DiallingFirst(j)' /\ AnswerAgrees(j)'
  BY DEF InOrder
<1>0. /\ h \in [Call -> {"none", "reading", "dispatch", "stuck", "loaded", "hung", "respond",
                          "answered", "over"}]
      /\ srv \in [Call -> {"none", "queued", "open", "closed"}]
      /\ answer \in [Call -> {"nothing", "part", "ok", "code", "too long"}]
      /\ decided \in [Call -> {"none", "ok", "code"}]
      /\ DiallingFirst(j) /\ AnswerAgrees(j) /\ DiallingFirst(k) /\ AnswerAgrees(k)
  BY DEF IInv, InOrder, TypeOK
<1> USE DEF DiallingFirst, AnswerAgrees, Undecided
<1>1. CASE Accept(k)
  BY <1>0, <1>1 DEF Accept, Moves, client, wire
<1>2. CASE ReadRequest(k)
  BY <1>0, <1>2 DEF ReadRequest, Moves, client, wire
<1>3. CASE TooLong(k)
  BY <1>0, <1>3 DEF TooLong, Moves, client
<1>4. CASE EndOfInput(k)
  BY ZenonT(60), <1>0, <1>4 DEF EndOfInput, Moves, client, wire
<1>5. CASE GetsStuck(k)
  BY <1>0, <1>5 DEF GetsStuck, Moves, client, wire
<1>6. CASE Load(k)
  BY <1>0, <1>6 DEF Load, Moves, client, wire
<1>7. CASE WriteVault(k)
  <2>1. PICK code \in {"ok", "code"} : Decides(k, code)
    BY <1>7 DEF WriteVault
  <2> QED
    BY <1>0, <1>7, <2>1 DEF WriteVault, Moves, Decides, client, wire
<1>8. CASE Dispatch(k)
  <2>1. PICK code \in {"ok", "code"} : Decides(k, code)
    BY <1>8 DEF Dispatch
  <2> QED
    BY <1>0, <1>8, <2>1 DEF Dispatch, Moves, Decides, client, wire
<1>9. CASE Respond(k)
  <2>1. CASE srv[k] = "open" /\ k \notin cut
    BY ZenonT(60), <1>0, <1>9, <2>1 DEF Respond, Moves, client
  <2>2. CASE ~(srv[k] = "open" /\ k \notin cut)
    BY ZenonT(60), <1>0, <1>9, <2>2 DEF Respond, Moves, client
  <2> QED
    BY <2>1, <2>2
<1>10. CASE Receive(k)
  BY <1>0, <1>10 DEF Receive, client, wire
<1>11. CASE RespondPart(k)
  BY <1>0, <1>11 DEF RespondPart, client
<1> QED
  BY <1>1, <1>2, <1>3, <1>4, <1>5, <1>6, <1>7, <1>8, <1>9, <1>10, <1>11 DEF Handler

LEMMA DaemonOrder ==
  ASSUME IInv, NEW d \in Daemon, Start(d) \/ Stop(d) \/ Shutdown(d) \/ Kill(d)
  PROVE  InOrder'
<1> SUFFICES ASSUME NEW j \in Call PROVE DiallingFirst(j)' /\ AnswerAgrees(j)'
  BY DEF InOrder
<1>0. TypeOK /\ DiallingFirst(j) /\ AnswerAgrees(j) /\ d # 0
  BY DEF IInv, InOrder, Daemon
<1> USE DEF DiallingFirst, AnswerAgrees, Undecided
<1>1. CASE Start(d)
  BY <1>0, <1>1 DEF TypeOK, Start, client, wire
<1>2. CASE Stop(d)
  BY <1>0, <1>2 DEF TypeOK, Stop, Of, client, wire
<1>3. CASE CloseConns(d)
  BY <1>0, <1>3 DEF TypeOK, CloseConns, Closed, Of, client, wire
<1>4. CASE Exit(d)
  BY <1>0, <1>4 DEF TypeOK, Exit, client, wire
<1>5. CASE Kill(d)
  BY <1>0, <1>5 DEF TypeOK, Kill, Closed, Of, client, wire
<1> QED
  BY <1>1, <1>2, <1>3, <1>4, <1>5 DEF Shutdown

-----------------------------------------------------------------------------
(* No step leaves a secret behind *)

LEMMA CallerWipes ==
  ASSUME IInv, NEW k \in Call,
         Begin(k) \/ Caller(k) \/ Cancel(k) \/ TimesOut(k)
  PROVE  Wiped'
<1> SUFFICES ASSUME NEW j \in Call PROVE ClientWiped(j)' /\ HandlerWiped(j)'
  BY DEF Wiped
<1> USE DEF ClientWiped, HandlerWiped
<1>0. /\ ClientWiped(j) /\ HandlerWiped(j) /\ ClientWiped(k)
      /\ pc \in [Call -> {"new", "check", "dial", "write", "read", "decode", "returned"}]
      /\ told \in [Call -> Outcomes]
      /\ mem \in [Call -> SUBSET (OfClient \cup OfServer)]
      /\ told[k] = "none" <=> pc[k] # "returned"
  BY DEF IInv, Wiped, TypeOK, InOrder, AnswerAgrees
\* A step that ends the call removes the caller's copies and adds none.  There is
\* a line only if it was reading.
<1>1. ASSUME NEW outcome, Returns(k, outcome), pc[k] # "returned",
             outcome \in {"ok", "code"} => pc[k] # "read"
      PROVE  ClientWiped(j)' /\ HandlerWiped(j)'
  <2>1. /\ pc' = [pc EXCEPT ![k] = "returned"] /\ told' = [told EXCEPT ![k] = outcome]
        /\ mem' = [mem EXCEPT ![k] = @ \ {"identity", "params", "result"}]
        /\ UNCHANGED <<kind, h, decided>>
    BY <1>1 DEF Returns, ClearsAll, Clears
  <2>2. /\ mem'[j] \cap OfServer = mem[j] \cap OfServer
        /\ \A c \in {"line", "input", "request", "value"} : c \in mem'[j] <=> c \in mem[j]
    BY <1>0, <2>1 DEF OfServer
  <2>3. CASE j = k
    BY <1>0, <1>1, <2>1, <2>2, <2>3 DEF OfClient
  <2>4. CASE j # k
    BY <1>0, <2>1, <2>2, <2>4
  <2> QED
    BY <2>3, <2>4
\* A step that adds some of the caller's copies, other than the line, goes on.
<1>2. ASSUME NEW places \in SUBSET {"identity", "params"},
             NEW at \in {"check", "dial"}, pc[k] \in {"new", "check"},
             pc' = [pc EXCEPT ![k] = at], Holds(k, places), UNCHANGED <<told, kind, h, decided>>
      PROVE  ClientWiped(j)' /\ HandlerWiped(j)'
  <2>1. /\ mem'[j] \cap OfServer = mem[j] \cap OfServer
        /\ \A c \in {"line", "input", "request", "value"} : c \in mem'[j] <=> c \in mem[j]
    BY <1>0, <1>2 DEF Holds, OfServer
  <2>2. mem'[j] = mem[j] \/ (j = k /\ pc'[j] # "returned")
    BY <1>0, <1>2 DEF Holds
  <2> QED
    BY <1>0, <1>2, <2>1, <2>2
\* A step that touches none of them does not end the call.
<1>3. ASSUME UNCHANGED <<told, kind, h, decided, mem>>,
             \/ UNCHANGED pc
             \/ /\ pc[k] \in {"dial", "write"}
                /\ \E at \in {"write", "read"} : pc' = [pc EXCEPT ![k] = at]
      PROVE  ClientWiped(j)' /\ HandlerWiped(j)'
  BY <1>0, <1>3
<1>4. CASE RefuseNil(k) \/ NotRunning(k) \/ DialFails(k) \/ IOFails(k) \/ Decode(k) \/ TimesOut(k)
  <2>1. CASE RefuseNil(k) \/ NotRunning(k) \/ DialFails(k)
    BY <1>1, <2>1 DEF RefuseNil, NotRunning, DialFails
  <2>2. CASE IOFails(k) \/ TimesOut(k)
    BY <1>1, <2>2 DEF IOFails, IOError, TimesOut
  <2>3. CASE Decode(k)
    BY <1>1, <2>3 DEF Decode
  <2> QED
    BY <1>4, <2>1, <2>2, <2>3
<1>5. CASE Begin(k) \/ NewRequest(k)
  BY <1>2, <1>5 DEF Begin, NewRequest, Goes
<1>6. CASE Dial(k) \/ AfterFunc(k) \/ WritePart(k) \/ WriteRest(k) \/ Cancel(k)
  BY <1>3, <1>6 DEF Dial, AfterFunc, WritePart, WriteRest, Cancel, Goes, client
<1>7. CASE ReadPart(k)
  <2>1. /\ pc[k] = "read" /\ mem' = [mem EXCEPT ![k] = @ \cup {"line"}]
        /\ UNCHANGED <<pc, told, kind, h, decided>>
    BY <1>7 DEF ReadPart, Holds, client
  <2>2. /\ mem'[j] \cap OfServer = mem[j] \cap OfServer
        /\ mem'[j] = mem[j] \/ pc'[j] = "read"
        /\ \A c \in {"input", "request", "value"} : c \in mem'[j] <=> c \in mem[j]
    BY <1>0, <2>1 DEF OfServer
  <2> QED
    BY <1>0, <2>1, <2>2
<1>8. CASE ReadResponse(k)
  <2>1. PICK places \in SUBSET {"result"} :
           mem' = [mem EXCEPT ![k] = (@ \ {"line"}) \cup places]
    BY <1>8 DEF ReadResponse, Decodes
  <2>2. /\ pc' = [pc EXCEPT ![k] = "decode"]
        /\ UNCHANGED <<told, kind, h, decided>>
    BY <1>8 DEF ReadResponse, Goes
  <2>3. /\ mem'[j] \cap OfServer = mem[j] \cap OfServer
        /\ \/ mem'[j] = mem[j] /\ pc'[j] = pc[j]
           \/ pc'[j] = "decode" /\ "line" \notin mem'[j]
        /\ \A c \in {"input", "request", "value"} : c \in mem'[j] <=> c \in mem[j]
    <3>1. CASE j = k
      BY <1>0, <2>1, <2>2, <3>1 DEF OfServer
    <3>2. CASE j # k
      BY <1>0, <2>1, <2>2, <3>2
    <3> QED
      BY <3>1, <3>2
  <2> QED
    BY <1>0, <2>2, <2>3
<1> QED
  BY <1>4, <1>5, <1>6, <1>7, <1>8 DEF Caller

LEMMA HandlerWipes ==
  ASSUME IInv, NEW k \in Call, Handler(k) \/ GetsStuck(k)
  PROVE  Wiped'
<1> SUFFICES ASSUME NEW j \in Call PROVE ClientWiped(j)' /\ HandlerWiped(j)'
  BY DEF Wiped
<1> USE DEF ClientWiped, HandlerWiped
<1>0. /\ ClientWiped(j) /\ HandlerWiped(j) /\ HandlerWiped(k)
      /\ h \in [Call -> {"none", "reading", "dispatch", "stuck", "loaded", "hung", "respond",
                         "answered", "over"}]
      /\ decided \in [Call -> {"none", "ok", "code"}]
      /\ mem \in [Call -> SUBSET (OfClient \cup OfServer)]
      /\ h[k] \in Undecided => decided[k] = "none"
  BY DEF IInv, Wiped, TypeOK, InOrder, AnswerAgrees
<1>1. CASE Accept(k) \/ TooLong(k) \/ EndOfInput(k)
  <2>1. /\ h[k] \in {"none", "reading", "answered"}
        /\ \E at \in {"reading", "over"} : h' = [h EXCEPT ![k] = at]
        /\ UNCHANGED <<pc, told, kind, decided, mem>>
    BY <1>1 DEF Accept, TooLong, EndOfInput, Moves, client
  <2> QED
    BY <1>0, <2>1
<1>2. CASE Receive(k)
  <2>1. /\ h[k] = "reading" /\ mem' = [mem EXCEPT ![k] = @ \cup {"input"}]
        /\ UNCHANGED <<pc, told, kind, h, decided>>
    BY <1>2 DEF Receive, Holds, client
  <2>2. /\ mem'[j] \cap OfClient = mem[j] \cap OfClient
        /\ \A c \in {"line", "value"} : c \in mem'[j] <=> c \in mem[j]
        /\ mem'[j] = mem[j] \/ (j = k /\ mem'[j] = mem[j] \cup {"input"})
    BY <1>0, <2>1 DEF OfClient
  <2> QED
    BY <1>0, <2>1, <2>2 DEF Undecided
<1>3. CASE ReadRequest(k)
  <2>1. PICK places \in SUBSET {"request"} :
           mem' = [mem EXCEPT ![k] = (@ \ {"input"}) \cup places]
    BY <1>3 DEF ReadRequest, Decodes
  <2>2. /\ h' = [h EXCEPT ![k] = "dispatch"]
        /\ UNCHANGED <<pc, told, kind, decided>>
    BY <1>3 DEF ReadRequest, Moves, client
  <2>3. /\ mem'[j] \cap OfClient = mem[j] \cap OfClient
        /\ \A c \in {"line", "value"} : c \in mem'[j] <=> c \in mem[j]
        /\ \/ mem'[j] = mem[j] /\ h'[j] = h[j]
           \/ h'[j] = "dispatch" /\ "input" \notin mem'[j]
    <3>1. CASE j = k
      BY <1>0, <2>1, <2>2, <3>1 DEF OfClient
    <3>2. CASE j # k
      BY <1>0, <2>1, <2>2, <3>2
    <3> QED
      BY <3>1, <3>2
  <2> QED
    BY <1>0, <2>2, <2>3
<1>4. CASE GetsStuck(k) \/ Load(k) \/ RespondPart(k)
  <2>1. /\ UNCHANGED <<pc, told, kind, decided, mem>>
        /\ \/ UNCHANGED h
           \/ /\ h[k] \in {"dispatch", "loaded"}
              /\ \E at \in {"stuck", "loaded", "hung"} : h' = [h EXCEPT ![k] = at]
    BY <1>4 DEF GetsStuck, Load, RespondPart, Moves, client
  <2> QED
    BY <1>0, <2>1
<1>5. CASE WriteVault(k) \/ Dispatch(k)
  <2>1. PICK code \in {"ok", "code"} : Decides(k, code)
    BY <1>5 DEF WriteVault, Dispatch
  <2>2. h[k] \in {"dispatch", "loaded"} /\ h' = [h EXCEPT ![k] = "respond"]
    BY <1>5 DEF WriteVault, Dispatch, Moves
  <2>3. PICK places \in SUBSET {"value", "response"} :
           /\ mem' = [mem EXCEPT ![k] = (@ \ {"request"}) \cup places]
           /\ places # {} => kind[k] \in Brings /\ code = "ok"
    BY <2>1 DEF Decides, Decodes
  <2>4. decided' = [decided EXCEPT ![k] = code] /\ UNCHANGED <<pc, told, kind>>
    BY <2>1 DEF Decides, client
  <2>5. /\ mem'[j] \cap OfClient = mem[j] \cap OfClient
        /\ \A c \in {"line", "input"} : c \in mem'[j] <=> c \in mem[j]
    BY <1>0, <2>3 DEF OfClient
  <2>6. CASE j = k
    BY <1>0, <2>2, <2>3, <2>4, <2>5, <2>6 DEF Undecided
  <2>7. CASE j # k
    BY <1>0, <2>2, <2>3, <2>4, <2>7
  <2> QED
    BY <2>6, <2>7
<1>6. CASE Respond(k)
  <2>1. /\ mem' = [mem EXCEPT ![k] = @ \ {"response"}] /\ h[k] = "respond"
        /\ UNCHANGED <<pc, told, kind, decided>>
        /\ \E at \in {"answered", "over"} : h' = [h EXCEPT ![k] = at]
    BY <1>6 DEF Respond, Moves, ClearsResult, Clears, client
  <2>2. /\ mem'[j] \cap OfClient = mem[j] \cap OfClient
        /\ \A c \in {"line", "input", "value"} : c \in mem'[j] <=> c \in mem[j]
    BY <1>0, <2>1 DEF OfClient
  <2>3. CASE j = k
    <3>1. mem'[k] \cap OfServer \subseteq {"input", "value"}
      BY <1>0, <2>1 DEF OfServer
    <3> QED
      BY <1>0, <2>1, <2>2, <2>3, <3>1
  <2>4. CASE j # k
    BY <1>0, <2>1, <2>4
  <2> QED
    BY <2>3, <2>4
<1> QED
  BY <1>1, <1>2, <1>3, <1>4, <1>5, <1>6 DEF Handler

LEMMA DaemonWipes ==
  ASSUME IInv, NEW d \in Daemon, Start(d) \/ Stop(d) \/ Shutdown(d) \/ Kill(d)
  PROVE  Wiped'
<1> SUFFICES ASSUME NEW j \in Call PROVE ClientWiped(j)' /\ HandlerWiped(j)'
  BY DEF Wiped
<1> USE DEF ClientWiped, HandlerWiped
<1>0. /\ ClientWiped(j) /\ HandlerWiped(j)
      /\ mem \in [Call -> SUBSET (OfClient \cup OfServer)]
  BY DEF IInv, Wiped, TypeOK
<1>1. CASE Start(d) \/ Stop(d)
  BY <1>0, <1>1 DEF Start, Stop, client
<1>2. CASE CloseConns(d)
  BY <1>0, <1>2 DEF CloseConns, client
\* What is forgotten is the handler's.
<1>3. ASSUME UNCHANGED client, UNCHANGED decided, mem' = Forgotten(d),
             h'[j] = h[j] \/ (h'[j] = "over" /\ j \in Of(d))
      PROVE  ClientWiped(j)' /\ HandlerWiped(j)'
  <2>1. mem'[j] = mem[j] \/ mem'[j] = mem[j] \ OfServer
    BY <1>3 DEF Forgotten
  <2>2. j \in Of(d) => mem'[j] = mem[j] \ OfServer
    BY <1>3 DEF Forgotten
  <2>3. UNCHANGED <<pc, kind, told>>
    BY <1>3 DEF client
  <2>4. CASE mem'[j] = mem[j] /\ h'[j] = h[j]
    BY <1>0, <1>3, <2>3, <2>4
  <2>5. CASE mem'[j] = mem[j] \ OfServer
    BY <1>0, <1>3, <2>3, <2>5 DEF OfServer, OfClient
  <2> QED
    BY <1>3, <2>1, <2>2, <2>4, <2>5
<1>4. CASE Exit(d)
  <2>1. UNCHANGED <<client, h, decided>> /\ mem' = Forgotten(d)
    BY <1>4 DEF Exit
  <2> QED
    BY <1>3, <2>1
<1>5. CASE Kill(d)
  <2>1. UNCHANGED <<client, decided>> /\ mem' = Forgotten(d)
    BY <1>5 DEF Kill
  <2>2. h'[j] = h[j] \/ (h'[j] = "over" /\ j \in Of(d))
    BY <1>5 DEF Kill
  <2> QED
    BY <1>3, <2>1, <2>2
<1> QED
  BY <1>1, <1>2, <1>4, <1>5 DEF Shutdown

-----------------------------------------------------------------------------
(* No step loses a decided store to its own daemon *)

\* What has been decided is decided by a daemon that was dialled.
LEMMA DecidedDialled ==
  ASSUME InOrder, NEW k \in Call, decided[k] # "none"
  PROVE  to[k] # 0
BY DEF InOrder, DiallingFirst, AnswerAgrees, Undecided

\* A step that neither decides nor loads: all that may change is that a call
\* dials, and that a handler leaves off.
LEMMA KeepsStores ==
  ASSUME IInv, UNCHANGED <<kind, decided, vault>>,
         \A j \in Call : h'[j] = "loaded" => h[j] = "loaded",
         \A j \in Call : to'[j] = to[j] \/ to[j] = 0
  PROVE  OneWriter' /\ StoreIsKept'
<1>1. \A j \in Call : h[j] = "loaded" \/ decided[j] # "none" => to'[j] = to[j] /\ to[j] # 0
  BY DecidedDialled DEF IInv, InOrder, DiallingFirst
<1>2. OneWriter'
  BY <1>1 DEF IInv, OneWriter
<1>3. ASSUME NEW k \in Call, Overtaken(k), decided[k] # "none" PROVE Overtaken(k)'
  BY <1>1, <1>3 DEF Overtaken
<1>4. StoreIsKept'
  BY <1>1, <1>3 DEF IInv, StoreIsKept
<1> QED
  BY <1>2, <1>4

LEMMA CallerKeepsStores ==
  ASSUME IInv, NEW k \in Call,
         Begin(k) \/ Caller(k) \/ Cancel(k) \/ TimesOut(k)
  PROVE  OneWriter' /\ StoreIsKept'
<1>1. UNCHANGED <<kind, decided, vault, h>>
  BY DEF Caller, Begin, RefuseNil, NewRequest, NotRunning, Dial, DialFails, AfterFunc,
     WritePart, WriteRest, IOFails, ReadPart, ReadResponse, Decode, Cancel, TimesOut,
     Returns, client
<1>2. to' = to \/ Dial(k)
  BY DEF Caller, Begin, RefuseNil, NewRequest, NotRunning, DialFails, AfterFunc,
     WritePart, WriteRest, IOFails, ReadPart, ReadResponse, Decode, Cancel, TimesOut,
     Returns, wire
<1>3. \A j \in Call : to'[j] = to[j] \/ to[j] = 0
  <2>1. CASE Dial(k)
    <3>1. to[k] = 0 /\ to' = [to EXCEPT ![k] = sock]
      BY <2>1 DEF Dial, Goes, IInv, InOrder, DiallingFirst
    <3> QED
      BY <3>1 DEF IInv, TypeOK
  <2> QED
    BY <1>2, <2>1
<1> QED
  BY <1>1, <1>3, KeepsStores

\* A daemon that reads the vault reads every store it has decided.
LEMMA LoadKeepsStores ==
  ASSUME IInv, NEW k \in Call, Load(k)
  PROVE  OneWriter' /\ StoreIsKept'
<1>1. /\ h' = [h EXCEPT ![k] = "loaded"]
      /\ vault' = [vault EXCEPT !.read[k] = vault.file]
      /\ UNCHANGED <<kind, to, decided>>
      /\ \A j \in Call : to[j] = to[k] => h[j] # "loaded"
  BY DEF Load, MayLoad, Moves, client, wire
<1>2. /\ h \in [Call -> {"none", "reading", "dispatch", "stuck", "loaded", "hung", "respond",
                         "answered", "over"}]
      /\ vault \in [file: SUBSET Call, read: [Call -> SUBSET Call]]
      /\ OneWriter /\ StoreIsKept
  BY DEF IInv, TypeOK
<1>3. OneWriter'
  BY <1>1, <1>2 DEF OneWriter
<1>4. /\ vault'.file = vault.file
      /\ vault'.read = [vault.read EXCEPT ![k] = vault.file]
  BY <1>1, <1>2
<1>5. \A i \in Call : Overtaken(i) => Overtaken(i)'
  BY <1>1 DEF Overtaken
<1>6. StoreIsKept'
  BY <1>1, <1>2, <1>4, <1>5 DEF StoreIsKept
<1> QED
  BY <1>3, <1>6

LEMMA WriteKeepsStores ==
  ASSUME IInv, NEW k \in Call, WriteVault(k)
  PROVE  OneWriter' /\ StoreIsKept'
<1>1. PICK code \in {"ok", "code"} : Decides(k, code)
  BY DEF WriteVault
<1>2. /\ h[k] = "loaded" /\ h' = [h EXCEPT ![k] = "respond"]
      /\ decided' = [decided EXCEPT ![k] = code]
      /\ UNCHANGED <<kind, to>>
  BY <1>1 DEF WriteVault, Decides, Moves, client, wire
<1>3. /\ h \in [Call -> {"none", "reading", "dispatch", "stuck", "loaded", "hung", "respond",
                         "answered", "over"}]
      /\ decided \in [Call -> {"none", "ok", "code"}]
      /\ vault \in [file: SUBSET Call, read: [Call -> SUBSET Call]]
      /\ vault.read \in [Call -> SUBSET Call]
      /\ OneWriter /\ StoreIsKept
      /\ to[k] # 0
  BY <1>2 DEF IInv, TypeOK, InOrder, DiallingFirst
<1>4. /\ vault'.read = [vault.read EXCEPT ![k] = {}]
      /\ \/ vault'.file = vault.read[k] \cup {k}
         \/ vault'.file = vault.file /\ decided'[k] = "code"
  <2>1. CASE vault' = [vault EXCEPT !.file = vault.read[k] \cup {k}, !.read[k] = {}]
    BY <1>3, <2>1
  <2>2. CASE decided'[k] = "code" /\ vault' = [vault EXCEPT !.read[k] = {}]
    BY <1>3, <2>2
  <2> QED
    BY <2>1, <2>2 DEF WriteVault
<1>5. OneWriter'
  BY <1>2, <1>3 DEF OneWriter
<1>6. \A i \in Call : Overtaken(i) => Overtaken(i)'
  BY <1>2, <1>3 DEF Overtaken
<1>7. ASSUME NEW i \in Call, kind[i] = "store", decided'[i] = "ok"
      PROVE  Overtaken(i)' \/
                (i \in vault'.file /\
                 \A j \in Call : h'[j] = "loaded" /\ to[j] = to[i] => i \in vault'.read[j])
  \* The daemon's only writer is through: nobody else has read anything.
  <2>1. CASE i = k
    BY <1>2, <1>3, <1>4, <1>7, <2>1 DEF OneWriter
  \* Either it has been overtaken, or it is written by its own daemon again,
  \* which has read it, or another daemon decides now.
  <2>2. CASE i # k
    <3>1. decided[i] = "ok" /\ decided'[k] # "none"
      BY <1>2, <1>3, <1>7, <2>2
    <3>2. CASE to[k] # to[i]
      BY <1>2, <1>3, <3>1, <3>2 DEF Overtaken
    <3>3. CASE Overtaken(i)
      BY <1>6, <3>3
    <3>4. CASE to[k] = to[i] /\ ~Overtaken(i)
      <4>1. /\ i \in vault.file /\ i \in vault.read[k]
            /\ \A j \in Call : h[j] = "loaded" /\ to[j] = to[i] => i \in vault.read[j]
        BY <1>2, <1>3, <1>7, <3>1, <3>4 DEF StoreIsKept
      <4> QED
        BY <1>2, <1>3, <1>4, <4>1
    <3> QED
      BY <3>2, <3>3, <3>4
  <2> QED
    BY <2>1, <2>2
<1>8. StoreIsKept'
  BY <1>2, <1>7 DEF StoreIsKept
<1> QED
  BY <1>5, <1>8

\* A request that writes nothing; a store that is refused is none to keep.
LEMMA DispatchKeepsStores ==
  ASSUME IInv, NEW k \in Call, Dispatch(k)
  PROVE  OneWriter' /\ StoreIsKept'
<1>1. PICK code \in {"ok", "code"} : Decides(k, code) /\ (kind[k] = "store" => code = "code")
  BY DEF Dispatch
<1>2. /\ h' = [h EXCEPT ![k] = "respond"]
      /\ decided' = [decided EXCEPT ![k] = code]
      /\ UNCHANGED <<kind, to, vault>>
  BY <1>1 DEF Dispatch, Decides, Moves, client, wire
<1>3. /\ h \in [Call -> {"none", "reading", "dispatch", "stuck", "loaded", "hung", "respond",
                         "answered", "over"}]
      /\ decided \in [Call -> {"none", "ok", "code"}]
      /\ OneWriter /\ StoreIsKept
  BY DEF IInv, TypeOK
<1>4. OneWriter'
  BY <1>2, <1>3 DEF OneWriter
<1>5. \A i \in Call : Overtaken(i) => Overtaken(i)'
  BY <1>2, <1>3 DEF Overtaken
<1>6. \A i \in Call : kind[i] = "store" /\ decided'[i] = "ok" => decided[i] = "ok"
  BY <1>1, <1>2, <1>3
<1>7. StoreIsKept'
  BY <1>2, <1>3, <1>5, <1>6 DEF StoreIsKept
<1> QED
  BY <1>4, <1>7

LEMMA HandlerKeepsStores ==
  ASSUME IInv, NEW k \in Call, Handler(k) \/ GetsStuck(k)
  PROVE  OneWriter' /\ StoreIsKept'
<1>1. CASE Load(k) \/ WriteVault(k) \/ Dispatch(k)
  BY <1>1, LoadKeepsStores, WriteKeepsStores, DispatchKeepsStores
<1>2. CASE \/ Accept(k) \/ Receive(k) \/ ReadRequest(k) \/ TooLong(k) \/ EndOfInput(k)
           \/ GetsStuck(k) \/ RespondPart(k) \/ Respond(k)
  <2>1. /\ UNCHANGED <<kind, decided, vault, to>>
        /\ h' = h \/ \E at : at # "loaded" /\ h' = [h EXCEPT ![k] = at]
    BY <1>2 DEF Accept, Receive, ReadRequest, TooLong, EndOfInput, GetsStuck, RespondPart,
       Respond, Moves, client, wire
  <2>2. \A j \in Call : h'[j] = "loaded" => h[j] = "loaded"
    BY ZenonT(60), <2>1 DEF IInv, TypeOK
  <2> QED
    BY <2>1, <2>2, KeepsStores
<1> QED
  BY <1>1, <1>2 DEF Handler

LEMMA DaemonKeepsStores ==
  ASSUME IInv, NEW d \in Daemon, Start(d) \/ Stop(d) \/ Shutdown(d) \/ Kill(d)
  PROVE  OneWriter' /\ StoreIsKept'
<1>1. UNCHANGED <<kind, decided, vault, to>>
  BY DEF Shutdown, Start, Stop, CloseConns, Exit, Kill, client, wire
<1>2. \A j \in Call : h'[j] = "loaded" => h[j] = "loaded"
  BY DEF Shutdown, Start, Stop, CloseConns, Exit, Kill
<1> QED
  BY <1>1, <1>2, KeepsStores

-----------------------------------------------------------------------------
(* The invariant holds *)

LEMMA NextIInv == IInv /\ [Next]_vars => IInv'
<1> SUFFICES ASSUME IInv, [Next]_vars PROVE IInv'
  OBVIOUS
<1>0. TypeOK /\ InOrder
  BY DEF IInv
<1>1. ASSUME NEW k \in Call, Begin(k) \/ Caller(k) \/ Cancel(k) \/ TimesOut(k) PROVE IInv'
  BY <1>0, <1>1, CallerType, CallerOrder, CallerWipes, CallerKeepsStores DEF IInv
<1>2. ASSUME NEW k \in Call, Handler(k) \/ GetsStuck(k) PROVE IInv'
  BY <1>0, <1>2, HandlerType, HandlerOrder, HandlerWipes, HandlerKeepsStores DEF IInv
<1>3. ASSUME NEW d \in Daemon, Start(d) \/ Stop(d) \/ Shutdown(d) \/ Kill(d) PROVE IInv'
  BY <1>0, <1>3, DaemonType, DaemonOrder, DaemonWipes, DaemonKeepsStores DEF IInv
<1>4. CASE UNCHANGED vars
  <2>1. TypeOK'
    BY <1>4 DEF IInv, TypeOK, vars, client, wire, daemons
  <2>2. InOrder' /\ Wiped'
    BY <1>4 DEF IInv, InOrder, DiallingFirst, AnswerAgrees, Wiped, ClientWiped, HandlerWiped,
       vars, client, wire, daemons
  <2>3. OneWriter' /\ StoreIsKept'
    BY <1>4, KeepsStores DEF vars, client, wire
  <2> QED
    BY <2>1, <2>2, <2>3 DEF IInv
<1> QED
  BY <1>1, <1>2, <1>3, <1>4 DEF Next

\* The inductive invariant holds in every state of every execution.
THEOREM InvariantHolds == Spec => []IInv
BY InitIInv, NextIInv, PTL DEF Spec

\* keycell.go:148, transport.go:30: whatever call ends on whatever path, its
\* identity, request and result are gone, and its handler's request and result.
\* Only a line that was not read to its end stays, of a call that failed or was
\* never decided, and a get's value stays with the handler.
THEOREM SecretsWiped == Spec => []NoSecretLeft
<1>1. IInv => NoSecretLeft
  <2> SUFFICES ASSUME IInv, NEW k \in Call
               PROVE  /\ ClientWiped(k) /\ HandlerWiped(k)
                      /\ told[k] = "none" <=> pc[k] # "returned"
    BY DEF NoSecretLeft, ClientWiped, HandlerWiped
  <2> QED
    BY DEF IInv, Wiped, InOrder, AnswerAgrees
<1> QED
  BY <1>1, InvariantHolds, PTL

\* store.go:45: writeMu is enough for the stores of one daemon: an answered
\* one is lost only to a request that another daemon has decided.
THEOREM StoresKept == Spec => []LostOnlyToOtherDaemon
<1>1. IInv => LostOnlyToOtherDaemon
  <2> SUFFICES ASSUME IInv, NEW k \in Call, kind[k] = "store", told[k] = "ok",
                      k \notin vault.file
               PROVE  Overtaken(k)
    BY DEF LostOnlyToOtherDaemon, Overtaken
  <2>1. decided[k] = "ok"
    BY DEF IInv, InOrder, AnswerAgrees
  <2> QED
    BY <2>1 DEF IInv, StoreIsKept
<1> QED
  BY <1>1, InvariantHolds, PTL

-----------------------------------------------------------------------------
(* What a call returns is the truth: Calls implements Promise *)

\* Steps that neither begin a call nor decide nor tell are stutters.
LEMMA SilentSteps ==
  ASSUME UNCHANGED <<decided, told>>,
         \A k \in Call : pc'[k] = "new" <=> pc[k] = "new"
  PROVE  UNCHANGED Contract!vars
BY DEF Contract!vars, Began

LEMMA BeginAsks ==
  ASSUME IInv, NEW k \in Call, Begin(k)
  PROVE  Contract!Ask(k)
<1>1. /\ pc[k] = "new" /\ pc' = [pc EXCEPT ![k] = "check"]
      /\ UNCHANGED <<decided, told>>
  BY DEF Begin, Goes
<1>2. pc \in [Call -> {"new", "check", "dial", "write", "read", "decode", "returned"}]
  BY DEF IInv, TypeOK
<1>3. k \notin Began /\ Began' = Began \cup {k}
  BY <1>1, <1>2 DEF Began
<1> QED
  BY <1>1, <1>3 DEF Contract!Ask

\* A decision is taken once, of a call that has begun and has not been told
\* that there will be none.
LEMMA DecisionDecides ==
  ASSUME IInv, NEW k \in Call, WriteVault(k) \/ Dispatch(k)
  PROVE  Contract!Decide(k)
<1>1. PICK code \in {"ok", "code"} : Decides(k, code)
  BY DEF WriteVault, Dispatch
<1>2. /\ decided' = [decided EXCEPT ![k] = code]
      /\ UNCHANGED <<pc, told>>
      /\ h[k] \in {"loaded", "dispatch"}
  BY <1>1 DEF WriteVault, Dispatch, Moves, Decides, client
<1>3. /\ decided[k] = "none" /\ to[k] # 0 /\ pc[k] # "new"
      /\ told[k] \notin {"ok", "code", "invalid", "not running", "dial"}
  BY <1>2 DEF IInv, InOrder, DiallingFirst, AnswerAgrees, Undecided
<1>4. told[k] \in {"none", "protocol", "context"}
  BY <1>3 DEF IInv, TypeOK, Outcomes
<1>5. k \in Began /\ UNCHANGED Began
  BY <1>2, <1>3 DEF Began
<1> QED
  BY <1>2, <1>3, <1>4, <1>5 DEF Contract!Decide, Contract!Open, Contract!Doubt,
     Contract!Decisions

\* What a call returns is in doubt, or the decision, or that there is none.
LEMMA ReturnTells ==
  ASSUME IInv, NEW k \in Call, NEW outcome, Returns(k, outcome),
         pc[k] \notin {"new", "returned"},
         \/ outcome \in {"protocol", "context"}
         \/ outcome \in {"invalid", "not running", "dial"} /\ to[k] = 0
         \/ outcome \in {"ok", "code"} /\ outcome = decided[k]
  PROVE  Contract!Tell(k)
<1>1. /\ pc' = [pc EXCEPT ![k] = "returned"]
      /\ told' = [told EXCEPT ![k] = outcome]
      /\ UNCHANGED decided
  BY DEF Returns
<1>2. pc \in [Call -> {"new", "check", "dial", "write", "read", "decode", "returned"}]
  BY DEF IInv, TypeOK
<1>3. told[k] = "none" /\ (to[k] = 0 => decided[k] = "none")
  BY DEF IInv, InOrder, DiallingFirst, AnswerAgrees, Undecided
<1>4. k \in Began /\ UNCHANGED Began
  BY <1>1, <1>2 DEF Began
<1>5. outcome \in Contract!Doubt \cup
         (IF decided[k] = Contract!Open THEN Contract!Unheard ELSE {decided[k]})
  BY <1>3 DEF Contract!Doubt, Contract!Open, Contract!Unheard
<1> QED
  BY <1>1, <1>3, <1>4, <1>5 DEF Contract!Tell, Contract!Open

LEMMA CallerTells ==
  ASSUME IInv, NEW k \in Call,
         Begin(k) \/ Caller(k) \/ Cancel(k) \/ TimesOut(k)
  PROVE  Contract!Ask(k) \/ Contract!Tell(k) \/ UNCHANGED Contract!vars
<1>0. /\ pc \in [Call -> {"new", "check", "dial", "write", "read", "decode", "returned"}]
      /\ DiallingFirst(k) /\ AnswerAgrees(k)
  BY DEF IInv, TypeOK, InOrder
<1>1. CASE Begin(k)
  BY <1>1, BeginAsks
<1>2. CASE RefuseNil(k)
  BY <1>0, <1>2, ReturnTells DEF RefuseNil, DiallingFirst
<1>3. CASE NotRunning(k)
  BY <1>0, <1>3, ReturnTells DEF NotRunning, DiallingFirst
<1>4. CASE DialFails(k)
  BY <1>0, <1>4, ReturnTells DEF DialFails, DiallingFirst
<1>5. CASE IOFails(k)
  BY <1>5, ReturnTells DEF IOFails, IOError
<1>6. CASE TimesOut(k)
  BY <1>6, ReturnTells DEF TimesOut
<1>7. CASE Decode(k)
  <2>1. pc[k] = "decode" /\ answer[k] \in {"ok", "code"}
    BY <1>0, <1>7 DEF Decode, AnswerAgrees
  <2>2. CASE kind[k] = "huge"
    BY <1>7, <2>1, <2>2, ReturnTells DEF Decode
  <2>3. CASE kind[k] # "huge"
    BY <1>0, <1>7, <2>1, <2>3, ReturnTells DEF Decode, AnswerAgrees
  <2> QED
    BY <2>2, <2>3
<1>8. CASE NewRequest(k) \/ Dial(k) \/ WriteRest(k) \/ ReadResponse(k)
  <2>1. /\ UNCHANGED <<decided, told>>
        /\ pc[k] # "new" /\ \E at : at # "new" /\ pc' = [pc EXCEPT ![k] = at]
    BY <1>8 DEF NewRequest, Dial, WriteRest, ReadResponse, Goes
  <2> QED
    BY <1>0, <2>1, SilentSteps
<1>9. CASE AfterFunc(k) \/ WritePart(k) \/ ReadPart(k) \/ Cancel(k)
  BY <1>9, SilentSteps DEF AfterFunc, WritePart, ReadPart, Cancel, client
<1> QED
  BY <1>1, <1>2, <1>3, <1>4, <1>5, <1>6, <1>7, <1>8, <1>9 DEF Caller

LEMMA DaemonSideTells ==
  ASSUME IInv,
         \/ \E k \in Call : Handler(k) \/ GetsStuck(k)
         \/ \E d \in Daemon : Start(d) \/ Stop(d) \/ Shutdown(d) \/ Kill(d)
  PROVE  (\E k \in Call : Contract!Decide(k)) \/ UNCHANGED Contract!vars
<1>1. ASSUME NEW k \in Call, WriteVault(k) \/ Dispatch(k)
      PROVE  Contract!Decide(k)
  BY <1>1, DecisionDecides
<1>2. ASSUME NEW k \in Call,
             \/ Accept(k) \/ Receive(k) \/ ReadRequest(k) \/ TooLong(k) \/ EndOfInput(k)
             \/ GetsStuck(k) \/ Load(k) \/ RespondPart(k) \/ Respond(k)
      PROVE  UNCHANGED Contract!vars
  BY <1>2, SilentSteps DEF Accept, Receive, ReadRequest, TooLong, EndOfInput, GetsStuck,
     Load, RespondPart, Respond, client
<1>3. ASSUME NEW d \in Daemon, Start(d) \/ Stop(d) \/ Shutdown(d) \/ Kill(d)
      PROVE  UNCHANGED Contract!vars
  BY <1>3, SilentSteps DEF Shutdown, Start, Stop, CloseConns, Exit, Kill, client
<1> QED
  BY <1>1, <1>2, <1>3 DEF Handler

\* keycell.go:18: what a call returns is the truth about its request, for any
\* number of calls and of daemons that die, stop and start meanwhile.
THEOREM Refinement == Spec => TellsTheTruth
<1>1. Init => Contract!Init
  BY DEF Init, Contract!Init, Contract!Open, Began
<1>2. IInv /\ [Next]_vars => [Contract!Next]_(Contract!vars)
  <2> SUFFICES ASSUME IInv, [Next]_vars
               PROVE  Contract!Next \/ UNCHANGED Contract!vars
    OBVIOUS
  <2>1. CASE UNCHANGED vars
    BY <2>1, SilentSteps DEF vars, client
  <2>2. ASSUME NEW k \in Call, Begin(k) \/ Caller(k) \/ Cancel(k) \/ TimesOut(k)
        PROVE  Contract!Next \/ UNCHANGED Contract!vars
    BY <2>2, CallerTells DEF Contract!Next
  <2>3. ASSUME \/ \E k \in Call : Handler(k) \/ GetsStuck(k)
               \/ \E d \in Daemon : Start(d) \/ Stop(d) \/ Shutdown(d) \/ Kill(d)
        PROVE  Contract!Next \/ UNCHANGED Contract!vars
    BY <2>3, DaemonSideTells DEF Contract!Next
  <2> QED
    BY <2>1, <2>2, <2>3 DEF Next
<1> QED
  BY <1>1, <1>2, InvariantHolds, PTL DEF Spec, TellsTheTruth, Contract!Spec
=============================================================================

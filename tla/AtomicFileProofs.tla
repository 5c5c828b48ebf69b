-------------------------- MODULE AtomicFileProofs --------------------------
(***************************************************************************)
(* Theorems about AtomicFile for any number of writers, writes and         *)
(* crashes: the four safety properties that its run checks.  They rest on  *)
(* one inductive invariant, IInv, which says of every directory that may   *)
(* be on disk that it is Good, and how far each writer is.                 *)
(***************************************************************************)
EXTENDS AtomicFile, TLAPS

USE BoundAssumption, AbsentAssumption

-----------------------------------------------------------------------------
(* The inductive invariant *)

\* Before its file is at path.
Unnamed == AtWork \ {"renamed"}

\* A directory that a crash may leave.
Good(d) ==
    /\ d.path \notin d.temps
    /\ \A f \in {d.path, d.bak} \ {Absent} : state[f] = "synced"
    /\ Newest(d) # Absent
    /\ Newest(d) <= used
    /\ alone => Newest(d) >= acked
    /\ alone /\ d.path \notin {0, Absent} => d.bak = prev[d.path]
    /\ \A w \in Writer : pc[w] \in Unnamed => mine[w] \notin {d.path, d.bak}

OnDisk  == {dirs[k] : k \in DOMAIN dirs}
AllGood == \A d \in OnDisk : Good(d)

\* What a writer has done to its file so far.
Progress ==
    \A w \in Writer :
        /\ pc[w] = "temp" => state[mine[w]] = "empty"
        /\ pc[w] = "written" => state[mine[w]] = "whole"
        /\ pc[w] \in {"synced", "closed", "backed", "renamed"} => state[mine[w]] = "synced"

\* No two writers work on one file, and files are created one after the other.
OwnFiles ==
    /\ \A v, w \in Writer : v # w /\ pc[v] # "idle" /\ pc[w] # "idle" => mine[v] # mine[w]
    /\ \A f \in Files : f > used => state[f] = "none"
    /\ \A w \in Writer : mine[w] <= used

\* What the kernel has done last, whatever is on disk.
LastIsNewest == last = Newest(Now)

\* As long as no calls overlap, nobody interferes with a writer's steps.
AloneAtWork ==
    alone => \A w \in Writer : pc[w] # "idle" =>
        /\ \A v \in Writer \ {w} : pc[v] = "idle"
        /\ mine[w] = used
        /\ pc[w] = "backed" => Now.path = Absent
        /\ pc[w] = "renamed" => Now.path = mine[w]

Works == Progress /\ OwnFiles /\ LastIsNewest /\ AloneAtWork

\* TypeOK without what it says of the directories.
Types ==
    /\ state \in [Files -> {"none", "empty", "whole", "synced", "torn"}]
    /\ used \in Files
    /\ pc \in [Writer -> AtWork \cup {"idle"}]
    /\ mine \in [Writer -> Files]
    /\ acked \in Files
    /\ last \in Files
    /\ prev \in [Files -> Slots]
    /\ alone \in BOOLEAN
    /\ crashes \in 0 .. MaxCrashes

Dirs == dirs \in Seq(Directories) /\ dirs # <<>>

IInv == Types /\ Dirs /\ AllGood /\ Works

LEMMA IInvImplies ==
  ASSUME IInv
  PROVE  TypeOK /\ NeverPartial /\ SomeVersionLeft /\ AckedSurvives /\ BackupIsPrevious
<1>1. TypeOK
  BY DEF IInv, Types, Dirs, AllGood, OnDisk, Good, TypeOK
<1>2. NeverPartial /\ SomeVersionLeft
  BY DEF IInv, AllGood, OnDisk, Good, NeverPartial, SomeVersionLeft
<1>3. AckedSurvives /\ BackupIsPrevious
  BY DEF IInv, AllGood, OnDisk, Good, AckedSurvives, BackupIsPrevious
<1> QED
  BY <1>1, <1>2, <1>3

LEMMA InitIInv == Init => IInv
<1> SUFFICES ASSUME Init PROVE IInv
  OBVIOUS
<1> DEFINE d == [path |-> 0, bak |-> Absent, temps |-> {}]
<1>1. /\ 0 \in Files /\ 0 # Absent /\ d \in Directories
      /\ dirs = <<d>> /\ Now = d /\ Newest(d) = 0
  BY DEF Init, Files, Slots, Directories, Now, Last, Newest
<1>2. Types
  BY <1>1 DEF Init, Types, Files, Slots
<1>3. Dirs
  BY <1>1 DEF Dirs
<1>4. AllGood
  <2>1. \A e \in OnDisk : e = d
    BY <1>1 DEF OnDisk
  <2>2. Good(d)
    BY <1>1 DEF Init, Good, Files, AtWork, Unnamed
  <2> QED
    BY <2>1, <2>2 DEF AllGood
<1>5. Works
  BY <1>1 DEF Init, Works, Progress, OwnFiles, LastIsNewest, AloneAtWork, Files
<1> QED
  BY <1>2, <1>3, <1>4, <1>5 DEF IInv

-----------------------------------------------------------------------------
(* Directories *)

\* The present directory is one of those that may be on disk.
LEMMA NowIsThere ==
  ASSUME Dirs
  PROVE  OnDisk \subseteq Directories /\ Now \in OnDisk
BY DEF Dirs, Now, Last, OnDisk

\* A step that changes the directory keeps the older ones.
LEMMA ChangeKeeps ==
  ASSUME Dirs, AllGood, NEW d \in Directories, Change(d), Good(d)',
         \A e \in Directories : Good(e) => Good(e)'
  PROVE  Dirs' /\ AllGood' /\ Now' = d
<1>1. /\ dirs' = Append(dirs, d)
      /\ dirs' \in Seq(Directories) /\ dirs' # <<>>
      /\ Len(dirs') = Len(dirs) + 1 /\ dirs'[Len(dirs')] = d
      /\ \A k \in DOMAIN dirs' : dirs'[k] = d \/ (k \in DOMAIN dirs /\ dirs'[k] = dirs[k])
  BY DEF Change, Dirs
<1>2. \A e \in OnDisk' : e = d \/ e \in OnDisk
  BY <1>1 DEF OnDisk
<1>3. AllGood'
  BY <1>2, NowIsThere DEF AllGood
<1> QED
  BY <1>1, <1>3 DEF Dirs, Now, Last

\* A step that leaves one of the directories, be it an fsync or a crash.
LEMMA PickKeeps ==
  ASSUME Dirs, NEW d \in OnDisk, dirs' = <<d>>, Good(d)'
  PROVE  Dirs' /\ AllGood' /\ Now' = d
<1>1. d \in Directories
  BY NowIsThere
<1>2. /\ dirs' \in Seq(Directories) /\ dirs' # <<>> /\ Len(dirs') = 1 /\ dirs'[1] = d
      /\ \A e \in OnDisk' : e = d
  BY <1>1 DEF OnDisk
<1> QED
  BY <1>1, <1>2 DEF Dirs, AllGood, Now, Last

\* A step that does not touch the directory.
LEMMA SameKeeps ==
  ASSUME Dirs, AllGood, UNCHANGED dirs,
         \A e \in Directories : Good(e) => Good(e)'
  PROVE  Dirs' /\ AllGood' /\ Now' = Now
BY NowIsThere DEF Dirs, AllGood, OnDisk, Now

-----------------------------------------------------------------------------
(* Steps *)

\* The parts of the invariant, as the steps use them.
LEMMA Parts ==
  ASSUME IInv
  PROVE  /\ Types /\ Dirs /\ AllGood /\ Progress /\ OwnFiles /\ LastIsNewest /\ AloneAtWork
         /\ Now \in Directories /\ Good(Now)
BY NowIsThere DEF IInv, Works, AllGood

\* A writer goes on, or gives up, and touches nothing.
LEMMA PcOnly ==
  ASSUME IInv, NEW w \in Writer, NEW at, pc' = [pc EXCEPT ![w] = at],
         at = "idle" \/ (pc[w] = "synced" /\ at = "closed"),
         crashes' \in 0 .. MaxCrashes, UNCHANGED <<disk, mine, alone, history>>
  PROVE  IInv'
<1>0. UNCHANGED <<dirs, state, used, mine, alone, acked, last, prev>>
  BY DEF disk, history
<1>1. Types'
  BY <1>0, Parts DEF Types, AtWork
<1>2. \A v \in Writer : /\ pc'[v] \in Unnamed => pc[v] \in Unnamed
                        /\ pc'[v] # "idle" => pc[v] # "idle"
                        /\ pc'[v] \in {"temp", "written", "backed", "renamed"} => pc'[v] = pc[v]
                        /\ pc'[v] \in {"synced", "closed"} => pc[v] \in {"synced", "closed"}
                        /\ pc[v] = "idle" => pc'[v] = "idle"
  BY Parts DEF Types, AtWork, Unnamed
<1>3. \A e \in Directories : Good(e) => Good(e)'
  BY <1>0, <1>2 DEF Good, Newest
<1>4. Dirs' /\ AllGood' /\ Now' = Now
  BY <1>0, <1>3, Parts, SameKeeps
<1>5. Progress' /\ OwnFiles'
  BY <1>0, <1>2, Parts DEF Progress, OwnFiles
<1>6. LastIsNewest' /\ AloneAtWork'
  BY <1>0, <1>2, <1>4, Parts DEF LastIsNewest, AloneAtWork, Newest
<1> QED
  BY <1>1, <1>4, <1>5, <1>6 DEF IInv, Works

\* A writer fills its file or syncs it; nobody else works on that file, and no
\* directory names it.
LEMMA StateOnly ==
  ASSUME IInv, NEW w \in Writer, NEW at, NEW much,
         \/ pc[w] = "temp" /\ at = "written" /\ much = "whole"
         \/ pc[w] = "written" /\ at = "synced" /\ much = "synced",
         pc' = [pc EXCEPT ![w] = at], state' = [state EXCEPT ![mine[w]] = much],
         UNCHANGED <<dirs, used, mine, alone, history, crashes>>
  PROVE  IInv'
<1>0. UNCHANGED <<dirs, used, mine, alone, acked, last, prev, crashes>>
  BY DEF history
<1>1. Types'
  BY <1>0, Parts DEF Types, AtWork
<1>2. /\ \A v \in Writer \ {w} : pc'[v] = pc[v]
      /\ pc'[w] = at /\ pc[w] \in Unnamed
      /\ \A f \in Files \ {mine[w]} : state'[f] = state[f]
      /\ state'[mine[w]] = much /\ mine[w] \in Files
  BY Parts DEF Types, Unnamed, AtWork
<1>3. ASSUME NEW e \in Directories, Good(e) PROVE Good(e)'
  <2>1. mine[w] \notin {e.path, e.bak} /\ {e.path, e.bak} \ {Absent} \subseteq Files
    BY <1>2, <1>3 DEF Good, Directories, Slots
  <2>2. \A f \in {e.path, e.bak} \ {Absent} : state'[f] = "synced"
    BY <1>2, <1>3, <2>1 DEF Good
  <2>3. \A v \in Writer : pc'[v] \in Unnamed => mine[v] \notin {e.path, e.bak}
    BY <1>2, <1>3, <2>1 DEF Good
  <2> QED
    BY <1>0, <1>3, <2>2, <2>3 DEF Good, Newest
<1>4. Dirs' /\ AllGood' /\ Now' = Now
  BY <1>0, <1>3, Parts, SameKeeps
<1>5. Progress'
  <2> SUFFICES ASSUME NEW v \in Writer
               PROVE  /\ pc'[v] = "temp" => state'[mine[v]] = "empty"
                      /\ pc'[v] = "written" => state'[mine[v]] = "whole"
                      /\ pc'[v] \in {"synced", "closed", "backed", "renamed"} =>
                            state'[mine[v]] = "synced"
    BY <1>0 DEF Progress
  <2>1. CASE v = w
    BY <1>2, <2>1
  <2>2. CASE v # w
    <3>1. pc[v] # "idle" => mine[v] # mine[w] /\ mine[v] \in Files
      BY <2>2, Parts DEF OwnFiles, Types
    <3> QED
      BY <1>2, <2>2, <3>1, Parts DEF Progress
  <2> QED
    BY <2>1, <2>2
<1>6. OwnFiles'
  <2>1. mine[w] <= used /\ mine[w] \in Int /\ used \in Int
    BY Parts DEF OwnFiles, Types, Files
  <2>2. \A f \in Files : f > used => state'[f] = "none"
    BY <1>2, <2>1, Parts DEF OwnFiles, Files
  <2>3. \A v \in Writer : pc'[v] # "idle" => pc[v] # "idle"
    BY <1>2
  <2> QED
    BY <1>0, <2>2, <2>3, Parts DEF OwnFiles
<1>7. LastIsNewest' /\ AloneAtWork'
  BY <1>0, <1>2, <1>4, Parts DEF LastIsNewest, AloneAtWork, Newest
<1> QED
  BY <1>1, <1>4, <1>5, <1>6, <1>7 DEF IInv, Works

\* A writer that fails removes its own temporary file, and no other name.
LEMMA FailStep ==
  ASSUME IInv, NEW w \in Writer, Fail(w)
  PROVE  IInv'
<1>0. /\ pc[w] \in Unnamed /\ pc' = [pc EXCEPT ![w] = "idle"]
      /\ UNCHANGED <<state, used, mine, alone, acked, last, prev, crashes>>
  BY DEF Fail, history, Unnamed
<1>1. Types'
  BY <1>0, Parts DEF Types
<1>2. PICK d \in Directories : d = [Now EXCEPT !.temps = @ \ {mine[w]}]
  BY Parts DEF Directories
<1>3. Change(d) /\ d.path = Now.path /\ d.bak = Now.bak /\ d.temps \subseteq Now.temps
  BY <1>2, Parts DEF Fail, Directories
<1>4. \A v \in Writer : pc'[v] # "idle" => pc'[v] = pc[v]
  BY <1>0, Parts DEF Types
<1>5. \A e \in Directories : Good(e) => Good(e)'
  BY <1>0, <1>4 DEF Good, Newest, Unnamed, AtWork
<1>6. Good(d)'
  BY <1>0, <1>3, <1>4, Parts DEF Good, Newest, Unnamed, AtWork
<1>7. Dirs' /\ AllGood' /\ Now' = d
  BY <1>3, <1>5, <1>6, Parts, ChangeKeeps
<1>8. Progress' /\ OwnFiles'
  BY <1>0, <1>4, Parts DEF Progress, OwnFiles
<1>9. LastIsNewest' /\ AloneAtWork'
  BY <1>0, <1>3, <1>4, <1>7, Parts DEF LastIsNewest, AloneAtWork, Newest, Types
<1> QED
  BY <1>1, <1>7, <1>8, <1>9 DEF IInv, Works

\* The file a call creates is new: no directory names it, no writer has it.
LEMMA CreateStep ==
  ASSUME IInv, NEW w \in Writer, CreateTemp(w)
  PROVE  IInv'
<1>0. /\ pc[w] = "idle" /\ pc' = [pc EXCEPT ![w] = "temp"]
      /\ used' = used + 1 /\ used < MaxWrites
      /\ state' = [state EXCEPT ![used'] = "empty"]
      /\ mine' = [mine EXCEPT ![w] = used']
      /\ alone' = (alone /\ \A v \in Writer : pc[v] = "idle")
      /\ UNCHANGED <<acked, last, prev, crashes>>
  BY DEF CreateTemp, Goto, history
<1>1. used' \in Files /\ used \in Files /\ used' > used
  BY <1>0, Parts DEF Types, Files
<1>2. Types'
  BY <1>0, <1>1, Parts DEF Types, AtWork
<1>3. PICK d \in Directories : d = [Now EXCEPT !.temps = @ \cup {used'}]
  BY <1>1, Parts DEF Directories
<1>4. Change(d) /\ d.path = Now.path /\ d.bak = Now.bak /\ d.temps = Now.temps \cup {used'}
  BY <1>3, Parts DEF CreateTemp, Directories
<1>5. state[used'] = "none" /\ \A f \in Files \ {used'} : state'[f] = state[f]
  BY <1>0, <1>1, Parts DEF OwnFiles, Types
<1>6. /\ \A v \in Writer \ {w} : pc'[v] = pc[v] /\ mine'[v] = mine[v]
      /\ pc'[w] = "temp" /\ mine'[w] = used'
  BY <1>0, Parts DEF Types
<1>7. ASSUME NEW e \in Directories, Good(e) PROVE used' \notin {e.path, e.bak} /\ Good(e)'
  <2>1. used' \notin {e.path, e.bak}
    BY <1>1, <1>5, <1>7 DEF Good, Files
  <2>2. \A f \in {e.path, e.bak} \ {Absent} : state'[f] = "synced"
    BY <1>5, <1>7, <2>1 DEF Good, Directories, Slots
  <2>3. \A v \in Writer : pc'[v] \in Unnamed => mine'[v] \notin {e.path, e.bak}
    BY <1>6, <1>7, <2>1 DEF Good
  <2>4. Newest(e) \in Files
    BY <1>7 DEF Newest, Good, Directories, Slots
  <2>5. Newest(e)' = Newest(e) /\ Newest(e) <= used'
    BY <1>0, <1>1, <1>7, <2>4 DEF Good, Files, Newest
  <2>6. alone' => alone
    BY <1>0
  <2> QED
    BY <1>0, <1>7, <2>1, <2>2, <2>3, <2>5, <2>6 DEF Good
<1>8. Good(d)'
  BY <1>4, <1>7, Parts DEF Good, Newest
<1>9. Dirs' /\ AllGood' /\ Now' = d
  BY <1>4, <1>7, <1>8, Parts, ChangeKeeps
<1>10. Progress'
  <2> SUFFICES ASSUME NEW v \in Writer, v # w, pc[v] # "idle"
               PROVE  state'[mine[v]] = state[mine[v]]
    BY <1>0, <1>1, <1>6, Parts DEF Progress, Types
  <2>1. mine[v] \in Files /\ mine[v] # used'
    BY <1>1, Parts DEF OwnFiles, Types, Files
  <2> QED
    BY <1>5, <2>1
<1>11. OwnFiles'
  BY <1>0, <1>1, <1>5, <1>6, Parts DEF OwnFiles, Types, Files
<1>12. LastIsNewest'
  BY <1>0, <1>4, <1>9, Parts DEF LastIsNewest, Newest
<1>13. AloneAtWork'
  BY <1>0, <1>6 DEF AloneAtWork
<1> QED
  BY <1>2, <1>9, <1>10, <1>11, <1>12, <1>13 DEF IInv, Works

\* The backup keeps the newest version, under its other name.
LEMMA BackupStep ==
  ASSUME IInv, NEW w \in Writer, BackupPath(w)
  PROVE  IInv'
<1>0. /\ pc[w] = "closed" /\ pc' = [pc EXCEPT ![w] = "backed"]
      /\ UNCHANGED <<state, used, mine, alone, acked, last, prev, crashes>>
  BY DEF BackupPath, Goto, history
<1>1. Types'
  BY <1>0, Parts DEF Types, AtWork
<1>2. PICK d \in Directories : d = BackedUp(Now)
  BY Parts DEF Directories, BackedUp, Slots
<1>3. /\ Change(d) /\ d.path = Absent /\ d.temps = Now.temps
      /\ d.bak = Newest(Now) /\ d.bak # Absent
  BY <1>2, Parts DEF BackupPath, BackedUp, Directories, Newest, Good
<1>4. \A v \in Writer : /\ v # w => pc'[v] = pc[v]
                        /\ pc'[v] \in Unnamed => pc[v] \in Unnamed
                        /\ pc'[w] = "backed"
  BY <1>0, Parts DEF Types, Unnamed, AtWork
<1>5. \A e \in Directories : Good(e) => Good(e)'
  BY <1>0, <1>4 DEF Good, Newest
<1>6. Good(d)'
  <2>1. Absent \notin d.temps
    BY DEF Directories, Files
  <2>2. Absent \notin Files /\ \A v \in Writer : mine[v] \in Files
    BY Parts DEF Types, Files
  <2> QED
    BY <1>0, <1>3, <1>4, <2>1, <2>2, Parts DEF Good, Newest
<1>7. Dirs' /\ AllGood' /\ Now' = d
  BY <1>3, <1>5, <1>6, Parts, ChangeKeeps
<1>8. Progress' /\ OwnFiles'
  BY <1>0, <1>4, Parts DEF Progress, OwnFiles
<1>9. LastIsNewest'
  BY <1>0, <1>3, <1>7, Parts DEF LastIsNewest, Newest
<1>10. AloneAtWork'
  BY <1>0, <1>3, <1>4, <1>7, Parts DEF AloneAtWork
<1> QED
  BY <1>1, <1>7, <1>8, <1>9, <1>10 DEF IInv, Works

\* The file that comes to path is synced, and the newest; nothing has named
\* it before.  When it is alone, what it replaces is at path.bak.
LEMMA RenameStep ==
  ASSUME IInv, NEW w \in Writer, RenameTemp(w)
  PROVE  IInv'
<1>0. /\ pc[w] = "backed" /\ pc' = [pc EXCEPT ![w] = "renamed"]
      /\ last' = mine[w] /\ prev' = [prev EXCEPT ![mine[w]] = last]
      /\ UNCHANGED <<state, used, mine, alone, acked, crashes>>
  BY DEF RenameTemp, Goto
<1>1. Types'
  BY <1>0, Parts DEF Types, AtWork, Slots
<1>2. /\ mine[w] \in Files /\ mine[w] # Absent /\ mine[w] <= used
      /\ state[mine[w]] = "synced" /\ pc[w] \in Unnamed
  BY <1>0, Parts DEF Types, Files, Progress, OwnFiles, Unnamed, AtWork
<1>3. PICK d \in Directories : d = [Now EXCEPT !.path = mine[w], !.temps = @ \ {mine[w]}]
  BY <1>2, Parts DEF Directories, Slots
<1>4. Change(d) /\ d.path = mine[w] /\ d.bak = Now.bak /\ d.temps = Now.temps \ {mine[w]}
  BY <1>3, Parts DEF RenameTemp, Directories
<1>5. \A v \in Writer : /\ v # w => pc'[v] = pc[v]
                        /\ pc'[v] \in Unnamed => v # w /\ pc[v] \in Unnamed /\ mine[v] # mine[w]
                        /\ pc'[w] = "renamed"
  BY <1>0, <1>2, Parts DEF Types, Unnamed, AtWork, OwnFiles
<1>6. ASSUME NEW e \in Directories, Good(e) PROVE Good(e)'
  <2>1. e.path # Absent => e.path \in Files /\ prev'[e.path] = prev[e.path]
    BY <1>0, <1>2, <1>6, Parts DEF Good, Types, Directories, Slots
  <2> QED
    BY <1>0, <1>5, <1>6, <2>1 DEF Good, Newest
<1>7. Good(d)'
  <2>1. Newest(d) = mine[w] /\ Newest(d)' = mine[w]
    BY <1>2, <1>4 DEF Newest
  <2>2. alone => mine[w] >= acked
    BY <1>0, Parts DEF AloneAtWork, Good, Types, Files, Newest, Directories, Slots
  <2>3. alone => d.bak = prev'[d.path]
    BY <1>0, <1>2, <1>4, Parts DEF AloneAtWork, LastIsNewest, Newest, Types
  <2> QED
    BY <1>0, <1>2, <1>4, <1>5, <2>1, <2>2, <2>3, Parts DEF Good
<1>8. Dirs' /\ AllGood' /\ Now' = d
  BY <1>4, <1>6, <1>7, Parts, ChangeKeeps
<1>9. Progress' /\ OwnFiles'
  BY <1>0, <1>2, <1>5, Parts DEF Progress, OwnFiles
<1>10. LastIsNewest' /\ AloneAtWork'
  BY <1>0, <1>2, <1>4, <1>5, <1>8, Parts DEF LastIsNewest, AloneAtWork, Newest
<1> QED
  BY <1>1, <1>8, <1>9, <1>10 DEF IInv, Works

\* The fsync of the directory leaves the present one; a call that was alone
\* finds its own file in it.
LEMMA SyncDirStep ==
  ASSUME IInv, NEW w \in Writer, SyncDir(w)
  PROVE  IInv'
<1>0. /\ pc[w] = "renamed" /\ pc' = [pc EXCEPT ![w] = "idle"]
      /\ dirs' = <<Now>> /\ acked' = mine[w]
      /\ UNCHANGED <<state, used, mine, alone, last, prev, crashes>>
  BY DEF SyncDir, Goto
<1>1. Types'
  BY <1>0, Parts DEF Types
<1>2. PICK d \in OnDisk : d = Now
  BY Parts, NowIsThere
<1>3. \A v \in Writer : pc'[v] # "idle" => pc'[v] = pc[v]
  BY <1>0, Parts DEF Types
<1>4. d \in Directories /\ Good(d) /\ (alone => d.path = mine[w])
  BY <1>0, <1>2, Parts DEF AloneAtWork
<1>5. alone => Newest(d) >= mine[w]
  BY <1>4, Parts DEF Newest, Types, Files
<1>6. Good(d)'
  BY <1>0, <1>3, <1>4, <1>5 DEF Good, Newest, Unnamed, AtWork
<1>7. Dirs' /\ AllGood' /\ Now' = d
  BY <1>0, <1>2, <1>6, Parts, PickKeeps
<1>8. Progress' /\ OwnFiles'
  BY <1>0, <1>3, Parts DEF Progress, OwnFiles
<1>9. LastIsNewest' /\ AloneAtWork'
  BY <1>0, <1>2, <1>3, <1>7, Parts DEF LastIsNewest, AloneAtWork, Newest, Types
<1> QED
  BY <1>1, <1>7, <1>8, <1>9 DEF IInv, Works

\* Whatever directory a power failure leaves, the files it names are synced.
LEMMA PowerStep ==
  ASSUME IInv, PowerFails
  PROVE  IInv'
<1>1. PICK k \in DOMAIN dirs : dirs' = <<dirs[k]>>
  BY DEF PowerFails
<1>2. PICK d \in OnDisk : d = dirs[k]
  BY DEF OnDisk
<1>3. PICK torn \in SUBSET {f \in Files : state[f] \in {"empty", "whole"}} :
         state' = [f \in Files |-> IF f \in torn THEN "torn" ELSE state[f]]
  BY DEF PowerFails
<1>4. /\ pc' = [w \in Writer |-> "idle"] /\ crashes' = crashes + 1 /\ crashes < MaxCrashes
      /\ last' = Newest(Last(dirs'))
      /\ UNCHANGED <<used, mine, alone, acked, prev>>
  BY DEF PowerFails
<1>5. /\ d \in Directories /\ Good(d) /\ dirs' = <<d>> /\ Last(dirs') = d
      /\ Newest(d) \in Files
  <2>1. d \in Directories /\ Good(d) /\ dirs' = <<d>>
    BY <1>1, <1>2, Parts, NowIsThere DEF AllGood
  <2> QED
    BY <2>1 DEF Last, Good, Newest, Directories, Slots
<1>6. Types'
  <2>1. state' \in [Files -> {"none", "empty", "whole", "synced", "torn"}]
    BY <1>3, Parts DEF Types
  <2>2. crashes' \in 0 .. MaxCrashes
    BY <1>4, Parts DEF Types
  <2> QED
    BY <1>4, <1>5, <2>1, <2>2, Parts DEF Types
<1>7. \A f \in Files : state[f] \in {"synced", "none"} => state'[f] = state[f]
  BY <1>3
<1>8. Good(d)'
  <2>1. \A f \in {d.path, d.bak} \ {Absent} : state'[f] = "synced"
    BY <1>5, <1>7 DEF Good, Directories, Slots
  <2> QED
    BY <1>4, <1>5, <2>1 DEF Good, Newest, Unnamed, AtWork
<1>9. Dirs' /\ AllGood' /\ Now' = d
  BY <1>5, <1>8, Parts, PickKeeps
<1>10. Progress' /\ OwnFiles'
  BY <1>4, <1>7, Parts DEF Progress, OwnFiles
<1>11. LastIsNewest' /\ AloneAtWork'
  BY <1>4, <1>5, <1>9 DEF LastIsNewest, AloneAtWork, Newest
<1> QED
  BY <1>6, <1>9, <1>10, <1>11 DEF IInv, Works

LEMMA NextIInv == IInv /\ [Next]_vars => IInv'
<1> SUFFICES ASSUME IInv, [Next]_vars PROVE IInv'
  OBVIOUS
<1>1. CASE PowerFails
  BY <1>1, PowerStep
<1>2. CASE UNCHANGED vars
  <2>1. UNCHANGED <<dirs, state, used, pc, mine, acked, last, prev, alone, crashes>>
    BY <1>2 DEF vars, disk, history
  <2> QED
    BY <2>1 DEF IInv, Works, Types, Dirs, AllGood, OnDisk, Good, Progress, OwnFiles,
       LastIsNewest, AloneAtWork, Now, Newest
<1>3. ASSUME NEW w \in Writer, CreateTemp(w) \/ BackupPath(w) \/ RenameTemp(w) \/ SyncDir(w)
                                 \/ Fail(w)
      PROVE  IInv'
  BY <1>3, CreateStep, BackupStep, RenameStep, SyncDirStep, FailStep
<1>4. ASSUME NEW w \in Writer, WriteTemp(w) \/ SyncTemp(w) PROVE IInv'
  BY <1>4, StateOnly DEF WriteTemp, SyncTemp, Goto
<1>5. ASSUME NEW w \in Writer, CloseTemp(w) \/ SyncDirFails(w) PROVE IInv'
  BY <1>5, PcOnly, Parts DEF CloseTemp, SyncDirFails, Goto, Types
<1>6. ASSUME NEW w \in Writer, Kill(w) PROVE IInv'
  <2>1. crashes' \in 0 .. MaxCrashes
    BY <1>6, Parts DEF Kill, Types
  <2> QED
    BY <1>6, <2>1, PcOnly DEF Kill
<1> QED
  BY <1>1, <1>2, <1>3, <1>4, <1>5, <1>6 DEF Next

-----------------------------------------------------------------------------
(* The theorems *)

\* The inductive invariant holds in every state of every execution.
THEOREM InvariantHolds == Spec => []IInv
BY InitIInv, NextIInv, PTL DEF Spec

\* atomicfile.go:1: whatever step fails and whenever the power does, no name
\* stands for a partial file.
THEOREM NothingPartial == Spec => []NeverPartial
BY InvariantHolds, IInvImplies, PTL

\* atomicfile.go:42: between the two renames, and after any crash there, the
\* version that was at path is still at path.bak.
THEOREM VersionLeft == Spec => []SomeVersionLeft
BY InvariantHolds, IInvImplies, PTL

\* atomicfile.go:52: when Write returns nil its version is on disk, and no
\* crash brings an older one back, as long as calls do not overlap.
THEOREM Durable == Spec => []AckedSurvives
BY InvariantHolds, IInvImplies, PTL

\* atomicfile.go:14: path.bak is one generation back and no other, as long as
\* calls do not overlap.
THEOREM OneGeneration == Spec => []BackupIsPrevious
BY InvariantHolds, IInvImplies, PTL
=============================================================================

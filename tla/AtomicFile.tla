----------------------------- MODULE AtomicFile -----------------------------
(***************************************************************************)
(* atomicfile.Write: how keycell replaces a file (the vault and both forms *)
(* of the identity), step by step, with the failure of every step, a       *)
(* process killed between two of them, and a power failure.                *)
(*                                                                         *)
(* File n is the file that the n-th call creates; file 0 was at path       *)
(* before.  A directory says which of them is at path, which at path.bak   *)
(* and which are temporary.  The kernel applies a rename at once but puts  *)
(* it on disk later: dirs is the sequence of directories since the last    *)
(* fsync of the directory, the present one last, and a power failure       *)
(* leaves any one of them (a journal keeps their order).                   *)
(***************************************************************************)
EXTENDS Integers, Sequences, SequencesExt

CONSTANTS Writer,       \* goroutines or processes that call Write
          Absent,       \* no file of that name
          MaxWrites,    \* bound: calls of Write
          MaxCrashes    \* bound: kills and power failures

ASSUME BoundAssumption  == MaxWrites \in Nat /\ MaxCrashes \in Nat
ASSUME AbsentAssumption == Absent \notin Int

VARIABLES dirs,         \* directories since the last fsync, the present one last
          state,        \* how much of each file's content is there
          used,         \* files created so far
          pc,           \* where each writer is
          mine,         \* the file of the writer's current or last call
          acked,        \* the last file whose call returned nil
          last,         \* the file renamed to path last
          prev,         \* for each file renamed to path, the one before it
          alone,        \* no call has begun while another was under way
          crashes

disk == <<dirs, state, used>>
history == <<acked, last, prev>>
vars == <<disk, pc, mine, history, alone, crashes>>

Files == 0 .. MaxWrites
Slots == Files \cup {Absent}
Directories == [path: Slots, bak: Slots, temps: SUBSET Files]
AtWork == {"temp", "written", "synced", "closed", "backed", "renamed"}

TypeOK ==
    /\ dirs \in Seq(Directories) /\ dirs # <<>>
    /\ \A k \in DOMAIN dirs : dirs[k].path \notin dirs[k].temps   \* one name each
    /\ state \in [Files -> {"none", "empty", "whole", "synced", "torn"}]
    /\ used \in Files
    /\ pc \in [Writer -> AtWork \cup {"idle"}]
    /\ mine \in [Writer -> Files]
    /\ acked \in Files
    /\ last \in Files
    /\ prev \in [Files -> Slots]
    /\ alone \in BOOLEAN
    /\ crashes \in 0 .. MaxCrashes

Init ==
    /\ dirs = <<[path |-> 0, bak |-> Absent, temps |-> {}]>>
    /\ state = [f \in Files |-> IF f = 0 THEN "synced" ELSE "none"]
    /\ used = 0
    /\ pc = [w \in Writer |-> "idle"]
    /\ mine = [w \in Writer |-> 0]
    /\ acked = 0
    /\ last = 0
    /\ prev = [f \in Files |-> Absent]
    /\ alone = TRUE
    /\ crashes = 0

Now == Last(dirs)

\* The version that somebody who knows of the backup would restore.
Newest(d) == IF d.path # Absent THEN d.path ELSE d.bak

\* The kernel changes the directory; no fsync yet.
Change(d) == dirs' = Append(dirs, d)

Goto(w, from, to) == pc[w] = from /\ pc' = [pc EXCEPT ![w] = to]

-----------------------------------------------------------------------------
(* Write, step by step *)

CreateTemp(w) ==
    /\ used < MaxWrites
    /\ Goto(w, "idle", "temp")
    /\ used' = used + 1
    /\ Change([Now EXCEPT !.temps = @ \cup {used'}])
    /\ state' = [state EXCEPT ![used'] = "empty"]
    /\ mine' = [mine EXCEPT ![w] = used']
    /\ alone' = (alone /\ \A v \in Writer : pc[v] = "idle")
    /\ UNCHANGED <<history, crashes>>

\* tmp.Chmod and tmp.Write.
WriteTemp(w) ==
    /\ Goto(w, "temp", "written")
    /\ state' = [state EXCEPT ![mine[w]] = "whole"]
    /\ UNCHANGED <<dirs, used, mine, alone, history, crashes>>

\* A slip: the temp file is not synced before it is renamed.
SyncNothing(w) ==
    /\ Goto(w, "written", "synced")
    /\ UNCHANGED <<disk, mine, alone, history, crashes>>

SyncTemp(w) ==
    /\ Goto(w, "written", "synced")
    /\ state' = [state EXCEPT ![mine[w]] = "synced"]
    /\ UNCHANGED <<dirs, used, mine, alone, history, crashes>>

CloseTemp(w) ==
    /\ Goto(w, "synced", "closed")
    /\ UNCHANGED <<disk, mine, alone, history, crashes>>

\* Slips: the old file is removed to make room; the first backup is kept.
RemovePath(d)  == [d EXCEPT !.path = Absent]
FirstBackup(d) == IF d.path = Absent \/ d.bak # Absent
                  THEN d ELSE [d EXCEPT !.bak = d.path, !.path = Absent]

\* The rename of path to path.bak (every caller asks for a backup); that there is no path is no error.
BackedUp(d) == IF d.path = Absent THEN d
               ELSE [d EXCEPT !.bak = d.path, !.path = Absent]

BackupPath(w) ==
    /\ Goto(w, "closed", "backed")
    /\ Change(BackedUp(Now))
    /\ UNCHANGED <<state, used, mine, alone, history, crashes>>

RenameTemp(w) ==
    /\ Goto(w, "backed", "renamed")
    /\ Change([Now EXCEPT !.path = mine[w], !.temps = @ \ {mine[w]}])
    /\ last' = mine[w]
    /\ prev' = [prev EXCEPT ![mine[w]] = last]
    /\ UNCHANGED <<state, used, mine, alone, acked, crashes>>

\* A slip: the directory is not synced.
ReturnUnsynced(w) ==
    /\ Goto(w, "renamed", "idle")
    /\ acked' = mine[w]
    /\ UNCHANGED <<disk, mine, alone, last, prev, crashes>>

SyncDir(w) ==
    /\ Goto(w, "renamed", "idle")
    /\ dirs' = <<Now>>
    /\ acked' = mine[w]
    /\ UNCHANGED <<state, used, mine, alone, last, prev, crashes>>

-----------------------------------------------------------------------------
(* What can go wrong *)

\* A step up to and including the second rename fails: every error path
\* removes the temp file and undoes nothing else.
Fail(w) ==
    /\ pc[w] \in AtWork \ {"renamed"}
    /\ pc' = [pc EXCEPT ![w] = "idle"]
    /\ Change([Now EXCEPT !.temps = @ \ {mine[w]}])
    /\ UNCHANGED <<state, used, mine, alone, history, crashes>>

\* syncDir fails after the file is in place.
SyncDirFails(w) ==
    /\ Goto(w, "renamed", "idle")
    /\ UNCHANGED <<disk, mine, alone, history, crashes>>

\* The process dies, the kernel does not.
Kill(w) ==
    /\ crashes < MaxCrashes
    /\ pc[w] # "idle"
    /\ pc' = [pc EXCEPT ![w] = "idle"]
    /\ crashes' = crashes + 1
    /\ UNCHANGED <<disk, mine, alone, history>>

\* The power fails: some directory since the last fsync is on disk, and any
\* file that was not synced may have lost content.
PowerFails ==
    /\ crashes < MaxCrashes
    /\ \E k \in DOMAIN dirs : dirs' = <<dirs[k]>>
    /\ \E torn \in SUBSET {f \in Files : state[f] \in {"empty", "whole"}} :
          state' = [f \in Files |-> IF f \in torn THEN "torn" ELSE state[f]]
    /\ pc' = [w \in Writer |-> "idle"]
    /\ last' = Newest(Last(dirs'))
    /\ crashes' = crashes + 1
    /\ UNCHANGED <<used, mine, alone, acked, prev>>

Next ==
    \/ \E w \in Writer :
          \/ CreateTemp(w) \/ WriteTemp(w) \/ SyncTemp(w) \/ CloseTemp(w)
          \/ BackupPath(w) \/ RenameTemp(w) \/ SyncDir(w)
          \/ Fail(w) \/ SyncDirFails(w) \/ Kill(w)
    \/ PowerFails

Spec == Init /\ [][Next]_vars

-----------------------------------------------------------------------------
(* Properties *)

\* atomicfile.go:1: no reader, and nobody after a power failure, finds a
\* partial file at path or at path.bak: the content reaches the disk before
\* the name does.
NeverPartial ==
    \A k \in DOMAIN dirs : \A f \in {dirs[k].path, dirs[k].bak} \ {Absent} :
        state[f] = "synced"

\* At every moment, and after every crash, path or path.bak holds a version.
SomeVersionLeft == \A k \in DOMAIN dirs : Newest(dirs[k]) # Absent

\* A version for which Write returned nil survives any crash until a later
\* one replaces it, at path or, while a replacement is under way, at path.bak.
\* (Files are numbered in the order of the calls, and writeMu keeps the
\* daemon's calls apart; two processes may overtake one another.)
AckedSurvives == alone => \A k \in DOMAIN dirs : Newest(dirs[k]) >= acked

\* atomicfile.go:14: path.bak is the version that path replaced, one
\* generation back and no other, as long as calls do not overlap.
BackupIsPrevious ==
    alone => \A k \in DOMAIN dirs : dirs[k].path \notin {0, Absent} =>
        dirs[k].bak = prev[dirs[k].path]
=============================================================================

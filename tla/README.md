# A verification model of keycell

keycell keeps secrets in one age-encrypted vault file.  A daemon, `keycelld`,
holds the identity that opens it while unlocked and answers requests on a Unix
socket; a CLI with a git credential helper, a Docker credential helper and a Go
package are its clients.  This directory holds TLA+ models of these parts, the
TLC configurations that check them, and proofs of every safety property that they check.

Paths below are relative to the repository's root.  Run everything in this
directory: `tlc -config X.cfg M` for the runs of section 4, `tlapm M.tla` for
the modules of proofs of section 6.

## 1. Inventory

| part | state | operations | what is hard |
| --- | --- | --- | --- |
| session, `internal/daemon/session.go` | RWMutex, identity, locked-memory buffer, timer, `locksAt`, `gen` | Unlock, Lock, autoLock, Status, With | stale timer callbacks, requests in flight, writer waiting behind readers |
| store, `internal/daemon/store.go` | `writeMu`, the vault file | Get, List, Store, Delete | read-modify-write cycles, readers beside a writer, identity replaced between cycles |
| vault file, `internal/vault`, `internal/atomicfile` | `vault.age`, `vault.age.bak`, temp files | Read, Write | a step of several failing, crash between two renames |
| server, `internal/daemon/server.go` | connections, in-flight count, listener | Listen, Serve, handle, dispatch, call | unlock is two session operations, shutdown against late requests, two daemons on one path |
| identity files, `internal/identity` | `identity.age` / `identity.txt` and their backups | Init, load, Set/Change/RemovePassphrase | crash between two files, reader beside a writer |
| protocol, `internal/protocol` | a connection's buffer | ReadRequest, Bind, Write | framing, line limit, what is answered and what closes |
| client package, `pkg/keycell` | one connection per call | Connect, calls | context against answer, what an error says of the request, wiping on every path |
| configuration, `internal/config` | none | Load | three layers, defaults that depend on the environment |
| terminal prompt, `internal/tty` | the terminal's echo, a goroutine per prompt | Read, Confirm | signals at any step, a goroutine that outlives its prompt |
| CLI, `cmd/keycell` | buffers with passphrases and values | init, passphrase, unlock, status, lock, get, list, store, delete, import, export, exec, git-credential | check-then-act over several calls, retries, wiping on every path |
| Docker helper, `cmd/docker-credential-keycell` | none | get, store, erase, list | the same, and naming |

How they interact:

- A client opens a connection, sends one request, reads one response, closes.
  The server runs one goroutine per connection (`handle`), which may read
  further requests; `dispatch` counts the request in `inflight`, `call` decides
  it.
- `get`, `list`, `store` and `delete` run inside `Session.With`, so under the
  read lock of the session's mutex and with its identity; `store` and `delete`
  take the store's `writeMu` before.  `unlock` is `Session.Unlock`, then a read
  of the vault under `With` (`verifyIdentity`), then, if that fails,
  `Session.Lock`.  `status` and `lock` only touch the session.
- `Session.Unlock` arms a timer with `time.AfterFunc`; its callback runs on a
  goroutine of its own and takes the session's mutex as a writer.
- `vault.Write` encrypts and hands the bytes to `atomicfile.Write`, which the
  identity files are written with, too.  `keycell init` and `keycell
  passphrase` change the files without the daemon.
- `main.run` of `keycelld` listens, serves, and cancels on a signal.
- A command of `keycell` loads the configuration, may prompt (`tty.Read`, which
  starts a goroutine that waits for a signal), and calls the client package.

What makes each part correct, in one line each:

- session: an identity is dropped only on request or at its own deadline, it
  is always dropped then, never under a running request, and no call hangs;
- store and dispatch: the requests on secrets behave like steps on one map; the
  vault stays readable for its owner; a wrong identity does not stay; nobody
  waits at one mutex for somebody who waits for him at the other;
- atomic file: a version is always left, an acknowledged one survives crashes;
- listening: one daemon serves, on the socket that clients find;
- serve: a shutdown ends, after the requests that ran, and leaves nothing behind;
- identity files: the identity that opens the vault is never lost or mistaken;
- client package: what a call returns is true of what the daemon decided, the
  context bounds it, and of secrets no copies stay but those that are named;
- configuration: a setting comes from the uppermost layer that has it, and a
  wrong one is never hidden by an upper layer;
- prompt and commands: the terminal echoes again, what is typed is not seen, a
  passphrase is the one entered twice and does not linger; exec's command has
  the environment that was mapped;
- clients: helpers find what they stored, `--no-overwrite`, `import`, `export`
  and `exec` keep their word in the middle of other processes' calls.

`PROJECT.json` lists every component with its state of modelling, the hazards
with the line where each bites and the properties that cover it, and for every
definition the lines of code that it stands for.

## 2. Modules

| module | models | uses |
| --- | --- | --- |
| `RWMutex` | `sync.RWMutex` as state operators: a writer announces, new readers queue behind it, it owns the lock once the readers have drained, and hands over to the queued readers | |
| `LockState` | abstract: what the session promises | |
| `Session` | `session.go`; handlers and timer callbacks at the mutex | RWMutex; refines LockState |
| `LockAfter` | an auto-lock's duration on its way from the configuration, the command line, the package or the wire to the session, with the width of its words; operators | |
| `SecretMap` | abstract: a map with atomic get, list, store and delete | |
| `Daemon` | `call`, `toError` (`server.go`), `store.go`, `vault/file.go` | Session (an instance shares its state); refines SecretMap |
| `AtomicFile` | `atomicfile.go`, step by step, with kills and power failures | |
| `Framing` | `codec.go` and the loop of `Server.handle`, byte by byte, for one connection | |
| `Identity` | `internal/identity`: several processes on one directory | |
| `Listen` | `Listen` and the end of `Serve`, several daemons on one path | |
| `Serve` | accept loop, handlers, WaitGroup, shutdown | |
| `Credentials` | matching and naming of the git and Docker helpers | |
| `Clients` | commands of several calls, several processes | Credentials |
| `Promise` | abstract: what a call of the client package promises its caller | |
| `Calls` | `transport.go` and `keycell.go`, one call at a time, with the daemon's end of the connection and daemons that stop, die and start again | refines Promise |
| `Settings` | `config.Load`, an operator | |
| `EnvMapping` | the mapping of `exec` and `mergeEnv`, operators and a recursive function | |
| `Prompt` | `tty.Read`, its goroutine, signals | |
| `Command` | one run of `keycell`, from its configuration to its exit code | Settings, EnvMapping, Prompt, LockAfter |
| `SessionProofs`, `AtomicFileProofs`, `IdentityProofs`, `FramingProofs` | theorems about the module of that name | the module, TLAPS |
| `DaemonProofs` | theorems about `Daemon`, the session in it included | Daemon, SessionProofs (an instance), TLAPS |
| `ServerProofs` | theorems about `Serve` and `Listen` | both, TLAPS |
| `CommandProofs` | theorems about `Command`, and so about `Settings`, `EnvMapping`, `Prompt` and `LockAfter` | Command, TLAPS |
| `ClientProofs` | theorems about `Clients`, and so about `Credentials`, and about `Calls` | both, TLAPS |
| `MCSession`, `MCDaemon`, `MCClients`, `MCCalls`, `MCCommand` | instances for TLC | |

Three compositions matter.  `Daemon` instantiates `Session` with the same
variables, so every step of the session, its timers included, is a step of the
daemon.  `Clients` builds on what `Daemon` shows instead of containing it:
because requests on secrets are linearizable, one call of a client is one step
there.  `Daemon` in turn takes a replacement of the vault to be two steps (away
to `.bak`, new file in place), any of which may fail: what `AtomicFile` shows
about it step by step.  `Command` shares the variables of `Prompt`: its steps
and those of the prompt, its goroutine and the signals interleave.

## 3. State and actions against the code

**Session.** `mu`, `buf`, `id`, `timer`, `locksAt` and `gen` are the fields of
the struct; `timer` holds the generation of the timer instead of a pointer, and
`locksAt = 0` is the zero time.  `due` and `pc[g]` for a generation `g` are the
runtime's side of the n-th timer: armed, stopped, or its callback on its way to
the mutex.  `live` counts `secmem` buffers.  What runs under the write lock is
one action (`UnlockBody`, `LockBody`, `AutoLockBody`), because nothing else can
look at the fields then; on the way there `CallUnlock`/`CallLock`/`TimerFires`,
`Announce` and draining are steps of their own.  `With` takes the read lock,
runs its function over any number of other steps (`WithRuns` to `WithReturns`)
and gives it back.  Goroutines wait in `Places`, so every wait of the code is a
state; `CanGoOn` says what such a wait is for.

**Daemon.** `step[t]` is where a handler is in `call`; `file` and `bak` are
`vault.age` and its backup as (owner, table) pairs, a value standing for a
whole record.  `writeMu` is a variable of its own.  A write is `BeginWrite`
(writeMu, then the session's read lock), `Modify` or `AbortWrite`, `Backup`,
`Replace` or `WriteFails`, `EndWrite`.  `Map!Spec` is the refinement mapping:
the secrets are those of the file at `path`, or of `.bak` in the window between
the renames.

**LockAfter** is operators, for who asks and for how much: `Rejects` is what the
configuration and the command line do not take, `WholeSeconds` what `UnlockFor`
sends, `Multiplied` the product in `Server.call` with what it loses, and `Given`
all of it, up to `Session.Unlock`.  `Command` uses it for `unlock --for`.

**AtomicFile.** Each system call of `Write` is an action.  `dirs` holds the
directory's contents since the last fsync of it, the present ones last: a power
failure may leave any of them.  `state` is how much of each file is there:
empty, whole in the page cache, synced, or torn by a power failure.  `Fail`
stands for any step that fails before the file is in place, `Kill` for the
process's end, `PowerFails` for the machine's.

**Listen.** One action per system call on the path: stat, dial, remove, bind,
listen, chmod, and at the end unlink, close, return.  `Serial` says whether one
start has to end before the next begins, as a service manager sees to.  Its
specification is `ListenSpec`, that of `Clients` `ClientsSpec`, because each is
proved about in one module with another specification.

**Serve.** `main` is where `Serve` is, `h[c]` where the handler of `c` is, and
`inflight` the counter, with the waiter's own state, because `sync.WaitGroup`
panics when it is reused before `Wait` has returned.

**Framing.** `buf` and `n` are the Reader's; bytes carry the number of their
line, so that a torn or mixed line is seen for what it is.  `Grow`, `Read`,
`ReadRequest` (with `consume`) and `LineTooLong` are the branches of `readLine`,
`Dispatch`, `Answer` and `Refuse` those of `handle`.  `freed` and `copies` are
history: bytes in buffers given up, and decoded params.  What `dispatch` does is
in `Daemon`, and the closing of connections by the server in `Serve`.

**Identity.** A file is its key and passphrase (or `Plain`), or `Absent`; every
look at the directory and every rename is a step; operations are those of the
CLI's `init` and `passphrase`, plus `Load`.

**Clients.** `next[c]` is the next call of a command, `todo[c]` the names it is
still to be made for, at the positions they have among its names (`Front` is the
first of them, `Rest` what is left after it, `Part` the positions of the names in
a set); one call is one step, refused while the daemon is locked, or in doubt
after INTERNAL.  `wrote`, `kept` and `quiet` are history.

**Calls.** `pc[k]` is where call `k` is between `NewRequest` and its return,
`ctx[k]` its context, `sent` and `answer` what the connection has of the request
and of the response; `cut` and `srv` are its two ends.  `h[k]` is the handler,
as far as the connection sees it.  A store reads the vault (`Load`) and writes
it (`WriteVault`) under its daemon's `writeMu` (`MayLoad`), the daemons of one
path one after the other, but a daemon that stops goes on serving what it has
accepted: `vault` is the file, and what handlers have read of it.  `mem` says
where copies of a secret are.  In the client (`OfClient`): the argument of an
unlock, the marshalled params, the Reader's buffer (`line`), the result in it.
In the handler (`OfServer`): the Reader's buffer (`input`), the request's params,
the value that `Store.Get` has cloned, the marshalled response.  Requests and
responses may come in pieces (`WritePart`, `Receive`, `RespondPart`, `ReadPart`),
so that a buffer may hold a part of a line that never ends.  A handler may hang
before it does anything (`stuck`) or with the vault read and `writeMu` taken
(`hung`), which holds its daemon's other stores, too.  `AfterFunc` and
`TimesOut` are the two ways in which a context ends a read.  `Contract` maps a
call's state to `Promise`: `decided` and `told` as they are.

**Settings and EnvMapping** are operators, used by `Command`'s `Configure` and
`Names`.  `Load` is `Apply` for each of the three layers, the later over the
earlier.  A text is one of a few classes that `Load` tells apart; the result
says from which layer each setting comes, or what the first error is about.
`ByVar` is the map that `parseEnvMapping` fills, entry by entry; `Mapping` is the
sorted sequence made of it, given by the places that its variables have in
`VarOrder`.

**Prompt.** `at` is where `Read` is: `open`, `silent` (echo off, signals not yet
asked for), `reading`, `stopping` (the line is there), `restoring` (signals no
longer asked for) and `answered`.  `inbox` is the channel of signals, with room
for one.  `Caught` says when a signal goes there; at any other time it kills.

**Command.** `step` is where the command is; `entry`, `first`, `second` and
`value` wait for a prompt, `apply` is what is done with the answer.  `buf` is
what each buffer of the code holds, by the name of its variable: the current
passphrase (`entry`), Confirm's two, the new one (`next`), a value, the
identity; `outgrown` is what `readLine` or `io.ReadAll` leaves behind when a line
or a piped value is longer than the buffer it is first read into.  Answers of the daemon
and faults of files are choices.  `confirmed` is history, and so is `sent`: the
limit, if any, that `unlock` has got to the session.

## 4. Runs

Every module with state defines the type of it as `TypeOK`, or with the module's
name before it (`ListenTypeOK`).  No run is spent on
it: it is there for the reader, and the inductive invariants of section 6 contain
it or a part of it.  `NoDeadlock` of `Session` has no run either: that of
`Daemon`, which contains the session, says it of both mutexes.

| run | module, configuration | instance | shows |
| --- | --- | --- | --- |
| `session` | `MCSession` | 3 handlers, 1 identity, timers of one tick or none (the negative duration), 2 unlocks, fairness | `RunningKeepsIdentity`, `DeadlineHasTimer`, `NoBufferLeaks`; `KeepsPromise` (refines `LockState`), `KeepsPromiseAtLast` (with its liveness), `EveryCallReturns` |
| `atomicfile` | `AtomicFile` | 2 writers, 3 calls, 2 crashes | `NeverPartial`, `SomeVersionLeft`, `AckedSurvives`, `BackupIsPrevious` |
| `daemon` | `MCDaemon` | 2 handlers, all methods, 2 identities, 1 name, 1 value, auto-lock, 1 failing write | `VaultKeepsOwner`, `SettledIdentityOpensVault`, `NoDeadlock`, `Linearizable` (refines `SecretMap`) |
| `daemon_live` | `MCDaemon`, `MCDaemonLive.cfg` | 2 handlers, get, store, unlock, lock, auto-lock, fairness | `EveryRequestAnswered` |
| `listen` | `Listen` | 3 daemons, 5 starts one at a time, kills | `ServingReachable` (and so `OneServes`), `StaleSocketIsNoObstacle` |
| `serve` | `Serve` | 2 connections, any requests, fairness | `EarlyCallsDecided`, `ShutdownEnds` |
| `framing` | `Framing` | 3 lines of any kind, of 0, 2, 5 and 6 bytes, a limit of 5, a first buffer of 2, fairness | `AnsweredInOrder`, `NothingLingers`, `EveryLineAnswered` |
| `identity` | `Identity` | 1 changing and 1 loading process, 2 identities, 2 passphrases, 1 failing write, 1 kill | `VaultKeyOnDisk`, `SuccessLeavesOneForm`, `LoadsVaultKey` |
| `calls` | `MCCalls` | a call of any kind or a store and another one, with or without a context; 2 daemons; fairness | `NoSecretLeft`, `LostOnlyToOtherDaemon`, `TellsTheTruth` (refines `Promise`), `EveryCallReturns` |
| `command` | `MCCommand` | every command and form of the identity files, 2 passphrases, 5 prompts, 2 signals; about 20,000 configurations; mappings of 2 lines and 2 flags; `--for` with all durations of 8 bits, a second of 7 nanoseconds; fairness | `EchoRestored`, `TypedInSilence`, `SignalEndsPrompt`, `SetsWhatWasConfirmed`, `ZeroedAfterUse`, `SettingsFromTopLayer`, `ExecEnvironment`, `LimitIsAskedFor` |
| `clients` | `MCClients` | 2 processes, any 3 of 35 commands, 1 failing call | `StoredIsAnswered`, `NoOverwriteKeeps`, `WholeOrFails` |
| `clients_created_is_new` | `MCClients`, `MCClientsCreatedIsNew.cfg` | 1 process, 2 commands | violation of `CreatedIsNew` (section 7) |

### Bounds, and why they are enough

- *Three handlers, two unlocks* (session): the hardest case is a callback of the
  first unlock waiting behind a reader while a second unlock replaces the
  session; a reader, a writer and one more of either, next to two timers, give
  every pairing at the mutex.  Safety does not rest on the bound: it is proved.
- *Two handlers* (daemon): a handler between `Unlock` and `verifyIdentity`, or
  between two renames, against any other request, plus a timer.  Three handlers
  with fewer methods gave nothing new.  One name and one value: the code treats
  names apart from each other, so a second name only adds independent copies.
  With two identities one of them is not the owner's.
- *Two writers, three calls, two crashes* (atomic file): one call to be
  acknowledged, one to overlap with, one to recover after a crash; the second
  crash hits what the first has left.
- *Five starts* (listen): a daemon that is killed, one that takes over, one that
  is refused, and a restart of each.
- *Lines of 0, 2, 5 and 6 bytes* (framing) with a limit of 5 and a first buffer
  of 2: empty, filling the first buffer, as long as the limit and one over it;
  the buffer grows by doubling and then by less.  Three lines give one that is
  consumed, one that is shifted and one that is still to be read.
- *Two connections* (serve): one request in flight and one that comes late.
- *One failing write and one kill* (identity) may hit any step of any operation,
  and every sequence of operations may follow, since operations are not
  bounded; the number of generated identities is.
- *Two processes, three commands* (clients): a store, another one that
  interferes, and one that relies on the outcome.
- *Two calls, two daemons* (calls): a store whose caller has given up and the
  attempt that follows it, which may meet the next daemon; a daemon that closes
  and one that serves.  Connections share nothing else, so the other kinds of
  call are checked one at a time.
- *Five prompts, two signals* (command): `passphrase` asks once for the current
  passphrase, twice for the new one and twice more for the current one, which is
  all it ever does.  One signal wakes a goroutine, the second one meets the next
  prompt.  Two passphrases, one of them long: a right and a wrong one, and for a
  value one that is read into one buffer and one that outgrows it.
- *Settings*: any two of the twelve, or all three layers of one, because layers
  are applied field by field; with every combination of HOME and XDG variables
  for up to one.  *Mappings* of two lines and two flags: an entry that is
  replaced in the file, by a flag, and among the flags.
- *Words of 8 bits, a second of 7* (command): durations below a second, of
  whole seconds and between them.  The proof is for every width, and for counts of
  seconds from the wire, whose product may wrap.

Actions count against their bounds in their guards (`MaxGen`, `MaxTime`,
`MaxWrites`, `MaxCrashes`, `MaxFails`, `MaxKills`, `MaxKeys`, `MaxStarts`,
`MaxCommands`, `MaxCalls`, `MaxDaemons`, `MaxPrompts`, `MaxSignals`).  Where the bounds or the end of a daemon may leave nothing to
do, the configuration switches the deadlock check off and says so by its module:
a file that is not written any more, daemons that have all stopped, processes
without a command, calls that have returned, a command that is over.  `Session`, `Daemon` and `Identity` are checked for deadlock.
That check is content as long as anything at all can happen, a new request for
one; `NoDeadlock` asks for a step of those who are in a call already.
`CanGoOnIsEnabled` in `MCSession` and `MCDaemon` says that the guards it names
are those of the actions (`ENABLED`); as an additional `INVARIANT` of the two
configurations it holds in every state.
Symmetry (threads, processes) is used in safety runs only.

### Mutants

Every property has at least one mutant of the code that breaks it: definitions
such as `DropKeepingDeadline` or `IOError`'s `BrokenIsNotRunning` ("a slip") stand before the
definition they would replace, and `PROJECT.json` pairs them with the property.

## 5. Fairness

- *Handlers* (`WF` of their steps in Session, Daemon, Serve): a goroutine that
  can go on is scheduled; functions under the read lock do file I/O and return.
- *Taking a mutex* (`SF` of `Announce` and `BeginWrite`): `sync.Mutex`, also
  inside the RWMutex, enters starvation mode after a millisecond and then hands
  itself over first-in first-out, so a goroutine that keeps asking gets it even
  though others take it in between.  Read locks need no strong fairness: a
  writer that leaves admits the queued readers.
- *Timers and the clock* (`WF`): the runtime fires due timers, time passes.
- *Framing* (`WF`): the handler reads what is there and writes its response.
  This assumes a peer that reads its responses: nothing in the code ends a
  write to a peer that does not, short of a shutdown.
- *Serve* (`WF`): the shutdown's own steps, the timer of the grace period, an
  accept or a read on a closed descriptor.  Nothing is assumed of clients: they
  need not connect, send, read, or ever stop sending.

- *Calls* (`WF`): the caller's goroutine, `AfterFunc`'s and the handler go on
  when they can, a grace period ends.  A request may hang for ever (`GetsStuck`)
  and hold others with `writeMu`; nothing is assumed of contexts, signals, or of
  there being a daemon: `EveryCallReturns` says who may hold a call then.
- *Command* (`WF`): the process and each prompt's goroutine go on.  Nobody has
  to type anything, and no signal has to come.

No liveness is claimed of `AtomicFile`, `Identity`, `Listen` and `Clients`: they
are sequences of system calls or of calls that return.

## 6. Proofs

Every theorem holds for any values of the constants that satisfy the assumptions
named beside them, so for any number of handlers, connections, processes, calls,
names, values, crashes and failures; the bounds of the runs are parameters that
the proofs do not look at.

| module | theorem | says |
| --- | --- | --- |
| `SessionProofs` | `TypeCorrect`, `RequestsUninterrupted`, `DeadlinesKept` | `Safety => []TypeOK`, `[]RunningKeepsIdentity`, `[](DeadlineHasTimer /\ OnlyOwnTimerArmed)` |
| | `BuffersDestroyed` | `Safety => []NoBufferLeaks` |
| | `DeadlockFree` | `Safety => []NoDeadlock`, for one mutex |
| | `Refinement` | `Safety => KeepsPromise`: the session implements `LockState` |
| `DaemonProofs` | `OwnerKeepsVault`, `WrongIdentityLeaves` | `Safety => []VaultKeepsOwner`, `[]SettledIdentityOpensVault` |
| | `StoreIsAMap` | `Safety => Linearizable`: the daemon implements `SecretMap` |
| | `DeadlockFree` | `Safety => []NoDeadlock`, for one mutex inside the other |
| | `SessionInServer`, `SessionPromises` | of the session in the daemon: `RunningKeepsIdentity`, `DeadlineHasTimer`, `NoBufferLeaks`, and that it implements `LockState` |
| `AtomicFileProofs` | `NothingPartial`, `VersionLeft`, `Durable`, `OneGeneration` | `Spec => []NeverPartial`, `[]SomeVersionLeft`, `[]AckedSurvives`, `[]BackupIsPrevious` |
| `ServerProofs` | `ReachableWhileServing`, `OnlyOneServes` | `ListenSpec => []ServingReachable`, `[]OneServes`, if `Serial` |
| | `StartsSucceed` | `ListenSpec => []StaleSocketIsNoObstacle` |
| | `WaitIsForAll` | `Spec => []EarlyCallsDecided` (`Serve`) |
| `FramingProofs` | `AnsweredInTurn`, `NothingStays` | `Spec => []AnsweredInOrder`, `[]NothingLingers` |
| `IdentityProofs` | `VaultKeyStays`, `LoadIsVaultKey`, `OneFormLeft` | `Spec => []VaultKeyOnDisk`, `LoadsVaultKey`, `[]SuccessLeavesOneForm`, if there is one writer |
| `ClientProofs` | `NothingOverwritten`, `AllOrFailure`, `FoundAgain` | `ClientsSpec => []NoOverwriteKeeps`, `[]WholeOrFails`, `[]StoredIsAnswered` |
| | `SecretsWiped`, `StoresKept` | `Spec => []NoSecretLeft`, `[]LostOnlyToOtherDaemon` (`Calls`) |
| | `Refinement` | `Spec => TellsTheTruth`: the client package implements `Promise` |
| `CommandProofs` | `TerminalRestored`, `NobodySeesTheLine` | `Spec => []EchoRestored`, `TypedInSilence` |
| | `ConfirmedIsSet`, `NothingHeld` | `Spec => []SetsWhatWasConfirmed`, `[]ZeroedAfterUse` |
| | `LimitReachesSession`, `TopLayerWins` | `Spec => []LimitIsAskedFor`, `[]SettingsFromTopLayer` |
| | `EnvironmentIsMapped` | `Spec => []ExecEnvironment` |
| | `LimitsKept` | `LocksInTime` |

For each specification there is also an `InvariantHolds` (`PathInvariantHolds`
for `Listen`, `ClientsInvariantHolds` for `Clients`), the inductive invariant
the others follow from: hardly any of the properties is inductive by itself.

What is assumed of constants is that values which the code tells apart are
apart (a handler is no timer's number, "absent" is no content, no socket is no
daemon, no variable is a comment), that bounds are naturals, durations integers
(`SessionAssumption`), that handlers and connections are finitely many where they
are counted (`FiniteAssumption`, `HandlerAssumption`, `ConnAssumption`), and, in
`LockAfter`, that half a word has room for a second.  The others say what a
caller may ask: in `Command` and in `Clients` (`CommandAssumption`) a command has
the fields, and the kinds of values, that its parsing yields (one name for a
store, distinct names for an import, which come from the keys of a document; for
exec, sequences of mappings of any length, with comments in the file only), in
`EnvMapping` (`VarAssumption`) the order of the variables names each of them once, in
`Prompt` (`PassAssumption`) no passphrase is mistaken for a failure, in `Framing`
(`LimitAssumption`) the first buffer is no longer than the limit and not empty,
in `Clients` (`OrderAssumption`) the order of names is a sequence.  Two
hypotheses are of another kind.  `Serial` in `ServerProofs` says that one start ends before the next
begins, as under a service manager: without it `OneServes` does not hold
(section 7).  `Writer = {w}` in `IdentityProofs` says that one `keycell init` or
`keycell passphrase` runs at a time, next to any number of loads; nothing in the
code sees to that, and two of them can lose an identity (section 7).

### Session

`IInv` adds to the three safety properties what they rest on: the ticket of the mutex is held by exactly the goroutine in
`drain` (`TicketHolder`), which is alone once the readers are gone; a running
request is a reader (`RunningReads`); the buffer and the parsed identity are
set and cleared together (`BufferIsIdentity`); a timer is in the field exactly
while a lock time is announced (`TimerIffDeadline`); generations above `gen`
are unused (`FutureTimersUnused`), so `gen + 1` is a fresh timer; a callback
runs only when it is due (`CallbacksAreDue`), and while the session of its own
generation lasts its lock time stands (`CurrentTimerCounts`), which is what
makes the generation check in `autoLock` sufficient for the refinement.

The argument: one lemma per group of actions that leave the fields alone
(`FieldsUnchanged`, `EnterWriter`, `EnterReader`, `LeaveReader`, `StartRunning`,
`TakeTicket`, `FireTimer`, `PassTime`), `OwnerIsAlone` for what the mutex
guarantees to its owner, and lemmas for what a writer does with the fields:
`DropStep` and `NothingToDrop` (with `StopTimer`), `InstallIdentity`.
`NextIInv` puts them together, action by action.  `Refinement` maps each action
to a step of `LockState` or to a stutter, under `IInv`.

`BuffersDestroyed` needs cardinalities: `live` is the session's buffer plus one
for each handler in `Unlocking`, a finite set that changes by one element.

`DeadlockFree` adds what the mutex and the calls know of each other: who is in
`With` or `Status` is a reader or queued, there is a queue only behind a writer
(`LockBooks`), and whoever waits as a writer came to write (`CallsFit`).  Then
there is no circle (`NoCircle`): a reader can go on; without readers the writer
that has announced itself owns the mutex; without one the others may announce.
An early return that kept the mutex would break `LockBooks`.

### The others

*Daemon.*  Two arguments in one invariant.  The first: from the modification of
the table to the end of its write, a handler runs under `With` with the identity
that has opened the vault (`WritersHoldOwner`), and no step of the session can
take it away while the handler runs, so what is written belongs to the owner
(`VaultKeepsOwner`).  The second says for each place a request can be at whether
it has been decided in `SecretMap`, and what its table and answer are (`InStep`);
everything between two steps of the server, the session's own steps and the
timers, leaves that alone (`InBackground`).  `NextIInv` yields both the invariant
and the step of the map.

The rest needs what the session's mutex guarantees.  Every step of the daemon is
a step of the session or leaves it alone (`ServerStepsSession`), so that
`DaemonProofs` instantiates `SessionProofs`, shows that its assumptions are met
(`SessionAssumed`), and has the session's invariant in the daemon (`Guarded`)
with everything that follows from it (`SessionInServer`, `SessionPromises`).
For `WrongIdentityLeaves`, an identity that does not open the vault can only be
there while the handler that brought it, or one that overlaps with it, has still
to verify it.  For `DeadlockFree`, a handler's step in `call` says where in the
session it is (`InPlace`): somebody who waits for `writeMu` waits for a handler
that is in the session's mutex or about to leave, and there nobody waits in a
circle.  No unlock or lock takes `writeMu`, so the order of the two mutexes is
the same everywhere.

*AtomicFile.*  Each directory a power failure may leave (`Dirs`) satisfies the
properties on its own (`AllGood`), and a directory is only changed by the two
renames, which keep them given how far the writer is (`Works`): synced before it
is renamed, `.bak` filled before `path` is gone.

*Listen.*  At most one daemon starts (`OneStarts`); who serves has its socket at
the path, and nobody else does (`NobodyElseServes`); whoever has bound owns the
path until it unlinks (`PathIsOwn`).

*Serve.*  The counter is the number of handlers in a request (`Counted`, with
cardinalities), so a wait that ends early ends with none of the early ones left
(`EarlyWaitedFor`); once it has ended, `Serve` goes on without them (`GoesOnDone`).

*Identity.*  The vault is written once and never backed up (`VaultWrittenOnce`),
and every identity that can be loaded is the vault's (`OneKey`), because an init
that goes on has seen neither an identity nor a vault (`InitAlone`) and a change
of form holds the vault's identity before it moves a file, and the file of its
new form before it removes the other (`ChangeHoldsKey`).  `OneFormLeft` needs, on
top of that, what the looks of a change at the directory still hold when it goes
on (`LooksHold`), which forms are there meanwhile (`OneForm`), and that an
identity without a passphrase is not backed up (`NoPlainLeft`).

*Calls.*  `InOrder` ties caller and handler of one connection to one another;
`Wiped` says at which place of the caller and of the handler which copy of a
secret may exist, so that `SecretsWiped` says exactly which ones stay: a line
that was not read to its end, and a get's value; `OneWriter` and
`StoreIsKept` that what a daemon has read of the vault includes every store it
has answered.  The refinement follows from `InOrder`.

*Framing.*  The bytes are laid out once and for all: `at[k]` of them come before
the k-th line (`Places`).  What the handler has not consumed, the buffer up to
`n` and then the pipe, is that stream from the beginning of the next line
(`Layout`), wherever reads have cut it, the buffer has grown or its rest has been
moved.  So the first newline in the buffer is that of the next line (`NextLine`),
what is consumed is that line (`Taken`) and what is refused is too long
(`Refused`); the rest is counting (`Counted`), and that bytes behind `n` are
zeros and no buffer has been given up with bytes in it (`Clean`).

*Clients.*  An invariant for each process, by the kind of its command: what it
has handled so far, given the call it makes next (`InTurn`).  A step changes one
process, and for the others only takes from `kept` and `quiet`
(`InTurnElsewhere`).  An export has every secret of its list or is still to get
it; `exec` has what it was asked for, or knows a name missing; an import has
stored or skipped every name before the one it has come to, and its names are
distinct, so that storing one says nothing of a later one; with `--no-overwrite`
the names still to be stored were not there at its list, and `kept` only shrinks.
For the helpers the matching itself is reasoned about: a record that agrees with
the request, under a name of its own, is the only match where there was none
(`NewMatches`), and a record that replaces the only match without changing what
is matched on remains it, whatever else is in the vault (`MatchStays`,
`DockerMatches`).

*Command.*  `Terminal` says for each place of a prompt who will turn the echo on
again, `Life` when the process may be over; together they are inductive for the
steps of the command, its prompts, their goroutines and signals (`TerminalHolds`).
`Data` adds what each buffer may hold where, and that what is left in outgrown
ones is of a long line or value (`Wiped`), which passphrase is on its
way (`Confirming`), and that the settings are those of the input (`Settled`); the
steps of a prompt leave all of that alone (`OthersKeep`).  `TopLayerWins` rests on a
lemma about one layer (`ApplyPasses`), used three times (`LoadPasses`).
`LocksInTime` says for everybody who asks for a limit what `LimitIsAskedFor` says
of the command line: division towards zero and back is at most a second less
and never larger, so the product of the package's own seconds never leaves the
word; only a foreign client's may.

`EnvironmentIsMapped` is about a recursive function and sequences of any length.
What `ByVar` has for a variable after n entries is the name of the last entry for
it among them (`ByVarIs`), which is shown by induction, as a contradiction: of
the numbers n for which it is wrong there is a least one (`Least`, from the
library's theorem that naturals are well-founded, which takes no operator), it is
not 0, and one entry makes it right for n if it is for n - 1.  With it, `Names`
asks for the right secret of each variable, in their order (`Gathered`), and the
command is started with all of them in place of its own (`ExecveGives`).

Every safety property that a run checks is stated by a theorem.  Only
model-checked is what is out of the prover's reach: liveness
(`KeepsPromiseAtLast`, `EveryCallReturns` of `Session` and of `Calls`,
`EveryRequestAnswered`, `ShutdownEnds`, `EveryLineAnswered`, `SignalEndsPrompt`)
and `ENABLED` (`CanGoOnIsEnabled`).  `CreatedIsNew`, `ValueIsCleared` and
`BuffersZeroed` do not hold, and TLC shows how (section 7).
No module uses a `RECURSIVE` operator.

## 7. What the code does against its documents

Three properties state what the repository says and the code does not keep:

- `CreatedIsNew` of `Clients`: a git store without a match takes the name, and so
  the place, of the token of another repository on the same host, when git
  sends paths: the name leaves the path out, although `docs/KINDS.md` says that
  a new secret is created;
- `ValueIsCleared` of `Calls`: the value that `Store.Get` clones for a get is never
  cleared.  `store.go:61` says that the caller does it; `Server.call` puts the
  clone into the result, and `handle` clears only what it is marshalled into;
- `BuffersZeroed` of `Command`: `io.ReadAll`, which reads a piped value, and
  `readLine`, which reads a typed line, leave the buffers that a longer one
  outgrows (from 512 and from 256 bytes on), although `docs/CLI.md:328` says that
  buffers are zeroed after use, and `tty.go:116` "every intermediate buffer".

The run `clients_created_is_new` finds the first one violated.  TLC refutes the
other two as soon as they are added to the `INVARIANTS` of `MCCalls.cfg` and
`MCCommand.cfg`; `NoSecretLeft` and `ZeroedAfterUse`, which those runs check, say
that these copies, and those of the Readers below, are all that stays.

Others met while modelling, which the models contain and no run is spent on:

- `atomicfile.Write`, with a backup, which every caller asks for, first renames
  `path` to `path.bak`; until the second rename a reader finds no file
  (`BackupPath` in `AtomicFile`), while `atomicfile.go:1` promises "either the
  old or the new content";
- `inflight.Add` of a late request may meet `inflight.Wait` just as it returns,
  and the WaitGroup panics during the shutdown (`main = "panicked"` in `Serve`),
  while `server.go:89` says that Serve returns nil on a clean shutdown;
- a value over the limit is answered PROTOCOL by the daemon's reader, so the
  caller is told `ErrProtocol` and not `ErrInvalidArgument`, which
  `keycell.go:25` gives as the example (`TooLong` and `Decode` in `Calls`);
- `tty.Read` leaves the terminal silent if a signal comes before it has asked
  for signals or after it has stopped (`EchoRestored` names the two moments);
  and a signal that comes after the line is there is swallowed: the command
  goes on as if it had not come;
- a Reader keeps what it has read of a line that does not end or is too long:
  the client's, of a get whose answer is cut off, and the daemon's, of a request
  (`line` and `input` in `Calls`), although `codec.go:28` says that nothing
  lingers in the framing layer;
- `UnlockFor` cuts its duration to whole seconds, so `unlock --for 500ms` sends
  0, which switches the auto-lock off (an exception in `LimitIsAskedFor`), while
  `README.md` and `docs/CLI.md` keep that for `--for 0`;
- two daemons that start at once may both serve, because a socket that is bound
  and does not listen yet is taken for stale: `OneServes` is checked for starts
  one at a time, and TLC finds it violated in `Listen` with `Serial = FALSE`;
- a request without an id or with an unknown method is decoded, params included,
  and that copy is not cleared; nor does the limit on a line bind the daemon's
  own responses, which the clients' Reader then refuses;
- not in the models at all are other copies of secrets that nobody clears: the
  vault's plaintext as far as `io.ReadAll` has outgrown its buffers
  (`vault/file.go:37`), and the value of a secret that a store replaces or a
  delete removes (`store.go:127`, `store.go:140`), although `README.md:105` says
  that each request zeroes the plaintext; the buffers that `import` outgrows when
  it reads a pipe (`transfer.go:138`); what `Bind` has decoded of params that it
  then refuses; and what `encoding/json` copies on its way, of which `codec.go:124`
  accepts the Writer's share;
- an unlock that overlaps with another one is verified with whichever identity
  the session holds by then, so a wrong identity may be answered ok (it does
  not stay, `SettledIdentityOpensVault`); and requests in between are answered
  that the identity does not open the vault;
- a request that reads the vault while it has no file at its path is answered
  INTERNAL, and an unlock then locks a right identity out again;
- when the second rename of a write fails the vault is left at `.bak` only, and
  nothing in the code reads it from there;
- an unlock that is decided after Serve's `session.Lock` leaves the session
  unlocked when `Serve` returns; a response may be lost because a request leaves
  the in-flight count before its response is written;
- an `init` that ends between its two files cannot be repeated, because it
  refuses a directory with an identity; two at once may leave the vault of one
  with the identity of the other;
- the Docker helper's names leave out scheme and path, as git's leave out path
  and protocol;
- `pkg/keycell`'s comment on Unlock says that nothing happens when the daemon is
  unlocked; the daemon replaces the identity and restarts the auto-lock.

## 8. Not modelled

- *Of the protocol*: `Bind`, which decodes a method's params, and JSON.
- *Of listening*: that a live daemon does not answer a dial.  One whose queue of
  connections is full refuses it, and a start would take its socket for stale;
  `Dial` assumes room in the queue.
- *Of the client package*: responses that this daemon never sends, with another
  id or a result of another type; both are `ErrProtocol`.
- *Of the commands*: `Fails` in `Command` is a failure before anything has been
  written; a change that fails halfway is in `Identity`.  What the helpers,
  `import` and `export` keep in memory is left out, as are the format of their
  output, the document of `import` and `export`, help and completion; what Go's
  strings and the age package keep of a passphrase is out of the program's reach,
  and out of `buf`.
- *Cryptography and the JSON codec*: an identity opens the vault that was
  encrypted to it, and nothing else does; a vault that is corrupt is left out.
- *Kinds, attributes and timestamps* in `Daemon`; `Clients` has the attributes
  that matching looks at, where git's `protocol` is treated like its `path`.
- *Vault validation*: a name, kind or attribute is valid or not (`BadName`).
- *Service notification, locked memory, process hardening*: a datagram, or
  system calls without state that a property could be about; `Session` counts
  the buffers.
- *Build and install scripts*.

## 9. Plan

Done in this order, the most important behaviour first: `RWMutex`, `LockState`,
`Session` and its proofs; `AtomicFile`; `SecretMap` and `Daemon`; `Listen`;
`Serve`; `Framing`; `Identity`; `Credentials` and `Clients`; `Promise` and
`Calls`; `Settings`, `EnvMapping`, `Prompt` and `Command`; `LockAfter`; then the
proofs about `Calls`, `AtomicFile`, `Listen`, `Serve`, `Daemon`, `LockAfter`,
`Identity`, `Command` with `Prompt` and `Settings`, `Framing`, `Clients` and
`EnvMapping`; last, that nobody waits in a circle in `Session` and `Daemon`.

Next, modelling: `Bind` with unknown fields and null params; the validation of
records; two processes at once that change the identity files.

Next, proofs: abstract specifications for `Identity` and `AtomicFile`, a
directory that holds one identity and a file that holds one version, and that
they are implemented; what two writers of `Identity` may still rely on; that a
step of `Prompt` in `Command` is one of a terminal seen alone.

\* Three handlers under the runtime's fairness, timers of one tick, and room
\* for two unlocks: a stale callback and the session that replaced its own.
CONSTANTS
    Thread = {t1, t2, t3}
    Identity = {i1}
    Nil = Nil
    NoProc = NoProc
    DefaultFor = 1
    Durations <- MCDurations
    MaxGen = 2
    MaxTime = 1
SPECIFICATION Spec
INVARIANTS
    RunningKeepsIdentity
    DeadlineHasTimer
    NoBufferLeaks
PROPERTIES
    KeepsPromise
    KeepsPromiseAtLast
    EveryCallReturns

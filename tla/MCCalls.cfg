\* A call of any kind, or a store and its second attempt; two daemons, of which
\* the second may start while the first one is still closing.
CONSTANTS
    MaxCalls = 2
    Plans <- MCPlans
    MaxDaemons = 2
SPECIFICATION Spec
INVARIANTS
    NoSecretLeft
    LostOnlyToOtherDaemon
PROPERTIES
    TellsTheTruth
    EveryCallReturns
CHECK_DEADLOCK FALSE

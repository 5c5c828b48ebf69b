\* Two handlers, every method, two identities, one failing write, and an
\* auto-lock that may go off at any step after the first unlock.
CONSTANTS
    Thread = {t1, t2}
    Identity = {i1, i2}
    Owner = i1
    Nil = Nil
    NoProc = NoProc
    DefaultFor = 1
    Durations = {}
    MaxGen = 2
    MaxTime = 1
    Name = {n1}
    Value = {v1}
    BadName = BadName
    None = None
    Absent = Absent
    Methods = {"get", "list", "store", "delete", "unlock", "lock", "status"}
    MaxFails = 1
SYMMETRY Symmetry
SPECIFICATION Safety
INVARIANTS
    VaultKeepsOwner
    SettledIdentityOpensVault
    NoDeadlock
PROPERTIES
    Linearizable

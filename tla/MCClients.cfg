\* Two processes at a time, any three commands, one failing call.
CONSTANTS
    h = h
    u = u
    p1 = p1
    p2 = p2
    Host = {h}
    User = {u}
    Path = {p1, p2}
    None = None
    Client = {c1, c2}
    Order <- MCOrder
    BadName <- MCBad
    Commands <- MCCommands
    MaxCommands = 3
    MaxFails = 1
SYMMETRY Symmetry
SPECIFICATION ClientsSpec
INVARIANTS
    StoredIsAnswered
    NoOverwriteKeeps
    WholeOrFails
CHECK_DEADLOCK FALSE

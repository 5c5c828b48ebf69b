\* One process; nothing fails.
CONSTANTS
    h = h
    u = u
    p1 = p1
    p2 = p2
    Host = {h}
    User = {u}
    Path = {p1, p2}
    None = None
    Client = {c1}
    Order <- MCOrder
    BadName <- MCBad
    Commands <- MCCommands
    MaxCommands = 2
    MaxFails = 0
SPECIFICATION ClientsSpec
INVARIANT CreatedIsNew
CHECK_DEADLOCK FALSE

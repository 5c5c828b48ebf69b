\* Three daemons, started one at a time, stopped and killed at any moment.
CONSTANTS
    Daemon = {d1, d2, d3}
    NoSocket = NoSocket
    Serial = TRUE
    MaxStarts = 5
SPECIFICATION ListenSpec
INVARIANTS
    ServingReachable
    StaleSocketIsNoObstacle
CHECK_DEADLOCK FALSE

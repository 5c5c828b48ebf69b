\* Two connections with any requests, and a shutdown at any moment.
CONSTANT Conn = {c1, c2}
SPECIFICATION Spec
INVARIANTS
    EarlyCallsDecided
PROPERTY ShutdownEnds
CHECK_DEADLOCK FALSE

\* A first buffer of two bytes and a limit of five: it grows twice, the second
\* time by less than double.  Lines that are empty, shorter, as long as the
\* limit and one byte longer.
CONSTANTS
    StartLen = 2
    Limit = 5
    Lengths = {0, 2, 5, 6}
    MaxLines = 3
SPECIFICATION Spec
INVARIANTS
    AnsweredInOrder
    NothingLingers
PROPERTY EveryLineAnswered
CHECK_DEADLOCK FALSE

\* Two writers, as two `keycell passphrase` are, whose three calls may overlap
\* or, as in the daemon, not; two crashes.
CONSTANTS
    Writer = {w1, w2}
    Absent = Absent
    MaxWrites = 3
    MaxCrashes = 2
SPECIFICATION Spec
INVARIANTS
    NeverPartial
    SomeVersionLeft
    AckedSurvives
    BackupIsPrevious
CHECK_DEADLOCK FALSE

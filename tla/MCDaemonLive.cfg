\* Two handlers under fairness, with an auto-lock that may go off at any step.
CONSTANTS
    Thread = {t1, t2}
    Identity = {i1}
    Owner = i1
    Nil = Nil
    NoProc = NoProc
    DefaultFor = 1
    Durations = {}
    MaxGen = 1
    MaxTime = 1
    Name = {n1}
    Value = {v1}
    BadName = BadName
    None = None
    Absent = Absent
    Methods = {"get", "store", "unlock", "lock"}
    MaxFails = 0
SPECIFICATION Spec
PROPERTIES
    EveryRequestAnswered

SPECIFICATION Spec
CONSTANTS
    w1 = w1
    w2 = w2
    a = a
    b = b
    Workers = {w1, w2}
    Paths = {1, 2}
    Contents = {a, b}
    Own <- OwnShared
    Known <- KnownNone
    Recovery = {}
    Absent = Absent
    Torn = Torn
    None = None
    MaxBundles = 2
    MaxFaults = 0
    MaxAppendFaults = 0
    MaxCrashes = 0
INVARIANTS
    RecordedIntact
CHECK_DEADLOCK FALSE

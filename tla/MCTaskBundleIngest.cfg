SPECIFICATION Spec
CONSTANTS
    w1 = w1
    w2 = w2
    a = a
    b = b
    Workers = {w1, w2}
    Paths = {1, 2, 3, 4}
    Contents = {a, b}
    Own <- OwnDisjoint
    Known <- KnownOne
    Recovery = {w2}
    Absent = Absent
    Torn = Torn
    None = None
    MaxBundles = 2
    MaxFaults = 1
    MaxAppendFaults = 1
    MaxCrashes = 1
INVARIANTS
    RecordedIntact
    VerifiedOnSoundCopy
    OrphansOnlyFromAppend
CHECK_DEADLOCK FALSE

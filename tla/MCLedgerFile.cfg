SPECIFICATION FairSpec
CONSTANTS
    Procs = {p1, p2}
    Keys = {k1, t1}
    Completions = {t1}
    NoKey = NoKey
    Vals = {v1, v2}
    None = None
    MaxBatch = 2
    MaxCommands = 2
    MaxKills = 1
    MaxCollects = 1
INVARIANTS
    SettledOnce
    RepliesHold
PROPERTIES
    LogSpec
    CommandsEnd
CHECK_DEADLOCK FALSE

SPECIFICATION Spec
CONSTANTS
    Procs = {p1, p2, p3}
    Overlap = TRUE
    MaxCrashes = 0
PROPERTIES
    CompletedNotExecuted
CHECK_DEADLOCK FALSE

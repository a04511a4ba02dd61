SPECIFICATION FairSpec
CONSTANTS
    Procs = {p1, p2}
    Overlap = FALSE
    MaxCrashes = 1
INVARIANTS
    CompletedMeansFinished
    ActiveIsExecuted
PROPERTIES
    RecordedStatusStands
    StepsRunOut
    InterruptRecorded
    ProcessesEnd
CHECK_DEADLOCK FALSE

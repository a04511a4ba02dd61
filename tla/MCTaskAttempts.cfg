SPECIFICATION Spec
CONSTANTS
    MaxAttempts = 3
    Configs <- SoundConfigs
    Recovers = TRUE
    MaxRuns = 2
    MaxFaults = 1
    MaxVMFaults = 1
    MaxCrashes = 1
INVARIANTS
    RetriesRecorded
    HostTimeoutFinal
    ResultTrue
    VMsDisposed
PROPERTIES
    ContractSpec
    TaskEnds
CHECK_DEADLOCK FALSE

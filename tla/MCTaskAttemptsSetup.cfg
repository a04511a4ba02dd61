SPECIFICATION Spec
CONSTANTS
    MaxAttempts = 3
    Configs <- LimaSetupConfigs
    Recovers = FALSE
    MaxRuns = 2
    MaxFaults = 0
    MaxVMFaults = 0
    MaxCrashes = 1
INVARIANTS
    ResultTrue
CHECK_DEADLOCK FALSE

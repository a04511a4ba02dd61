SPECIFICATION Spec
CONSTANTS
    MaxAttempts = 3
    Configs <- LimaConfigs
    Recovers = FALSE
    MaxRuns = 2
    MaxFaults = 0
    MaxVMFaults = 0
    MaxCrashes = 1
INVARIANTS
    NoRetryAfterTimeout
CHECK_DEADLOCK FALSE

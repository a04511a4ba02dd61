SPECIFICATION Spec
CONSTANTS
    Guest = TRUE
    MaxCalls = 3
    MaxFaults = 2
    MaxLosses = 1
INVARIANTS
    FailureShown
    DeduplicationNotBlocked
PROPERTIES
    CompletedIsDone
    OrderSpec
CHECK_DEADLOCK FALSE

SPECIFICATION Spec
CONSTANTS
    f1 = f1
    f2 = f2
    Findings = {f1, f2}
    None = None
    Cross <- CrossTasks
    Outcomes = {"proven", "inconclusive"}
    Parallel = 2
    MaxCalls = 2
    MaxFailures = 1
INVARIANTS
    ReportDecided
    ReportPossible
PROPERTIES
    BoardSpec
    OrderSpec
CHECK_DEADLOCK FALSE

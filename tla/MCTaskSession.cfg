SPECIFICATION Spec
CONSTANTS
    l1 = l1
    l2 = l2
    f1 = f1
    body = body
    handoff = handoff
    log = log
    Sessions <- MCSessions
    Leads = {l1, l2}
    Findings = {f1}
    Paths = {body, handoff, log}
    SetupPath = log
    HandoffPath = handoff
    None = None
    Texts <- MCTexts
    MaxPending = 2
    MaxEvents = 3
    MaxEdits = 1
INVARIANTS
    TypeOK
    CommandsObeyHost
    HandoffsReadable
CHECK_DEADLOCK FALSE

SPECIFICATION Spec
CONSTANTS
    BytesPerGiB = 2
    Configs <- MCConfigs
    Hosts <- MCHosts
    Initial = 2
    Limit = 2
    None = None
    MaxLeads = 3
    MaxCalls = 2
    MaxFaults = 1
INVARIANTS
    InvestigationsBounded
    NoLeadForgotten
    InvestigatedOnce
    ResumeNotBlocked
    TasksFitHost
PROPERTIES
    ContractSpec
    PhaseEnds
CHECK_DEADLOCK FALSE

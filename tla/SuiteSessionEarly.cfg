SPECIFICATION Spec
CONSTANTS
    dir = dir
    child = child
    stat = stat
    basic = basic
    probe = probe
    Paths <- MCPaths
    Directories <- MCDirectories
    Under <- MCUnder
    NoPath = NoPath
    CanDelete = TRUE
    CanDeleteTree = TRUE
    MaxAttempts = 2
    MaxFaults = 1
    CheckIds <- MCCheckIds
    OptionalChecks <- MCOptional
    Contracts <- MCContracts
    ForContract <- MCForContract
    AllChecks <- MCAllChecks
    ProbeChecks <- MCOptional
    NoCheck = NoCheck
    Required <- MCRequired
    EarlyFinish = TRUE
INVARIANTS
    SatisfiedMeansReclaimed
CHECK_DEADLOCK FALSE

SPECIFICATION FairSpec
CONSTANTS
    dir = dir
    child = child
    stat = stat
    basic = basic
    probe = probe
    Paths <- MCPaths
    Directories <- MCDirectories
    Under <- MCUnder
    NoPath = NoPath
    CanDelete = TRUE
    CanDeleteTree = TRUE
    MaxAttempts = 2
    MaxFaults = 1
    CheckIds <- MCCheckIds
    OptionalChecks <- MCOptional
    Contracts <- MCContracts
    ForContract <- MCForContract
    AllChecks <- MCAllChecks
    ProbeChecks <- MCOptional
    NoCheck = NoCheck
    Required <- MCRequired
    EarlyFinish = FALSE
INVARIANTS
    SatisfiedMeansEvidence
    SatisfiedMeansReclaimed
    VerdictNeverImproves
    FailedIsAttributed
    DiagnosisIsComplete
PROPERTIES
    RunEnds
CHECK_DEADLOCK FALSE

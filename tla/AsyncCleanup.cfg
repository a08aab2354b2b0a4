SPECIFICATION FairCleanupSpec
CONSTANTS
    dir = dir
    child = child
    sub = sub
    Paths <- MCPaths
    Directories <- MCDirectories
    Under <- MCUnder
    NoPath = NoPath
    CanDelete = TRUE
    CanDeleteTree = FALSE
    MaxAttempts = 5
    MaxFaults = 3
INVARIANTS
    LedgerKeepsPresent
    RetainedIsReported
    CleanAttemptReportsNothing
PROPERTIES
    CompletedMeansReclaimed
    KeepsLedger
    CleanupEventuallyCompletes
CHECK_DEADLOCK FALSE

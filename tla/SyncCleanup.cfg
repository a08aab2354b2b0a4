SPECIFICATION Spec
CONSTANTS
    dir = dir
    child = child
    sub = sub
    Paths <- MCPaths
    Directories <- MCDirectories
    Under <- MCUnder
    NoPath = NoPath
    CanDelete = TRUE
    CanDeleteTree = FALSE
    MaxAttempts = 3
    MaxFaults = 3
INVARIANTS
    NothingDropped
    CleanAttemptReportsNothing
PROPERTIES
    KeepsLedger
CHECK_DEADLOCK FALSE

CONSTANTS
    Roles <- MCRoles
    Payloads <- MCPayloads
    Temporaries <- MCTemporaries
    Checks <- MCChecks
    OptionalChecks <- MCOptional
    Outline <- MCOutline
SPECIFICATION Spec
INVARIANT TempRetained
CHECK_DEADLOCK FALSE

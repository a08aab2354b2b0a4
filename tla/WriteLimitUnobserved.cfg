CONSTANTS
    Roles <- MCRoles
    Payloads <- MCPayloads
    Temporaries <- MCTemporaries
    Checks <- MCChecks
    OptionalChecks <- MCOptional
    Outline <- MCOutline
SPECIFICATION Spec
INVARIANT OverLimitNotPublished
CHECK_DEADLOCK FALSE

CONSTANTS
    Roles <- MCRoles
    Payloads <- MCPayloads
    Temporaries <- MCTemporaries
    Checks <- MCChecks
    OptionalChecks <- MCOptional
    Outline <- MCOutline
    MaxProbeBytes = 5
    MaxProbeEntries = 3
    MaxU64 = 10
    Entries = {1, 2, 3}
    MaxExpected = 3
    WriteLimits = {0, 1, 2, 3, 4, 6, 7, 9, 11, 12, 14}
SPECIFICATION AllSpec
INVARIANTS
    CreatedIsTracked ConformingPasses OutcomeIsEarned EntryIsFinal SessionsAccounted
    ProbeIsolates EnforcedNeverFails EvidenceIsForTheLimit ListingIsJudged
    DefaultCaseFits EvidenceDistinguishes
PROPERTY CollectionEnds
CHECK_DEADLOCK FALSE

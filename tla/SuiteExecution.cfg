CONSTANTS
    CheckIds <- MCCheckIds
    OptionalChecks <- OptionalIds
    Phases <- AllContracts
    Listed <- ForContract
    Driven <- DispatchContract
    PhaseOf <- MCPhaseOf
    Synchronous <- SupportsSynchronous
    BuildsOn <- Prerequisites
    Noting <- MCNoting
SPECIFICATION Spec
INVARIANTS RegisteredIsExecuted PrerequisitesFirst
CHECK_DEADLOCK FALSE

SPECIFICATION FairSpec
INVARIANTS
    RecoveryNeverLost
    GateLiftedOnce
    ConformingPasses
    PassedMeansHonest
PROPERTIES
    CheckEnds
CHECK_DEADLOCK FALSE

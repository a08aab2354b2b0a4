CONSTANTS
    MaxBytes = 1
    MaxPuts = 2
    MaxOthers = 1
    Stages = {"Write", "Flush", "BeforePut", "AfterPutBeforeResult", "Abort"}
    MaxArms = 2
SPECIFICATION FixtureSpec
INVARIANTS ClaimIsTrue PublishedIsTrue PublishedIsAcknowledged ArrivalTellsProgress
PROPERTIES ReplacesOnlyMatch WakeupsArrive
CHECK_DEADLOCK FALSE

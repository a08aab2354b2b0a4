SPECIFICATION FairSpec
PROPERTIES
    OperationRetained
CHECK_DEADLOCK FALSE

SPECIFICATION FairSpec
CONSTANT
    Setups <- AllSetups
CHECK_DEADLOCK FALSE
INVARIANTS
    TypeOK
    DisarmSticks
    NoReadWhileArmed
    WantedSamplesPosted
PROPERTY
    CycleIsPosted

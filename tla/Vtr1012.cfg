SPECIFICATION Spec
CONSTANT
    Setups <- AllSetups
CHECK_DEADLOCK FALSE
INVARIANTS
    TypeOK
    SettingsReachCard
    DisarmSticks
    ArmedAsSet
    NoReadWhileArmed
    WholeSetPosted
    SamplesInOrder
PROPERTY
    StaysDisarmedAfterExit

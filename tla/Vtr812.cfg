SPECIFICATION FairSpec
CONSTANT
    Setups <- AllSetups
CHECK_DEADLOCK FALSE
INVARIANTS
    TypeOK
    WantedSamplesPosted
    OrderedEvenIfDmaFails
    ArmedAsSet
    NoReadWhileArmed
PROPERTIES
    OnlyVtrarmArms
    AgreedIsPosted

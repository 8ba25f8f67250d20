SPECIFICATION FairSpec
CONSTANTS
    ArraySize = 2
    NGroups = 1
    ChanLen <- OneFull
    NMultiEvent = 2
    CountCap = 2
    DmaMayFail = TRUE
    Clients = {c1, c2}
    Cb = cb
    NoOne = noone
    HasWaveforms = TRUE
    QueueSize = 2
    Values <- CycleValues
    OperatorWaits = TRUE
    MayReboot = FALSE
CHECK_DEADLOCK FALSE
INVARIANTS
    TypeOK
    NoReadWhileArmed
    CompleteSetPosted
    AtMostOneQueued
PROPERTIES
    ImplementsCycle
    SetIsPosted
    IsRestarted
    EveryPutEnds

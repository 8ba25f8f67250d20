SPECIFICATION Spec
CONSTANTS
    ArraySize = 4
    NGroups = 1
    ChanLen <- OneGroupLen
    NMultiEvent = 2
    CountCap = 2
    DmaMayFail = FALSE
    Clients = {c1}
    Cb = cb
    NoOne = noone
    HasWaveforms = FALSE
    QueueSize = 1
    Values <- AnyValues
    OperatorWaits = FALSE
    MayReboot = TRUE
CHECK_DEADLOCK FALSE
INVARIANTS
    DisarmSticks
    SettingsMatchCard
    NoLostCompletion
    ArmAgrees

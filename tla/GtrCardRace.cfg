SPECIFICATION Spec
CONSTANTS
    ArraySize = 4
    NGroups = 2
    ChanLen <- MCChanLen
    NMultiEvent = 2
    CountCap = 2
    DmaMayFail = FALSE
    Clients = {c1}
    Cb = cb
    NoOne = noone
    HasWaveforms = TRUE
    QueueSize = 2
    Values <- OperatorValues
    OperatorWaits = FALSE
    MayReboot = FALSE
CHECK_DEADLOCK FALSE
INVARIANT
    NoLiveDataPosted

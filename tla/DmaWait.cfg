SPECIFICATION FairSpec
CONSTANTS
    Ids = {d1, d2, d3}
    NoId = noid
    Kinds = {"wait"}
CHECK_DEADLOCK FALSE
INVARIANTS
    TypeOK
    ResultHasOwner
    WaitsForTransfer
PROPERTIES
    ImplementsService
    EveryCallReturns

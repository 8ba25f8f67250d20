SPECIFICATION Spec
CONSTANT
    Setups <- AllSetups
INVARIANTS
    TypeOK
    DriverWritesFit
    EachShowsTheScan

SPECIFICATION Spec
CONSTANT
    Setups <- PrePostSetups
CHECK_DEADLOCK FALSE
INVARIANT
    NewestIsLast

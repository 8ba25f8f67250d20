SPECIFICATION FairSpec
CONSTANT
    Setups <- OnlyTwoEvents
CHECK_DEADLOCK FALSE
PROPERTY
    StoppedIsPosted

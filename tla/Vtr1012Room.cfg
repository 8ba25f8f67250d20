SPECIFICATION Spec
CONSTANT
    Setups <- RoomSetups
CHECK_DEADLOCK FALSE
INVARIANT
    RoomKept

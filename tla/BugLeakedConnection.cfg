SPECIFICATION WSSpec
CONSTANTS
    Base = 1
    MaxDelay = 2
    MaxFails = 1
    MaxCalls = 1
INVARIANTS
    DisconnectedIsClosed
CHECK_DEADLOCK FALSE

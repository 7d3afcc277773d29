SPECIFICATION Spec
CONSTANTS
    Base = 2
    MaxDelay = 3
    MaxFails = 2
    MaxCalls = 1
    Tasks = {t1}
    Pollers = {p1, p2}
    Unknown = Unknown
    Last = 1
INVARIANTS
    Backoff
    QuietIsClosed
PROPERTIES
    ComesBack
    DisconnectEnds
    PollingCatchesUp
    CloseQuiets
CHECK_DEADLOCK FALSE

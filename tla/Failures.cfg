SPECIFICATION FairSpec
CONSTANTS
    None = None
    Tasks = {t1}
    Requests = {r1, r2}
    UnknownEvents = {}
    Config <- Inquiry
    Client = "any"
    MayFail = TRUE
    MaxRestarts = 1
INVARIANTS
    TypeOK
    PendingIsPublished
    ReplayRefused
    InputsKept
    GateNeedsDecision
    NobodyCompletesAlone
PROPERTIES
    EveryCallAnswered
CHECK_DEADLOCK FALSE

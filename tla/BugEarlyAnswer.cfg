SPECIFICATION Spec
CONSTANTS
    None = None
    Tasks = {t1}
    Requests = {r1}
    UnknownEvents = {}
    Config <- Inquiry
    Client = "push"
    MayFail = FALSE
    MaxRestarts = 0
INVARIANTS
    PendingOnlyWhenAwaiting
CHECK_DEADLOCK FALSE

SPECIFICATION AdapterSpec
CONSTANTS
    None = None
    Tasks = {t1}
    Requests = {r1, r2}
    UnknownEvents = {}
    Config <- PurchaseRequest
    Client = "any"
    MayFail = FALSE
    MaxRestarts = 0
    Waits = FALSE
INVARIANTS
    ExactlyOnce
CHECK_DEADLOCK FALSE

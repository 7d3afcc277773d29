SPECIFICATION ServedSpec
CONSTANTS
    None = None
    Tasks = {t1, t2}
    Requests = {r1, r2, r3, r4}
    UnknownEvents = {}
    Config <- PurchaseRequest
    Client = "careful"
    MayFail = FALSE
    MaxRestarts = 0
INVARIANTS
    RowMatchesThread
    PendingOnlyWhenAwaiting
    OfferIsOpen
    DecisionHonoured
PROPERTIES
    TasksEnd
    KeepsPromise
CHECK_DEADLOCK FALSE

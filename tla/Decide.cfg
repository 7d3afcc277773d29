SPECIFICATION FairAdapter
CONSTANTS
    None = None
    Tasks = {t1}
    Requests = {r1, r2, r3}
    UnknownEvents = {}
    Config <- PurchaseRequest
    Client = "any"
    MayFail = TRUE
    MaxRestarts = 1
    Waits = TRUE
INVARIANTS
    AnswersItsQuestion
    OneWriter
PROPERTIES
    DecisionsGetThrough
CHECK_DEADLOCK FALSE

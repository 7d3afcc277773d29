SPECIFICATION Spec
CONSTANTS
    None = None
    Tasks = {t1}
    Requests = {r1, r2, r3}
    UnknownEvents = {}
    Config <- TodoWorkflow
    Client = "careful"
    MayFail = FALSE
    MaxRestarts = 0
INVARIANTS
    DecisionHonoured
CHECK_DEADLOCK FALSE

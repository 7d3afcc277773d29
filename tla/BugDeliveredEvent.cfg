SPECIFICATION Spec
CONSTANTS
    Messages = {m1}
    Readers = {s1}
    Connections = {}
    MayFail = FALSE
    MaxRestarts = 0
INVARIANTS
    DeliveredIsAnswerable
CHECK_DEADLOCK FALSE

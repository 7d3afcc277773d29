SPECIFICATION FairSpec
CONSTANTS
    Messages = {m1, m2}
    Readers = {s1}
    Connections = {c1, c2}
    MayFail = TRUE
    MaxRestarts = 1
INVARIANTS
    ListenersAreOpen
    NoGap
PROPERTIES
    ReadersOnceInOrder
    GoneArePurged
    ReadersCatchUp
CHECK_DEADLOCK FALSE

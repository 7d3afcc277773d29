SPECIFICATION Spec
CONSTANTS
    Names = {1, 2}
    Versions = {"v1", "v2"}
    First = "v1"
    c1 = c1
    c2 = c2
    Configs = {c1, c2}
    NoConfig = NoConfig
    Tasks = {t1, t2}
    Shipped <- OneFile
    Overwritten = {}
    PageSizes = {1, 2, 3}
    MaxRestarts = 2
SYMMETRY Symmetry
INVARIANTS
    TypeOK
    OneActive
    OneConfig
    PagesComplete
PROPERTIES
    StaysAvailable
CHECK_DEADLOCK FALSE

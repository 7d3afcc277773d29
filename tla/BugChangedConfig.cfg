SPECIFICATION Spec
CONSTANTS
    Names = {2}
    Versions = {"v1", "v2"}
    First = "v1"
    c1 = c1
    c2 = c2
    Configs = {c1, c2}
    NoConfig = NoConfig
    Tasks = {t1}
    Shipped <- OneFile
    Overwritten = {"file"}
    PageSizes = {1, 2, 3}
    MaxRestarts = 1
INVARIANTS
    OneConfig
CHECK_DEADLOCK FALSE

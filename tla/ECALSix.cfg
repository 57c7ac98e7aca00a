\* Six nodes: two pages per row by getDataPos.
SPECIFICATION Spec
CONSTANTS
    K = 2
    P = 1
    ClusterSize = 6
    Clients = {2}
    Rows = 3
    Pages = {4, 5}
    Values = {v1, v2}
    Junk = Junk
    None = None
    MaxCrashes = 0
    Restarts = {}
PROPERTIES
    StoreSpec
CHECK_DEADLOCK FALSE

\* One client of the cluster of cluster.conf; two crashes, servers restart.
SPECIFICATION Spec
CONSTANTS
    K = 2
    P = 1
    ClusterSize = 3
    Clients = {2}
    Rows = 4
    Pages = {2, 3}
    Values = {v1, v2}
    Junk = Junk
    None = None
    MaxCrashes = 2
    Restarts = {0}
INVARIANTS
    TypeOK
    StripesAgree
PROPERTIES
    StoreSpec
CHECK_DEADLOCK FALSE

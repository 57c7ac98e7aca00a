\* A server restarts with RECOVER beside a client that uses page 0.
SPECIFICATION Spec
CONSTANTS
    K = 2
    P = 1
    ClusterSize = 3
    Clients = {2}
    Rows = 3
    Pages = {0}
    Values = {v1, v2}
    Junk = Junk
    None = None
    MaxCrashes = 1
    Restarts = {0, 1}
PROPERTIES
    StoreSpec
CHECK_DEADLOCK FALSE

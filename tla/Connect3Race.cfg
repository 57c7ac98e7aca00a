\* Three nodes: the poll for one MR takes the receive of another connection.
SPECIFICATION Spec
CONSTANTS
    ClusterSize = 3
    Restartable = {}
    InOrder = TRUE
    Spurious = {"first"}
    Uninit = {"exit", "garbage"}
    NoEnd = NoEnd
INVARIANTS
    NobodyDied
CHECK_DEADLOCK FALSE

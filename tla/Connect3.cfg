\* Three nodes, as in cluster.conf, started in order of their ids; node 2 may
\* end and start with RECOVER beside the others.
SPECIFICATION FairSpec
CONSTANTS
    ClusterSize = 3
    Restartable = {2}
    InOrder = TRUE
    Spurious = {"recover"}
    Uninit = {"exit", "garbage"}
    NoEnd = NoEnd
INVARIANTS
    TypeOK
    ReadyMeansConnected
    SendCQLag
    RestartedStaysDead
    ReceivesAllIn
PROPERTIES
    EveryoneComesUp
CHECK_DEADLOCK FALSE

\* One thread, and a send CQ with the lag that start-up leaves on three nodes.
SPECIFICATION FairSpec
CONSTANTS
    Threads = {t1}
    Peers = {0, 1}
    Regions = {r1, r2}
    Data = {d1, d2}
    StaleCQEs = 2
INVARIANTS
    OwnCompletion

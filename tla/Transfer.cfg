\* Two threads, one region per connection, and the lag of a three node cluster.
SPECIFICATION FairSpec
CONSTANTS
    Threads = {t1, t2}
    Peers = {0, 1}
    Regions = {r1}
    Data = {d1}
    StaleCQEs = 2
INVARIANTS
    TypeOK
    CQBalance
PROPERTIES
    CallsFinish

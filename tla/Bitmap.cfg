\* Three threads share two regions: safety, progress and the refinement of the pool.
SPECIFICATION FairSpec
CONSTANTS
    Threads = {t1, t2, t3}
    NBits = 2
    None = None
INVARIANTS
    TypeOK
    Exclusive
    Conservation
PROPERTIES
    PoolSpec
    SomeoneServed

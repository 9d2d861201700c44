SPECIFICATION FairSpec
CONSTANTS
    Calls = {c1}
    LastBatch = 2
    Concurrency = 1
    MaxRetries = 2
    MaxTries = 3
    PoolSize = 3
    MaxLoads = 2
INVARIANTS
    LoadedOnce
    LocksMatchWork
    ThreadsAreBounded
PROPERTY CallsSettle
CHECK_DEADLOCK FALSE

SPECIFICATION Spec
CONSTANTS
    Calls = {c1}
    LastBatch = 2
    Concurrency = 2
    MaxRetries = 2
    MaxTries = 2
    PoolSize = 2
    MaxLoads = 2
INVARIANT PermanentIsFinal
CHECK_DEADLOCK FALSE

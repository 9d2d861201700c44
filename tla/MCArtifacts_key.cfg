SPECIFICATION Spec
CONSTANTS
    Docs = {d1}
    Runs = {r1}
    LastArtifact = 3
    RestartStages = {2, 3}
    MaxRequests = 0
    Backends = {"local"}
    Initial <- FirstConfig
    Upgrades <- OneUpgrade
INVARIANT CacheHoldsItsKey
CHECK_DEADLOCK FALSE

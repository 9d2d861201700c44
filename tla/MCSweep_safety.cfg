SPECIFICATION SweptSpec
CONSTANTS
    Docs = {d1}
    NoDoc = NoDoc
    MaxJobs = 2
    LastStage = 2
    MaxTries = 1
    WorkerSlots = 2
    Requests = {r1}
    MaxReprocess = 0
INVARIANTS
    UnsettledHasActiveJob
    OneActiveJob
CHECK_DEADLOCK FALSE

SPECIFICATION UploadSpec
CONSTANTS
    Docs = {d1}
    NoDoc = NoDoc
    MaxJobs = 3
    LastStage = 3
    MaxTries = 2
    WorkerSlots = 2
    Requests = {r1, r2}
    MaxReprocess = 0
SYMMETRY RequestSymmetry
INVARIANTS
    StageChain
    StatusAgrees
    IndexedIsSearchable
    OneStageAtATime
PROPERTIES
    ImplementsLifecycle
CHECK_DEADLOCK FALSE

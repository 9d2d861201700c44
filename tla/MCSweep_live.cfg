SPECIFICATION FairSweptSpec
CONSTANTS
    Docs = {d1}
    NoDoc = NoDoc
    MaxJobs = 2
    LastStage = 2
    MaxTries = 1
    WorkerSlots = 1
    Requests = {r1}
    MaxReprocess = 0
PROPERTIES
    StrandedJobsRecover
    Settles
CHECK_DEADLOCK FALSE

SPECIFICATION PolledSpec
CONSTANTS
    Docs = {d1}
    NoDoc = NoDoc
    MaxJobs = 3
    LastStage = 2
    MaxTries = 1
    WorkerSlots = 2
    Requests = {r1}
    MaxReprocess = 1
INVARIANTS
    TypeOK
    DocumentHasJob
    DoneHasSuccessor
    ReadsStayTrue
    PollIsCoherent
PROPERTIES
    TerminalJobsStay
CHECK_DEADLOCK FALSE

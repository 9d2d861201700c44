SPECIFICATION Spec
CONSTANTS
    Docs = {d1, d2}
    Runs = {r1, r2}
    LastArtifact = 3
    RestartStages = {2, 3}
    MaxRequests = 1
    Backends = {"local", "s3"}
    Initial <- FirstConfig
    Upgrades <- OneUpgrade
SYMMETRY Symmetry
INVARIANTS
    TornNeedsTwoWriters
    InputsAreFound
    KeysNameTheirContent
CHECK_DEADLOCK FALSE

SPECIFICATION FairSpec
CONSTANTS
    Backends = {"local", "s3"}
    Uploads = {u1, u2}
    Keys = {k1, k2}
    MaxDeletes = 1
INVARIANTS
    TypeOK
    WrittenSourceStays
    LocalCleansUp
PROPERTY OrphansAreSwept
CHECK_DEADLOCK FALSE

SPECIFICATION FairSpec
CONSTANTS
    Starts = {s1, s2, s3}
    MaxConnections = 1
INVARIANTS
    NoOrphan
    RestartFindsPortFree
PROPERTIES
    ImplementsContract
    ServersGoDown
CHECK_DEADLOCK FALSE

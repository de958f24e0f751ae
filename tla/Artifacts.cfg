SPECIFICATION Spec
CONSTANTS
    p1 = p1
    p2 = p2
    Worker = p1
    Neighbours = {p2}
    Versions = {"v1", "v2"}
    Names = {"n1"}
    CacheLimit = 1
    FaultKinds = {"copy", "download", "content", "extract", "remove", "rename", "launch", "store", "crash", "admin"}
    MaxFaults = 1
INVARIANTS
    VerifiedContent
    PayloadNeverLost
PROPERTIES
    FailedInstallRestores
    ForeignSpared
CHECK_DEADLOCK FALSE

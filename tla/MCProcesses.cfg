SPECIFICATION Spec
CONSTANTS
    Pids <- MCPids
    Paths <- MCPaths
    Beginnings <- MCBeginnings
    Gone = Gone
    NoProc = NoProc
    MaxPids = 1
    MaxTries = 3
    MaxBirths = 1
    MaxRefs = 2
    MaxCreds = 2
    MaxFailures = 1
CHECK_DEADLOCK FALSE
INVARIANTS
    ReferencesOwned
    TakenAccounted
PROPERTIES
    PathRight

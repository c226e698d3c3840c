SPECIFICATION Spec
CONSTANTS
    Arch = "x86_64"
    Blocks = {b1, b2, b3}
    None = None
    Original = Original
    Requests <- SomeRequests
    Signals = {"INT", "TERM"}
    MaxRuns = 2
SYMMETRY BlockSymmetry
CHECK_DEADLOCK FALSE
INVARIANTS
    SyscallStable
    CleanExit
    FreedOnce
    DependenciesUp
    RequestMet
PROPERTIES
    Terminates

CONSTANTS
    Blocks = {b1, b2, b3}
    NoData = NoData
    Growth = 4
    MaxErrors = 6
    MaxStops = 2
SPECIFICATION ErrorStackSpec
SYMMETRY BlockSymmetry
INVARIANTS
    RoomForOne
    DataOwnedOnce
CHECK_DEADLOCK FALSE

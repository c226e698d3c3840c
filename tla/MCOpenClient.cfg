SPECIFICATION FairSpec
CONSTANTS
    Ids = {c1, c2, c3, c4}
    None = None
    Tries = 3
CHECK_DEADLOCK FALSE
INVARIANTS
    RightClient
    NoClientLeft
PROPERTIES
    Returns

SPECIFICATION LibrarySpec
CONSTANTS
    Arch = "arm64"
    Blocks = {b1, b2, b3, b4}
    None = None
    Original = Original
SYMMETRY BlockSymmetry
INVARIANTS
    NoLeak

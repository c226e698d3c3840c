\* As in MCMemoryCommands.cfg; rb is read in two chunks.
CONSTANTS
    PageSize = 4
    Pages = 3
    Word = 2
    Ordinary = Ordinary
    Line = 4
    Instruction = 2
    Nuls = {9}
    UserAccesses = {0}
    Starts = {0}
    Ends = {11}
    PageTypes <- MCPageTypes
    Accesses <- MCAccesses
    Spans <- MCSpans
SPECIFICATION Spec
INVARIANTS
    BinaryInOrder
CHECK_DEADLOCK FALSE

\* A memory of three pages of four bytes, words of two; f with every width and
\* alignment, the other commands from an aligned and an unaligned address.
CONSTANTS
    PageSize = 4
    Pages = 3
    Word = 2
    Ordinary = Ordinary
    Line = 4
    Instruction = 2
    Nuls = {9}
    UserAccesses = {0, 1}
    Starts = {0, 3}
    Ends = {11}
    PageTypes <- MCPageTypes
    Accesses <- MCAccesses
    Spans <- MCSpans
SPECIFICATION Spec
INVARIANTS
    SafeTransfer
    FindExact
    OutputFaithful
PROPERTY Returns
CHECK_DEADLOCK FALSE

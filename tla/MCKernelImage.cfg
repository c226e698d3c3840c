SPECIFICATION SlideSpec
CONSTANTS
    Arrays <- SortedArrays
    Keys <- SearchedKeys
    Images <- KernelImages
    Requests <- Asked
    Environments <- RunningKernels
    MaxSymbols = 4
    page_size = 2
    slide_increment = 4
    max_slide = 12
    LastSymbol = 9
    MaxInits = 2
CHECK_DEADLOCK FALSE
INVARIANTS
    Correct
    NamesOwned
    SlideTrue
    ProbesSafe
PROPERTIES
    Halves
    Implements

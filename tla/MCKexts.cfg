SPECIFICATION Spec
CONSTANTS
    Builds <- MCBuilds
    Ids <- MCIds
    Loads <- MCLoads
    NotLoaded = NotLoaded
    Slots = {s1, s2, s3}
    Unused = Unused
    Wild = Wild
    NoKext = NoKext
    Slides <- MCSlides
    MaxHeld = 2
    Size = 2
    Addresses <- MCAddresses
SYMMETRY MCSymmetry
CHECK_DEADLOCK FALSE
INVARIANTS
    Balanced
    Sorted
    Answered
    FindersReady
    FoundRight
PROPERTIES
    HeldStable

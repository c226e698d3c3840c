SPECIFICATION Spec
CONSTANTS
    Characters <- const_Characters
    Lines <- const_Lines
    WordBits = 7
INVARIANTS
    HandlerReady
    NothingIgnored
    NothingHeld
    OnlyAsAsked
    CallsReady
PROPERTIES
    ParserProgresses

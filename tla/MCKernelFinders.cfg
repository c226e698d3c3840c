SPECIFICATION FindersSpec
CONSTANTS
    XBITS = 16
    GPREGS = 5
    Weak <- NoTaints
    taint_default <- ksim_taints
    Code <- AddressesOfCode
    Instructions <- InstructionsAt
    TEMPREGS_END = 2
    Junk = 43690
    X0 = 0
    X1 = 1
    X3 = 2
    FirstCode = 16
    Functions <- FunctionsAt
    CStrings <- StringsAt
    mod_init_func <- Initializers
    Vtables <- VtablesFound
    Data <- DataAt
    Text <- TextAt
    STORE_ADDR = 61440
    Callbacks <- CallbacksAt
    MaxInstructions = 5
    MaxClasses = 2
INVARIANT SimulationTrue
CHECK_DEADLOCK FALSE

CONSTANTS
    Request = {r1, r2}
    MaxSignals = 2
SPECIFICATION FairSpec
INVARIANTS
    TypeOK
    
    PanicOnlyUnsignalled
PROPERTIES
    SignalEndsServer
CHECK_DEADLOCK FALSE

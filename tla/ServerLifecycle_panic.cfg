CONSTANTS
    Request = {r1, r2}
    MaxSignals = 2
SPECIFICATION Spec
INVARIANTS
    NeverPanics
CHECK_DEADLOCK FALSE

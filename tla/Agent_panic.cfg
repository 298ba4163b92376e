CONSTANTS
    MaxWorkers = 1
    MaxReports = 2
SPECIFICATION Spec
INVARIANT NoPanic
CHECK_DEADLOCK FALSE

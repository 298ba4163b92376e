CONSTANTS
    Retries = 1
    Senders = 2
    MaxPolls = 2
    MaxReports = 2
SPECIFICATION FairSpec
INVARIANTS
    TypeOK
    CounterInBounds
    NoOvertaking
PROPERTIES
    SendBatchReturns
CHECK_DEADLOCK FALSE

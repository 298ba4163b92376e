CONSTANTS
    MaxWorkers = 2
    MaxReports = 4
SPECIFICATION FairSpec
INVARIANTS
    TypeOK
    EachReportOnce
    NoPanicWhileRunning
    QuietAfterShutdown
PROPERTIES
    QueuedReportIsSent
    ShutdownEnds
CHECK_DEADLOCK FALSE

CONSTANTS
    w1 = w1
    w2 = w2
    w3 = w3
    a = a
    fin = fin
    nan = nan
    Missing = Missing
    Ticker = Ticker
    Stopper = Stopper
    NoInode = NoInode
    Id = {a}
    Value = {fin, nan}
    NonFinite = {nan}
    Half = 2
    Writer = {w1, w2}
    SyncWrite = FALSE
    Restore = TRUE
    StopTimesOut = FALSE
    LateWriters = FALSE
    CanCrash = TRUE
    Delta <- MCDelta
    Batch <- MCBatch
    Inode <- MCInode
    MaxUpdates = 3
    MaxFaults = 1
SPECIFICATION FairSpec
INVARIANTS
    TypeOK
    MainIntact
PROPERTIES
    MainNeverOlder
    CleanRestart
    DurableSpec
    StopCompletes
    PeriodicSaveReachesDisk

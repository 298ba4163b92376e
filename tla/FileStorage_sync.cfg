CONSTANTS
    w1 = w1
    w2 = w2
    w3 = w3
    a = a
    fin = fin
    nan = nan
    Missing = Missing
    Ticker = Ticker
    Stopper = Stopper
    NoInode = NoInode
    Id = {a}
    Value = {fin}
    NonFinite = {}
    Half = 2
    Writer = {w1, w2, w3}
    SyncWrite = TRUE
    Restore = TRUE
    StopTimesOut = FALSE
    LateWriters = FALSE
    CanCrash = FALSE
    Delta <- MCDelta
    Batch <- MCBatch
    Inode <- MCInode
    MaxUpdates = 3
    MaxFaults = 1
SPECIFICATION Spec
INVARIANTS
    SettledFileDecodes
    FileIsSnapshot
PROPERTIES
    AloneUpdateOnDisk

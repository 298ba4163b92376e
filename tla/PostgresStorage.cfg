CONSTANTS
    a = a
    b = b
    fin = fin
    c1 = c1
    c2 = c2
    c3 = c3
    Missing = Missing
    Id = {a, b}
    Value = {fin}
    NonFinite = {}
    Half = 3
    Caller = {c1, c2, c3}
    Retries = 1
    MaxConns = 2
    MaxFaults = 2
    Op <- MCOp
SPECIFICATION FairSpec
INVARIANTS
    TypeOK
    TableIsWholeCalls
    CountedOnceUnlessLost
    ListIsOfOneMoment
    NoConnLeak
PROPERTIES
    CallReturns
CHECK_DEADLOCK FALSE

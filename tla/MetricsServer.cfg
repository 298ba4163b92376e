CONSTANTS
    a = a
    fin = fin
    nan = nan
    file = file
    NoId = NoId
    Malformed = Malformed
    Missing = Missing
    Id = {a}
    Value = {fin, nan}
    NonFinite = {nan}
    Half = 4
    Input <- MCInput
    Observer = {file}
    MaxRequests = 3
SPECIFICATION FairSpec
INVARIANTS
    TypeOK
    CounterIsSum
    CounterReplyIsFresh
    OkMeansApplied
    AuditIsTrue
PROPERTIES
    AcceptedIsAudited
CHECK_DEADLOCK FALSE

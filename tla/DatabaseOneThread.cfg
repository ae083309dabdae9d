CONSTANTS
    Names <- MCNames
    Keys <- MCKeys
    PC1 = PC1
    BadRow = BadRow
    NoCall = NoCall
    NoWorker = NoWorker
    Workers = {w1}
    Statements <- AllStatements
    MaxCalls = 3
    LinkMayFail = TRUE
    MayGarble = TRUE
SPECIFICATION MCSpec
INVARIANTS
    AckedRecordsDurable
    FailureMeansOutage
    JoinComplete
PROPERTIES
    Atomic

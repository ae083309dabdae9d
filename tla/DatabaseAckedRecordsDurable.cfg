CONSTANTS
    Names <- MCNames
    Keys <- MCKeys
    PC1 = PC1
    BadRow = BadRow
    NoCall = NoCall
    NoWorker = NoWorker
    Workers = {w1, w2}
    Statements <- RouteStatements
    MaxCalls = 2
    LinkMayFail = FALSE
    MayGarble = FALSE
SPECIFICATION MCSpec
INVARIANTS
    AckedRecordsDurable

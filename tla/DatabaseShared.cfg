CONSTANTS
    Names <- MCNames
    Keys <- MCKeys
    PC1 = PC1
    BadRow = BadRow
    NoCall = NoCall
    NoWorker = NoWorker
    Workers = {w1, w2}
    Statements <- RouteStatements
    MaxCalls = 3
    LinkMayFail = TRUE
    MayGarble = TRUE
SPECIFICATION MCFairSpec
INVARIANTS
    QuietMeansClean
PROPERTIES
    EveryCallReturns

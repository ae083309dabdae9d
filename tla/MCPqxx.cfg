CONSTANTS
    MaxTops = 2
    Sub = sub
    None = None
    MaxWork = 2
    Kinds = {"transaction", "robusttransaction", "nontransaction"}
    MaxAttempts = 2
    Careful = TRUE
    MaxQueries = 4
    MaxRows = 3
    Iterators = {1, 2}
    MaxReqpos = 6
    MaxStep = 2
SPECIFICATION MCSpec
INVARIANTS
    CommitKeepsAll
    AbortLeavesNothing
    ConnectionReusable
    ResultsOfTheirQueries
    EffectsOnce
    PositionsTrue
    RetrievesRange
    IteratorsSeeTheirRows
CHECK_DEADLOCK FALSE

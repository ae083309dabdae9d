CONSTANTS
    MaxTops = 1
    Sub = sub
    None = None
    MaxWork = 1
    Kinds = {"robusttransaction"}
    MaxAttempts = 2
    Careful = TRUE
    MaxQueries = 1
    MaxRows = 0
    Iterators = {}
    MaxReqpos = 0
    MaxStep = 2
SPECIFICATION MCSpec
INVARIANT CommitCertain
CHECK_DEADLOCK FALSE

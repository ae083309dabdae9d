CONSTANTS
    Threads = {t1, t2}
    Requests <- AllRequests
    NoRequest = NoRequest
    MaxRequests = 2
SPECIFICATION MCFairSpec
INVARIANTS
    HandlersHaveDb
    ApiRequestsCountedOnce
    OutcomesCounted
PROPERTIES
    EveryRequestAnswered

CONSTANTS
    Threads = {t1, t2}
    Requests <- HistoryRequests
    NoRequest = NoRequest
    MaxRequests = 1
SPECIFICATION MCSpec
INVARIANTS
    StatusLabelTrue

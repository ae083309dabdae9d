CONSTANTS
    Threads = {t1, t2}
    HttpLabels = {ok200}
    PreLabels = {ok200}
    Users = {unknown}
    OtherLabels = {}
    NoLabels = NoLabels
    NoThread = NoThread
    NoMetric = NoMetric
    MaxCalls = 2
    MaxScrapes = 1
SPECIFICATION MCFairSpec
INVARIANTS
    ReturnedCallsCounted
    ScrapeConsistent
PROPERTIES
    ScrapesMonotone
    EveryCallReturns

CONSTANTS
    Threads = {t1, t2}
    Levels = {0, 3}
    NoThread = NoThread
    MaxCalls = 1
    MaxTime = 1
    MaxSettings = 1
SPECIFICATION MCFairSpec
INVARIANTS
    OnlyPushesRace
    OutputsAgree
PROPERTIES
    SlowLokiDelaysNoWriter
    EveryLogCallReturns

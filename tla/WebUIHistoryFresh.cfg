CONSTANTS
    MaxClicks = 3
    MaxHasty = 3
    MaxFaults = 0
SPECIFICATION MCSpec
INVARIANTS
    HistoryFresh

CONSTANTS
    MaxClicks = 3
    MaxHasty = 2
    MaxFaults = 1
SPECIFICATION MCSpec
INVARIANTS
    ReportsTrue
    HistoryFreshIfPatient
PROPERTIES
    ComesToRest

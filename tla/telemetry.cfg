SPECIFICATION Spec
CONSTANTS
    none = none
    Readings <- MCReadings
    HostStaleAfter = 1
    EdgeStaleAfter = 1
    SampleEvery = 1
    PruneEvery = 2
    Retention = 3
    Window = 2
    None = none
INVARIANTS
    RowsKept
    FlatShows
PROPERTY WorseIsNotBetter

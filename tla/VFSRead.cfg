SPECIFICATION Spec
CONSTANTS
    MaxPage = 2
    MaxTXID = 3
    CacheSize = 1
    MaxWrites = 1
    MaxTravels = 1
INVARIANTS
    TypeOK
    CacheAgrees
    NotOlderThanLevel1
    HistoricalIsExact
PROPERTY
    Isolation
CHECK_DEADLOCK FALSE

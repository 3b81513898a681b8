SPECIFICATION SpecLoad
CONSTANTS
    Callers = {c1, c2}
    Limit = 1
    Jobs = {j1, j2, j3}
    MaxEntries = 2
    None = None
INVARIANTS
    SlotsAreAccounted
    ConnectionsWithinLimit
    CacheIsIndexed
    FailuresAreNotKept
PROPERTIES
    LoadsReturn

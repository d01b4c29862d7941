SPECIFICATION Spec
CONSTANTS
    s1 = s1
    s2 = s2
    c1 = c1
    c2 = c2
    u1 = u1
    u2 = u2
    Empty = Empty
    Blob <- MCBlob
    Chains <- MCChains
    BaseIndex = 1
    CommitEvery = 2
    CacheLimit = 2
    MaxHeight = 3
    MaxCrashes = 1
INVARIANTS MigrationExact EventsExact DustExact SidecarsExact
PROPERTIES DustRowsStay EventsGoThrough
CHECK_DEADLOCK FALSE

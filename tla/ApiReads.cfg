\* Requests over every commit and crash; the invariants of BlockCommit with them.
SPECIFICATION ReadSpec
CONSTANTS
    Hash = {t1}
    Addr = {a1}
    Owner = {o1}
    State = {s1}
    Failed = Failed
    MaxHeight = 2
    MaxTxs = 3
    MaxCrashes = 1
    Count = 1
    From = {1}
INVARIANTS PointersExact TipComplete BlobsWrittenOnce StateServed ListsServed PagesExact
CHECK_DEADLOCK FALSE

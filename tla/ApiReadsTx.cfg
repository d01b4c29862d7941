SPECIFICATION ReadSpec
CONSTANTS
    Hash = {t1}
    Addr = {a1}
    Owner = {o1}
    State = {s1}
    Failed = Failed
    MaxHeight = 2
    MaxTxs = 3
    MaxCrashes = 1
    Count = 1
    From = {1}
INVARIANT TxHasBlock
CHECK_DEADLOCK FALSE

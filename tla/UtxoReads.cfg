SPECIFICATION ReadSpec
CONSTANTS
    a1 = a1
    a2 = a2
    u1 = u1
    u2 = u2
    u3 = u3
    Utxo = {u1, u2, u3}
    Account = {a1, a2}
    Values = {2}
    Width = 3
    MaxTxs = 3
    MaxCrashes = 1
    MaxByte = 2
    OwnerBytes <- MCOwnerBytes
    TokenBytes <- MCTokenBytes
    UtxoBytes <- MCUtxoBytes
    Orders = {"asc", "desc"}
    Count = 1
INVARIANTS UnspentExact BalancesExact HistoryExact BailsOnlyPastSigned PagesOfUnspent
CHECK_DEADLOCK FALSE

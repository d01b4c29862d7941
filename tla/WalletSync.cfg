SPECIFICATION Spec
CONSTANTS
    c1 = c1
    c2 = c2
    k1 = k1
    k2 = k2
    Client = {c1, c2}
    Key = {k1, k2}
    KeyOf <- MCKeyOf
    Asks <- MCAsks
    Txs <- MCTxs
    Events <- MCEvents
    MaxHeight = 2
    Retention = 1
    ScanBatch = 2
    Count = 1
INVARIANTS WalksWhole SyncExact SyncServed FeedExact DustComplete
PROPERTIES BlocksIndexed

SPECIFICATION LegacySpec
CONSTANTS
    Key = {k1, k2, k3}
    NoKey = NoKey
    MaxHeight = 5
    Retentions = {1, 3}
    MaxCrashes = 2
INVARIANTS NoUnderflow RootedIsWhole
PROPERTIES RepairOnlyRaises
CHECK_DEADLOCK FALSE

SPECIFICATION Spec
CONSTANTS
    Key = {k1, k2, k3}
    NoKey = NoKey
    MaxHeight = 5
    Retentions = {2}
    MaxCrashes = 3
INVARIANTS NeverStranded StoredWindowLoadable StoredWindowExact OrphanRootsBounded
PROPERTIES IndexingCompletes
CHECK_DEADLOCK FALSE

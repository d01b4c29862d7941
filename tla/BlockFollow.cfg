SPECIFICATION Spec
CONSTANTS
    MaxHeight = 6
    Margin = 2
    Chunk = 2
    BufferSize = 2
    ForkBase = 1
    MaxCrashes = 1
    MaxDeaths = 1
INVARIANTS BufferContinuesIndex NoStaleAuthor
PROPERTIES FollowsChain
CHECK_DEADLOCK FALSE

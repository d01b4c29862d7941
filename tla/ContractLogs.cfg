\* What a comment says of the decoder of contract logs, over Replay's chains.
SPECIFICATION Spec
CONSTANTS
    Chains <- MCChains
    Limit = 3
    Bump = 2
    Contracts = {"c1", "c2"}
    Opaque = {2}
    MaxCrashes = 0
INVARIANT FinalFieldDecodes
CHECK_DEADLOCK FALSE

\* Start-up, replay and restarts over every chain of MCChains.
SPECIFICATION Spec
CONSTANTS
    Chains <- MCChains
    Limit = 3
    Bump = 2
    Contracts = {"c1", "c2"}
    Opaque = {2}
    MaxCrashes = 2
INVARIANTS StopsAtUpgradesOnly ReplayExact IndexExact LogsSound
PROPERTIES ReplayCompletes
CHECK_DEADLOCK FALSE

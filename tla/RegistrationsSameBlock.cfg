SPECIFICATION Spec
CONSTANTS
    DustAddress = {d1, d2}
    NightUtxo = {n1}
    MaxHeight = 3
    MaxEvents = 2
INVARIANTS ReRegistrationRecorded
CHECK_DEADLOCK FALSE

SPECIFICATION Spec
CONSTANTS
    ParkLimit = 2
    LaunchLimit = 2
    MaxDefers = 1
    MaxTroubles = 2
    Happens = {"call", "taint"}
INVARIANT NoIllegalTransition
CHECK_DEADLOCK FALSE

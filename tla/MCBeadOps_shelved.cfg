SPECIFICATION Spec
CONSTANTS
    ParkLimit = 2
    LaunchLimit = 2
    MaxDefers = 1
    MaxTroubles = 2
    Happens = {"edit", "fault"}
PROPERTY ShelvedIsCommitted
CHECK_DEADLOCK FALSE

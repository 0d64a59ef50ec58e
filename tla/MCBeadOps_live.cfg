SPECIFICATION FairSpec
CONSTANTS
    ParkLimit = 1
    LaunchLimit = 2
    MaxDefers = 1
    MaxTroubles = 3
    Happens = {"crash", "fault", "call", "limit"}
PROPERTIES BeadsMove
CHECK_DEADLOCK FALSE

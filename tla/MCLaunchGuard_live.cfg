SPECIFICATION FairSpec
CONSTANTS
    Beads = {b1}
    NoBead = NoBead
    MaxGen = 2
    FailLimit = 2
    MaxCrashes = 1
    MaxLosses = 0
    MaxOutages = 1
PROPERTY LaunchEnds
CHECK_DEADLOCK FALSE

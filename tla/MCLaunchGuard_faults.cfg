SPECIFICATION Spec
CONSTANTS
    Beads = {b1}
    NoBead = NoBead
    MaxGen = 2
    FailLimit = 1
    MaxCrashes = 1
    MaxLosses = 1
    MaxOutages = 1
INVARIANTS TypeOK AtMostOnce DispatchOnBeadFirst Accounted
PROPERTIES KeepsPromise
CHECK_DEADLOCK FALSE

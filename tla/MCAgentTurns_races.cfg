SPECIFICATION Spec
CONSTANTS
    m1 = m1
    m2 = m2
    None = None
    Msgs <- MCMsgs
    MaxTurns = 5
    MaxLaunches = 2
    MaxTroubles = 3
    Happens <- AllKinds
SYMMETRY MCSymmetry
INVARIANTS ReplyIsOwn PromptsKept
PROPERTIES PastedIntoIdle
CHECK_DEADLOCK FALSE

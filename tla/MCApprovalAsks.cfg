SPECIFICATION FairSpec
CONSTANTS
    MaxAsks = 2
    MaxMsgs = 2
    MaxLoad = 3
    Digests = {d1, d2}
    Operators = {op}
    MaxTroubles = 2
    Happens <- AllKinds
INVARIANTS OneActive AnswersTrue DecisionOnRecord
PROPERTIES NoReplay IssuedOnAuthority MessageAnswered
CHECK_DEADLOCK FALSE

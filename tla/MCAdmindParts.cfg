SPECIFICATION AdmindSpec
CONSTANTS
    OutTurns = {1, 2}
    Senders = {"p", "q"}
    Requesters <- MCRequesters
    Traffic = {"none", "card", "alert", "notice", "details"}
    MaxParts = 2
    MaxSends = 2
    MaxBatches = 1
    MaxObserved = 2
    MaxNotices = 2
    MaxOutFaults = 1
    CardAsks = {1, 2}
    QuestionKeys = {1}
    NoticeIds = {1, 2}
    OperatorMessages = {1, 2}
    Scenes <- MCScenes
    CardParts = 1
    MaxOpenQuestions = 1
    MaxPostsPerHour = 1
    MaxUndelivered = 1
    MaxPostsInFlight = 1
    MaxAnswers = 1
    MaxAutobumps = 1
    CardFaults = {"gate", "ask", "crash"}
    MaxCardFaults = 1
    FulfilledAsks = {1, 2}
    Intents = {1, 2}
    Contents = {1, 2}
    Large = {2}
    Operations = {1}
    MaxPendingIntents = 1
    MaxWrites = 2
    Resolutions = {1}
    CommandIds = {1, 2}
    MaxPermits = 3
    MaxCommands = 2
    CustodyFaults = {"notice", "policy", "crash"}
    MaxCustodyFaults = 2
    Users = {"normal", "membership"}
    MaxSubGen = 3
    MaxChanges = 1
    RetainLimit = 1
    MaxLate = 1
    Proposals = {1, 2}
    Mids = {1, 2}
    Window = 1
    MaxTick = 1
    MaxGeneration = 2
    MaintFaults = {"expire", "policy", "crash", "reboot"}
    MaxMaintFaults = 1
INVARIANTS RepliesArrive CardsTrue FulfilmentTrue CustodyHolds IngressSound MaintenanceOnce
PROPERTY RepliesToOwners
CHECK_DEADLOCK FALSE

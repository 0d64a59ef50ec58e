SPECIFICATION PartsSpec
CONSTANTS
    MaxSessions = 2
    MaxTroubles = 1
    Happens = {"crash", "reboot", "fault", "arm", "backend", "refuse", "git", "die", "diverge", "damage"}
    Stagings = {1, 2}
    Installs = {"a", "b"}
    MaxStoreFaults = 1
    StoreFaults = {"crash", "down", "lost", "seal", "tamper", "touch", "refuse", "unverified"}
    Requests = {1, 2}
    Idents = {"i", "j"}
    MaxReads = 1
    MaxGrooms = 1
    MaxLaunches = 2
    MaxPerBead = 2
    ActionFaults = {"duplicate", "lost", "other", "clock", "authority"}
    MaxActionFaults = 1
INVARIANTS SessionsGone SessionsTracked SessionCausesTrue SessionWorkKept StorePublishes StoreKeepsInUse ActionsExclusive ActionsDecided
CHECK_DEADLOCK FALSE

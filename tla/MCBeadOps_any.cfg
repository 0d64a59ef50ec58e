SPECIFICATION Spec
CONSTANTS
    ParkLimit = 2
    LaunchLimit = 2
    MaxDefers = 2
    MaxTroubles = 3
    Happens = {"crash", "loss", "edit", "fault", "call", "taint", "limit"}
INVARIANTS RowsAgree WaitingIsQuiet NoOneForgotten
PROPERTIES ParkKeepsWork
CHECK_DEADLOCK FALSE

SPECIFICATION Spec
CONSTANTS
    MaxCycles = 4
    MaxCrashes = 0
    MaxStops = 0
    MaxFaults = 1
    MaxTime = 2
    MaxBack = 1
    MaxDelivered = 4
    MaxForeign = 0
    Inventory = 9
    DayTicks = 1
    DaysKept = 2
    WeekDays = 2
    WeekSpan = 2
PROPERTIES RetentionKeeps
CHECK_DEADLOCK FALSE
CONSTRAINT OneAtATime

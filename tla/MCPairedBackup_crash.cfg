SPECIFICATION FairSpec
CONSTANTS
    MaxCycles = 2
    MaxCrashes = 2
    MaxStops = 1
    MaxFaults = 1
    MaxTime = 0
    MaxBack = 0
    MaxDelivered = 3
    MaxForeign = 1
    Inventory = 2
    DayTicks = 1
    DaysKept = 1
    WeekDays = 2
    WeekSpan = 2
INVARIANTS CompletedIsSealed CopiedOnceInOrder RecordsHonest
PROPERTIES PendingEnds
CHECK_DEADLOCK FALSE

SPECIFICATION WatchSpec
CONSTANTS
    FirstDay = 3
    SlotsPerDay = 4
    HourlySlots <- MCHourly
    CheckSlots <- MCChecks
    OpenSlots <- MCOpen
    StaleAfter = 8
    TokenLife = 28
    LastSlot = 17
    MaxFailures = 1
INVARIANT CanaryAlertsYou
CHECK_DEADLOCK FALSE

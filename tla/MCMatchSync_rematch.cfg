SPECIFICATION FairSpec
CONSTANTS
    MaxTurns = 1
    SetupBudget = 1
    CommandCacheSize = 1
    FirstSeats = {0, 1}
    Leavers = {1}
    MaxRuns = 2
    MaxCommands <- MCOneEach
INVARIANTS
    ClockArmed
    OneAnswer
    CompletedOnce
PROPERTIES
    EndsReachClients
    PendingSettles
\* a room whose players do nothing more comes to rest
CHECK_DEADLOCK FALSE

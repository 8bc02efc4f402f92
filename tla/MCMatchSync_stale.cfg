SPECIFICATION Spec
CONSTANTS
    MaxTurns = 2
    SetupBudget = 0
    CommandCacheSize = 1
    FirstSeats = {0}
    Leavers = {}
    MaxRuns = 1
    MaxCommands <- MCTwoAndOne
PROPERTIES
    StaleRejectionSurvived
\* a room whose players do nothing more comes to rest
CHECK_DEADLOCK FALSE

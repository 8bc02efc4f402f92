SPECIFICATION Spec
CONSTANTS
    MaxTurns = 1
    SetupBudget = 0
    CommandCacheSize = 1
    FirstSeats = {0}
    Leavers = {1}
    MaxRuns = 1
    MaxCommands <- MCOneEach
INVARIANTS
    OpponentLossTerminal
\* a room whose players do nothing more comes to rest
CHECK_DEADLOCK FALSE

SPECIFICATION RetrySpec
CONSTANTS
    MaxTurns = 2
    SetupBudget = 0
    CommandCacheSize = 1
    FirstSeats = {0}
    MaxIds = 2
    MaxSends <- MCThreeAndNone
INVARIANTS
    AnsweredOnce
PROPERTIES
    RepeatsInert
\* a finished run takes no more commands
CHECK_DEADLOCK FALSE

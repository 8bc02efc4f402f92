SPECIFICATION MCClockSpec
CONSTANTS
    Locations <- MCLocations
    WinningPatterns <- MCOnePattern
    PowerupBySymbol <- MCPowerupBySymbol
    PowerupsEnabled = TRUE
    AllowedPowerups <- MCAllowed
    Rounds = 5
PROPERTIES
    GameEnds
\* a finished game takes no more commands
CHECK_DEADLOCK FALSE

SPECIFICATION Spec
CONSTANTS
    Locations <- MCLocations
    WinningPatterns <- MCWinningPatterns
    PowerupBySymbol <- MCPowerupBySymbol
    PowerupsEnabled = TRUE
    AllowedPowerups <- MCAllowed
    Rounds = 5
INVARIANTS
    TypeOK
    BoardsCoherent
    PowerupsCoherent
    TurnOrder
    LinesClaimed
    ActiveSeatCanPlace
PROPERTIES
    ShieldProtects
    DesecrationCostsOneTurn
    ImplementsTurns
    CommandsRunOut
\* a finished game takes no more commands
CHECK_DEADLOCK FALSE

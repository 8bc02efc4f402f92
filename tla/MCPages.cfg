SPECIFICATION Spec
CONSTANTS
    MaxSockets = 2
    MaxUp = 1
INVARIANTS
    ServesOnePurpose
    SocketsOwned
    ScreenTruth

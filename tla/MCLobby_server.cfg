SPECIFICATION Spec
CONSTANTS
    s1 = s1
    s2 = s2
    s3 = s3
    c1 = c1
    c2 = c2
    ann = ann
    Sockets <- MCSockets
    Accounts <- MCAccounts
    accountOf <- MCAccountOf
    Guest = Guest
    Codes <- MCCodes
    NoCode = NoCode
    Variants = {main, prototype}
    OnePurpose = TRUE
    MaxRooms = 2
SYMMETRY MCSymmetry
INVARIANTS
    RoomsAgree
    WaitersSound
    NewsFresh
PROPERTIES
    ImplementsConnections
\* a socket that is closed is not used again
CHECK_DEADLOCK FALSE

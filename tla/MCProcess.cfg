SPECIFICATION FairSpec
CONSTANTS
    c1 = c1
    c2 = c2
    c3 = c3
    m1 = m1
    m2 = m2
    Conns = {c1, c2, c3}
    MaxConnections = 2
    Matches = 3
    MaxConcurrentWrites = 1
    MaxPendingWrites = 2
    Migrators = {m1, m2}
    Files = 3
    Scenes <- MCScenes
INVARIANTS
    SchemaSound
    AdmissionBounded
    StopReleases
    Accounted
PROPERTIES
    IdentityFollows
    VanishedRemoved
    StopEnds
CHECK_DEADLOCK FALSE

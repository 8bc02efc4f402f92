CONSTANTS
    Users = {alice, bob}
    Admins = {alice}
    MaxSids = 4
    MaxMatches = 3
    PageSize = 1
    Named = {1, 2}
    MaxCalls = 2
    Budgets <- MCBudgets
SPECIFICATION Spec
INVARIANTS
    IdentityTruth
    SocketIdentity
    AnswersFit
    BookmarksTrue
CHECK_DEADLOCK FALSE

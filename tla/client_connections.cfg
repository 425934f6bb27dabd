SPECIFICATION FairSpec
CONSTANTS
    u1 = u1
    u2 = u2
    r1 = r1
    r2 = r2
    Users = {u1, u2}
    NoUser = NoUser
    Rooms = {r1, r2}
    NoRoom = NoRoom
    PendingLength = 1
    MaxActions = 3
    MaxWishes = 4
    MaxLost = 1
INVARIANTS
    TypeOK
    ActionsGoOnce
    OnlyLateActionsStray
    ResultsAreKnown
    ShownUserIsConnected
    OneUser
PROPERTIES
    RequestsAreServed
    WaitingEnds
CHECK_DEADLOCK FALSE

SPECIFICATION FairSpec
CONSTANTS
    c1 = c1
    c2 = c2
    c3 = c3
    Clients = {c1, c2, c3}
    Players = {c1, c2}
    NoClient = NoClient
    ServerKinds = {"room", "user", "market"}
    QueueCapacity = 1
    MaxAcceptFailures = 1
INVARIANTS
    TypeOK
    HandedOverOnce
    RoomIsTold
    WatchersAreClients
PROPERTIES
    DismissedForCause
    RoomAcceptsAgain
    StopEnds
CHECK_DEADLOCK FALSE

SPECIFICATION Spec
CONSTANTS
    u1 = u1
    u2 = u2
    i1 = i1
    i2 = i2
    NumSlots = 2
    Items = {i1, i2}
    NoItem = NoItem
    BlankItem = BlankItem
    RoomServer = RoomServer
    MarketServer = MarketServer
    NoServer = NoServer
    Users = {u1, u2}
    InitialAccounts <- TwoTraders
    Prices = {1, 2}
    MaxTimeouts = 0
    MaxLostConnections = 0
    MaxFailedConnects = 0
    Articles = {"chair"}
    ItemType <- MCItemType
    MaxOrders = 2
INVARIANTS
    TypeOK
    NoAssertFails
    OrdersBacked
    EachItemOnce
    AccountsWellFormed
PROPERTIES
    ChangesAreAnnounced
CHECK_DEADLOCK FALSE

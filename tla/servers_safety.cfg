SPECIFICATION ServersSpec
CONSTANTS
    u1 = u1
    u2 = u2
    i1 = i1
    NumSlots = 1
    Items = {i1}
    NoItem = NoItem
    BlankItem = BlankItem
    RoomServer = RoomServer
    MarketServer = MarketServer
    NoServer = NoServer
    Users = {u1, u2}
    InitialAccounts <- SellerAndBuyer
    Prices = {1}
    MaxTimeouts = 0
    MaxLostConnections = 0
    MaxFailedConnects = 0
    Articles = {"chair"}
    ItemType <- MCItemType
    MaxOrders = 2
    InitialEntities <- NoEntity
    MAX_ENTITIES_PER_ROOM = 2
INVARIANTS
    ItemsConserved
    MoneyConserved
    AccountsWellFormed
PROPERTIES
    StaysSolvent
CHECK_DEADLOCK FALSE

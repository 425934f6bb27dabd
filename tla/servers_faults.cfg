SPECIFICATION ServersFairSpec
CONSTANTS
    u1 = u1
    u2 = u2
    i1 = i1
    NumSlots = 1
    Items = {i1}
    NoItem = NoItem
    BlankItem = BlankItem
    RoomServer = RoomServer
    MarketServer = MarketServer
    NoServer = NoServer
    Users = {u1}
    InitialAccounts <- OneUser
    Prices = {1, 2}
    MaxTimeouts = 1
    MaxLostConnections = 1
    MaxFailedConnects = 1
    Articles = {"chair"}
    ItemType <- MCItemType
    MaxOrders = 2
    InitialEntities <- NoEntity
    MAX_ENTITIES_PER_ROOM = 1
PROPERTIES
    ReservationsRespected
    RoomSessionsEnd
CHECK_DEADLOCK FALSE

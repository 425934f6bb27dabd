SPECIFICATION FairSpec
CONSTANTS
    u1 = u1
    u2 = u2
    i1 = i1
    i2 = i2
    NumSlots = 1
    Items = {i1}
    NoItem = NoItem
    BlankItem = BlankItem
    RoomServer = RoomServer
    MarketServer = MarketServer
    NoServer = NoServer
    Users = {u1, u2}
    InitialAccounts <- SellerAndBuyer
    Prices = {1}
    MaxTimeouts = 1
    MaxLostConnections = 1
    MaxFailedConnects = 0
    Articles = {"chair"}
    ItemType <- MCItemType
    MaxOrders = 2
PROPERTIES
    SessionsEnd
    PreparedIsDecided
CHECK_DEADLOCK FALSE

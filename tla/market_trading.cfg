SPECIFICATION FairSpec
CONSTANTS
    u1 = u1
    u2 = u2
    i1 = i1
    i2 = i2
    NumSlots = 2
    Items = {i1}
    NoItem = NoItem
    BlankItem = BlankItem
    RoomServer = RoomServer
    MarketServer = MarketServer
    NoServer = NoServer
    Users = {u1, u2}
    InitialAccounts <- OneSeller
    Prices = {1, 2}
    MaxTimeouts = 0
    MaxLostConnections = 0
    MaxFailedConnects = 0
    Articles = {"chair"}
    ItemType <- MCItemType
    MaxOrders = 3
PROPERTIES
    TradesAreAtomic
    CrossingOrdersTrade
CHECK_DEADLOCK FALSE

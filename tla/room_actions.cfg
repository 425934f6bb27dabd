SPECIFICATION FairSpec
CONSTANTS
    p1 = p1
    p2 = p2
    bed = bed
    chair = chair
    Players = {p1, p2}
    Boxes = {}
    Beds = {bed}
    Chairs = {chair}
    Owner <- OneEach
    NoEntity = NoEntity
    NoPlayer = NoPlayer
    QueueLength = 2
    MaxActions = 3
    MaxPauses = 1
    ActionTypes = {"WALK", "PICK_UP", "PUT_DOWN", "PLACE_IN_INVENTORY", "SIT", "SLEEP"}
INVARIANTS
    TypeOK
    HoldsAgree
    SeatIsLocked
    FrontHasBegun
    IdsNameActions
PROPERTIES
    PausesHold
    QueueGetsDone
CHECK_DEADLOCK FALSE

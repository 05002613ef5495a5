SPECIFICATION FairSpec
CONSTANTS
    Controllers = {1, 2, 3}
    People = {p}
    SeatCount = 1
    Declarations = {wanderer, chaser}
    MaxOpen = 3
    MaxHosted = 1
    JoinBudget = 3
    MaxLag = 1
INVARIANTS
    RoomIsConsistent
    RefusalsAreReal
PROPERTIES
    RoomIsServed

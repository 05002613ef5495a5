SPECIFICATION FairSpec
CONSTANTS
    Reservation = 2
    Capacity = 2
    ActiveMax = 2
    LeaseMax = 2
    Viewers = {v1}
    Players = {v3}
    MaxTick = 2
INVARIANTS
    BudgetIsSound
PROPERTIES
    ImplementStreams
    WaiterIsServed
CHECK_DEADLOCK FALSE

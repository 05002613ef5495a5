SPECIFICATION FairSpec
CONSTANTS
    MaxTick = 2
INVARIANTS
    WritesAreSafe
PROPERTIES
    ImplementsStream
    ClosingFinishes
    SilentPeerIsClosed
CHECK_DEADLOCK FALSE

SPECIFICATION Spec
CONSTANTS
    Controllers = {1, 2, 3}
    Declarations = {"wanderer"}
    AcceptedKinds <- MatchKinds
    InitialSeatCount = 1
    MaximumSeatCount = 1
    SpawnPointCount = 2
    CountdownTicks = 0
    RestartDelayTicks = 0
    MaxEntities = 4
    MaxRevision = 0
INVARIANTS
    PlacementsAreFair
    LeaversHoldNothing
VIEW FieldView

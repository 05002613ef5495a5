SPECIFICATION FairSpec
CONSTANTS
    Controllers = {1, 2}
    Declarations = {"wanderer"}
    AcceptedKinds <- LobbyKinds
    InitialSeatCount = 2
    MaximumSeatCount = 3
    SpawnPointCount = 2
    CountdownTicks = 2
    RestartDelayTicks = 1
    MaxEntities = 0
    MaxRevision = 1
INVARIANTS
    EveryMatchWasRequested
    TuningIsSettled
PROPERTIES
    PersonsKeepTheirSeats
    CountdownResolves

SPECIFICATION BoundarySpec
CONSTANTS
    SafeInteger = 4
    LobbySeatCountMaximum = 2
    NpcCatalogue <- MCCatalogue
    WireKindNames = {"chaser", "tactician"}
    StampedEntity = 7
    StampedController = 8
    Frames <- MCFrames
    MaximumWorldDimension = 4
    MaximumTerrainShapes = 2
    MaximumTerrainPoints = 4
    MaximumTerrainSegments = 3
    ShapeNames = {"a","b"}
    ComponentKinds = {"physics_body","controllable","shield"}
    Driver = 1
    Worlds <- MCWorlds
    MapTerrains <- MCTerrains
    TickLimit = 3
    SeatMaximum = 2
    EntityLimit = 3
    RetryMaximum = 1000
    SafeMaximum = 9
    Schemas <- MCSchemas
    LinesOf <- MCLines
    ArgumentVectors <- MCArguments
    FileStates <- MCFiles
    MaximumFileBytes = 1
    Tables <- MCTables
    MaximumLines = 6
    ControllerKinds <- MCControllerKinds
    MaximumWorld = 1000000
    MaximumComponent = 900000
    MaximumTick = 2000000
    MaximumSafeInteger = 9999
    MaximumCells = 1500
    MaximumAllowlist = 3
    MaximumRosterEntries = 16
    MaximumBotCount = 256
    MaximumSeatCount = 64
    MaximumLobbies = 32
    MaximumProfiles = 3
    MaximumTopSpeed = 10000
    MaximumAcceleration = 10000
    MaximumSpawnRate = 5
    MotionBodies = 256
    SnapshotEntityLimit = 1024
    EntityCount = 4096
    SessionMaximum = 32
    SystemHeadroom = 1
    HazardStanding = 64
INVARIANTS
    
    FramesConform
    ParseIsExact
    StartupIsSound
PROPERTIES
    FramesAreComplete
CHECK_DEADLOCK FALSE

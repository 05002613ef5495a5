SPECIFICATION StepSpec
CONSTANTS
    Width = 60
    Cells = 5
    PlayerRadius = 12
    End = 12
    Pit <- MCPit
    GatePosition <- MCGates
    GateRadius = 12
    MaxMotionEvents = 12
    Entities <- MCEntities
    MaxBodies = 3
    Worlds <- MCWorlds
    Markers <- MCMarkers
    Speeds <- MCSpeeds
    Observers = {3}
    Racers = {1}
    MaxSteps = 1
INVARIANTS
    IndexIsSound
    SolvesAreSound
    
CHECK_DEADLOCK FALSE

SPECIFICATION PlaySpec
CONSTANTS
    ArenaWidth = 4
    HillMarkers <- MCMarkers
    HillDwell = 1
    HillTravel = 2
    HillSpeed = 2
    RetargetMinimum = 1
    RetargetMaximum = 2
    PointInterval = 2
    PointsToWin = 2
    ContestedHillScores = FALSE
    ZoneFull = 5
    ZoneMinimum = 1
    ZoneShrink = 4
    EliminationGrace = 2
    Gates = 2
    FinishWindow = 2
    Players = {1, 2}
    ModesChecked = {"marker_tour", "random_roam", "race", "royale"}
    TimeLimit = 4
    Delay = 1
    CountdownTicks = 1
    RestartDelay = 1
    Fighters = {1, 2}
    ShieldTicks = 2
    PerfectTicks = 1
    ShieldCooldown = 3
    ParryStun = 2
    ChargeCooldown = 2
    ChargeActive = 2
    HitStun = 2
    RespawnDelay = 1
    HazardLife = 2
    MaxEvents = 3
    Width = 8
    Holes = {4}
    BodyRadius = 0
    CourseGates = 1
    MaxShove = 1
    Profile <- MCProfile
    BotKinds = {"wanderer", "chaser", "hill_seeker", "racer", "tactical"}
    Scenes <- MCScenes
    RetryTicks = 2
    HeadingPasses = 1
    StunTicks = 1
    BotRespawnDelay = 1
INVARIANTS
    ScoresAreFair
    StunAndDeathAreFinal
    NoRunawayThrust
PROPERTIES
    ReturnsAreAligned
    MatchesEnd
    MutualHitsStunBoth
    GuardsAreSpaced

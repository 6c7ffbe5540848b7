SPECIFICATION WorldSpec
CONSTANTS
    Writers = {w1, w2}
    Capacity = 1
    SizeMod = 8
    MaxRecords = 3
    MapVolume = 3
    MapHeader = 1
    PosOf <- ChangedBy
    Players = {p1, p2}
    MayRefuse = TRUE
    MaxRuns = 1
    MaxDisconnects = 2
    Travellers = {"mover", "other"}
    Movers = {"mover"}
    Targets <- Reported
    SpawnPoint <- At
    CoordMod = 8
    ByteMod = 4
    Threshold = 1
    MaxMoves = 2
    MaxFaults = 1
    MaxCrashes = 3
    Sizes <- WorldSizes
CHECK_DEADLOCK FALSE
SYMMETRY Symmetric
INVARIANTS
    AcceptedIsApplied
    
    ChatReachesEveryone
    EveryoneVisible
    ViewsAreCurrent
    ViewFollows
    MovesAreKept
    WorldSurvives

SPECIFICATION Spec
CONSTANTS
    Keys = {"c1", "c2"}
    Points <- Frontiers
    Trips = {"t1", "t2"}
    LastReady = 4
    Width = 2
    ReadyTimes = {0, 1, 2, 3, 4}
    Bounds = {3, 4, 5, 6, 7}
    LegsLeft = {0, 1, 2}
INVARIANTS
    NothingLost
    Frontier
    PruneSound
    SurfaceEarliest

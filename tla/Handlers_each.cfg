CONSTANTS
    None = None
    Calls <- MCCalls
    Entities <- MCEntities
    Reports <- MCReports
    MaxDelay = 2
    LeastInteger <- MCLeast
    MaxHeard = 2
    Nodes <- MCNodes
    Maps <- MCMaps
    Diffs <- MCDiffs
    MaxDiffs = 2
    MaxCost = 40
    MaxEdge = 9
    NoNode = NoNode
    Targets <- MCTargets
    Latest <- MCLatest
    Initial = 4
    MaxLookback = 28
    Tolerance = 2
    Minute = 2
    MaxRefreshes = 1
SPECIFICATION MCSpec
INVARIANTS
    DelaysPropagate
    RelationAnyOrder
    ServedIsMap
    ShortestFound
    RouteHolds
    LatestFound
    NothingMissed
PROPERTY ArriveEnds
CHECK_DEADLOCK FALSE

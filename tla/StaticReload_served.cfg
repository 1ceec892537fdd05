CONSTANTS
    NoFile = NoFile
    Mixed = Mixed
    Cut = Cut
    Newest <- MCNewestDays
    Tolerance <- MCTolerance
    Versions <- MCVersionsDays
    Places <- MCPlaces
    Walk <- MCWalk
    WalkRadius = 4
    MaxCandidates = 2
    MaxFaults = 0
SPECIFICATION Spec
INVARIANT ServesItsInputs

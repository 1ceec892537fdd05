CONSTANTS
    NoFile = NoFile
    Mixed = Mixed
    Cut = Cut
    Newest <- MCNewest
    Tolerance <- MCTolerance
    Versions <- MCVersions
    Places <- MCPlaces
    Walk <- MCWalk
    WalkRadius = 4
    MaxCandidates = 2
    MaxFaults = 2
SPECIFICATION Spec
INVARIANTS
    CoresMeanTheirInputs
    GlobalIdsUnique
    HydratesServed
    TransfersFit
PROPERTY EventuallyFollows

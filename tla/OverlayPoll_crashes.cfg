SPECIFICATION FairSpec
CONSTANTS
    Extracts = {1, 2}
    Anchored = {2}
    StopSets = {"s1", "s2"}
    NoSequence = NoSequence
    Unknown = Unknown
    Down = Down
    Mixed = Mixed
    MaxSequence = 4
    MaxFaults = 2
    MaxGenerations = 3
INVARIANTS
    NoGaps
PROPERTIES
    ServesPublishedState
    CatchesUp
CHECK_DEADLOCK FALSE

SPECIFICATION Spec
CONSTANTS
    Height = 3
    Width = 4
    Ways = {"w", "v"}
    Networks <- AllNetworks
    Courses <- Detours
    Inf = 1000
    PropagationLimit = 20
    MaxChanges = 3
    NoCell = NoCell
    NoStop = NoStop
    NoEntry = NoEntry
    NoWay = NoWay
INVARIANTS
    AddedWaysRelaxed
    NeverShorterThanStraight
CHECK_DEADLOCK FALSE

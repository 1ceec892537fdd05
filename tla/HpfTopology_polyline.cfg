SPECIFICATION Spec
CONSTANTS
    Height = 3
    Width = 4
    Ways = {"w", "v"}
    Networks <- OneStreet
    Courses <- Detours
    Inf = 1000
    PropagationLimit = 200
    MaxChanges = 3
    NoCell = NoCell
    NoStop = NoStop
    NoEntry = NoEntry
    NoWay = NoWay
INVARIANTS
    PolylinesReachStops
CHECK_DEADLOCK FALSE

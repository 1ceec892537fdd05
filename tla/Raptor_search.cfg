SPECIFICATION Spec
CONSTANTS
    Stops = {"x", "y", "o", "a", "b", "c", "d"}
    Inf = 99
    Bucket = 3
    SvrtWidth = 2
    Timetables <- Everyday
    Requests <- RequestsOf
    Rounds = 2
    MaxQueries = 2
INVARIANTS
    Optimal
    Feasible
    NeverTooGood
    Rebuildable
    SvrtSkipsNothing
    ChronosExact
CHECK_DEADLOCK FALSE

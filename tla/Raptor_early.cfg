SPECIFICATION Spec
CONSTANTS
    Stops = {"x", "y", "o", "a", "b", "c", "d"}
    Inf = 99
    Bucket = 3
    SvrtWidth = 2
    Timetables <- Early
    Requests <- RequestsOf
    Rounds = 2
    MaxQueries = 1
INVARIANTS
    Feasible
CHECK_DEADLOCK FALSE

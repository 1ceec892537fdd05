SPECIFICATION Spec
CONSTANTS
    Keys = {"a", "b", "c", "d"}
    EntryShard <- EntryShards
    SummaryShard <- SummaryShards
    Lookups = {"query1", "query2"}
    Inserters = {"rayon1", "rayon2"}
    Refreshers = {"refresh"}
    LookupKeys = {"a", "c"}
    Batches <- MCBatches
    MaxMerges = 1
INVARIANTS
    SummaryOfBucket
    SummariesComplete
    OnlyKnotsStick
PROPERTIES
    InvalidationsReturn
CHECK_DEADLOCK FALSE

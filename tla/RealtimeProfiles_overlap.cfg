SPECIFICATION Spec
CONSTANTS
    Trips = {t1}
    Delays = {late, early}
    Scheduled = scheduled
    Canceled = canceled
    Feeds = 2
    FeedOf <- FirstFeed
    Refreshers = {background, post}
    Queries = {q1}
    MaxLegs = 1
    MaxPoints = 1
    MaxPending = 1
INVARIANTS
    TypeOK
    CleanPointsFresh
CHECK_DEADLOCK FALSE

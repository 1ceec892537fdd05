SPECIFICATION Spec
CONSTANTS
    Trips = {t1}
    Delays = {late}
    Scheduled = scheduled
    Canceled = canceled
    Feeds = 1
    FeedOf <- FirstFeed
    Refreshers = {background}
    Queries = {q1}
    MaxLegs = 1
    MaxPoints = 1
    MaxPending = 1
INVARIANTS
    NoStalePoints
CHECK_DEADLOCK FALSE

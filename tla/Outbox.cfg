CONSTANTS
    e1 = e1
    e2 = e2
    p1 = p1
    p2 = p2
    w1 = w1
    w2 = w2
    Events = {e1, e2}
    Players = {p1, p2}
    Workers = {w1, w2}
    NoEvent = NoEvent
    NoWorker = NoWorker
    Kind <- EconomyKind
    Touches <- EconomyTouches
    MaxAttempts = 2
    Limit = 2
    MaxCrashes = 1
    MaxRetries = 1
SPECIFICATION FairSpec
INVARIANTS
    NothingLost
    StaleRowsAreOwed
    LeaseHeld
    CurrentMeansDelivered
PROPERTIES
    ImplementsContract
    EventsSettle

SPECIFICATION Spec
CONSTANTS
    e1 = e1
    e2 = e2
    p1 = p1
    d1 = d1
    RideIds <- const_RideIds
    Payments <- const_Payments
    Pings <- const_Pings
    HoldTicks <- const_HoldTicks
    QueueMax = 2
    MaxTicks = 2
SYMMETRY Symmetry
INVARIANTS
    BucketsAreExclusive
    LoopDropsNothing
    ManifestIsHonest
    CleanCloseIsComplete
    FeedInv
CHECK_DEADLOCK FALSE

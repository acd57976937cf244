SPECIFICATION Spec
CONSTANTS
    p1 = p1
    r1 = r1
    r2 = r2
    Partitions = {p1}
    Rides = {r1, r2}
    PartitionOf <- SharedPartitionOf
    Lifecycle <- QuietLifecycle
    EventTs <- MCEventTs
    Timeout = 1
    MaxEventTs = 4
    Poison = Poison
    BatchMax = 2
    MaxLog = 4
INVARIANT
    NoOverdueOpenRide

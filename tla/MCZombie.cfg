SPECIFICATION SpecZombie
CONSTANTS
    p1 = p1
    r1 = r1
    Partitions = {p1}
    Rides = {r1}
    PartitionOf <- OnePartition
    Lifecycle <- Cancelled
    EventTs <- Instant
    Timeout = 1
    MaxEventTs = 0
    Poison = Poison
    BatchMax = 2
    MaxLog = 2
INVARIANT
    FencingKeepsSessions

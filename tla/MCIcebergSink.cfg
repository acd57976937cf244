SPECIFICATION FairSpec
CONSTANTS
    p1 = p1
    c1 = c1
    c2 = c2
    Partitions = {p1}
    Cells = {c1, c2}
    Poison = Poison
    MinFiles = 1
    MaxLog = 3
    MaxFaults = 2
INVARIANTS
    NeverDataLoss
    PromoKept
    ArchiveInv
PROPERTIES
    CompactionKeepsRows
    EventuallyArchived
CHECK_DEADLOCK FALSE

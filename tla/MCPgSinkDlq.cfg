SPECIFICATION Spec
CONSTANTS
    events = events
    sessions = sessions
    p1 = p1
    p2 = p2
    k1 = k1
    k2 = k2
    w1 = w1
    w2 = w2
    poor = poor
    rich = rich
    Workers = {w1, w2}
    SinkTopics <- TwoTopics
    Partitions = {p2}
    TopicOf <- SessionsOnly
    Keys = {k1, k2}
    PartitionOf <- BothKeysOnP2
    Merged = {sessions}
    Contents = {poor, rich}
    EventSeq <- TwoContents
    Poison = Poison
    NoRow = NoRow
    BatchMax = 2
    MaxLog = 2
INVARIANT
    PoisonDeadLettered

SPECIFICATION OpsSpec
CONSTANTS
    Runners = {svc, gate}
    Loops = {svc}
    Gates = {gate}
    HistoryLimit = 2
    Slack = 0
    MaxCount = 2
    MaxLosses = 1
    MaxDqCrashes = 1
    plain = plain
    txn = txn
    sessionizer = sessionizer
    pgsink = pgsink
    WatchedParts <- TwoPartitions
    BrokerGroups <- OneBrokerGroup
    PgGroup = pgsink
    Transactional = {txn}
    Subscribed <- OneTopicEach
    MaxOffsets <- OffsetBounds
    MaxUpsets = 1
    Topics = {t1, t2}
    ResetGroups = {g1, g2}
    Attempts = 2
    MaxPolls = 2
    MaxJoins = 1
    e1 = e1
    e2 = e2
    SourceEvents <- TwoEvents
    RideReaders = {sessionizer, pgsink}
    TxnReader = sessionizer
    PgReader = pgsink
    MaxSource = 3
    MaxDead = 2
    MaxRestarts = 1
    MaxReplays = 2
    MaxUpsetRuns = 1
INVARIANTS
    OpsTypeOK
    AlarmsAreReal
    GatePassesNoLoss
    SamplesAreHonest
    ResetIsBlank
    RepairDoesNotFeedBack
    OpsInv
PROPERTIES
    LossIsReported
    GaugesSettle
    ResetEnds
    PromisedAreStored
CHECK_DEADLOCK FALSE

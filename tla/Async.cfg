SPECIFICATION AsyncSpec
CONSTANTS
    Parts = {"future", "queue", "message", "tuner"}
    MaxCallbacks = 3
    MaxHandles = 2
    MaxRefs = 4
    Readers = {r1, r2, r3}
    MaxMessages = 3
    MaxReads = 4
    MsgThreads = {m1, m2, m3}
    MaxMsgRefs = 2
    RetainsHoldGil = TRUE
    NumCandidates = 2
    Devices = {0, 1}
    Contents = {1, 2, 3}
    Times = {2, 3}
    MaxCpuWorkers = 2
    NumTop = 1
    NumModelCandidates = 2
    Scripts = {"specs", "files"}
INVARIANTS
    RefCountExact
    CallbacksScheduled
    NoReaderWaitsInVain
    DeliverySound
    MessageOwned
    BenchmarksCurrent
    RankingsSound
PROPERTIES
    CallbacksDelivered
    CloseResolvesReads
    TuningEnds
CHECK_DEADLOCK FALSE

SPECIFICATION PipelineFairSpec
CONSTANTS
    Clients = {c1}
    Workers = {w1}
    MaxBatchSize = 2
    MaxMessagesInFlight = 2
    MaxMemoryBytes = 204800
    ThresholdPct = 80
    UsizeMax = 15
    NumEvents = 2
    MaxQueueSize = 2
    BatchTimeout = 1
    SlowCollector = FALSE
    Results = {"ok"}
    MaxPanics = 0
    Sigs = {s1, s2}
    LogLength = 2
    Filters = {}
    DedupCapacity = 3
    Deployments <- Keeping
    MaxRecvErrors = 0
    MaxCommitErrors = 0
    MaxCrashes = 0
CHECK_DEADLOCK FALSE
PROPERTIES
    BackpressureEnds

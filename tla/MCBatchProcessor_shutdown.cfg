SPECIFICATION AccountingFairSpec
CONSTANTS
    Clients = {}
    Workers = {w1}
    MaxBatchSize = 2
    MaxMessagesInFlight = 4
    MaxMemoryBytes = 204800
    ThresholdPct = 80
    UsizeMax = 63
    NumEvents = 2
    MaxQueueSize = 2
    BatchTimeout = 1
    SlowCollector = TRUE
    Results = {"ok", "err"}
    MaxPanics = 0
CHECK_DEADLOCK FALSE
PROPERTIES
    ShutdownTerminates

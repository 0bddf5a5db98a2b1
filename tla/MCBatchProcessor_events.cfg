SPECIFICATION AccountingFairSpec
CONSTANTS
    Clients = {}
    Workers = {w1, w2}
    MaxBatchSize = 2
    MaxMessagesInFlight = 4
    MaxMemoryBytes = 204800
    ThresholdPct = 80
    UsizeMax = 63
    NumEvents = 4
    MaxQueueSize = 2
    BatchTimeout = 1
    SlowCollector = FALSE
    Results = {"ok"}
    MaxPanics = 2
CHECK_DEADLOCK FALSE
INVARIANTS
    BPTypeOK
    AcceptedAccounted
    InFlightAccounted
PROPERTIES
    BPImplementsDelivery
    AcceptedSettled
    DropTerminates

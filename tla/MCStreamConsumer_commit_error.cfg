SPECIFICATION SCSpec
CONSTANTS
    Clients = {c1}
    Workers = {}
    MaxBatchSize = 1
    MaxMessagesInFlight = 1
    MaxMemoryBytes = 102400
    ThresholdPct = 80
    UsizeMax = 3
    Sigs = {s1, s2}
    LogLength = 3
    Filters = {}
    DedupCapacity = 2
    Deployments <- Keeping
    MaxRecvErrors = 0
    MaxCommitErrors = 1
    MaxCrashes = 0
CHECK_DEADLOCK FALSE
INVARIANTS
    CommitCoversSettled

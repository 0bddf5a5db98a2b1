SPECIFICATION SCFairSpec
CONSTANTS
    Clients = {c1}
    Workers = {}
    MaxBatchSize = 1
    MaxMessagesInFlight = 1
    MaxMemoryBytes = 102400
    ThresholdPct = 80
    UsizeMax = 3
    Sigs = {s1, s2}
    LogLength = 3
    Filters = {}
    DedupCapacity = 2
    Deployments <- AllDeployments
    MaxRecvErrors = 1
    MaxCommitErrors = 0
    MaxCrashes = 1
CHECK_DEADLOCK FALSE
INVARIANTS
    SCTypeOK
    ReturnedFirstCopies
    CommitCoversSettled
PROPERTIES
    CommitMonotone
    OnlyRestartMisses
    RecordsSettled

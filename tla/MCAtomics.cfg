\* The manager: one worker, two clients, backpressure by memory (3 messages) or
\* count (4).  The breaker: two callers, two successes needed, one slot.
SPECIFICATION AtomicsSpec
CONSTANTS
    Clients = {t1, t2}
    Workers = {w1}
    MaxBatchSize = 4
    MaxMessagesInFlight = 4
    MaxMemoryBytes = 76800
    ThresholdPct = 80
    UsizeMax = 15
    Callers = {c1, c2}
    failure_threshold = 1
    success_threshold = 2
    half_open_max_requests = 1
    MaxInterrupts = 2
INVARIANTS
    RMTypeOK
    SignalsBounded
    DeactivateOnlyIfActive
    SlotsBounded
    MetricsAccounted
PROPERTIES
    HalfOpenResolves

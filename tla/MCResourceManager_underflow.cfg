\* Two workers ease at once, one client raised one signal.
SPECIFICATION RMSpec
CONSTANTS
    Clients = {c1}
    Workers = {w1, w2}
    MaxBatchSize = 3
    MaxMessagesInFlight = 5
    MaxMemoryBytes = 76800
    ThresholdPct = 80
    UsizeMax = 7
SYMMETRY Symmetry
INVARIANTS
    DeactivateOnlyIfActive

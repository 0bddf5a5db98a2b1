SPECIFICATION PartsSpec
CONSTANTS
    Callers = {c1, c2, c3}
    threshold = 2
    Sigs = {s1, s2, s3}
    max_size = 2
    time_window = 2
    MaxTime = 3
    MaxCalls = 6
    CodecThreads = {t1, t2}
    Data = {d1, d2, d3}
    NotBase58 = {n1}
    cache_max_size = 2
    MaxRetries = {0, 1, 3}
    Delays = {20, 60}
    Multipliers = {50, 100, 200}
    Events <- MCEvents
    TypeLists <- MCTypeLists
    SlotBounds = {1, 2}
    ProgramLists <- MCProgramLists
    Amounts = {5, 10}
    SignatureLists <- MCSignatureLists
    CustomFilters <- MCCustomFilters
    Messages <- MCMessages
    ClientFilters <- MCClientFilters
    Processors <- MCProcessors
    MaxMessages = 2
CHECK_DEADLOCK FALSE
INVARIANTS
    CBTypeOK
    RefusedIffRecent
    RetriesExact
    ContentRecovered
    OneEventPerSignature
    DeadConditions
PROPERTIES
    OpenEnds
    Base58ImplementsCodec
    BackoffGrows
    ConditionsNarrow
    

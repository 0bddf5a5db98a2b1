\* No future is dropped and reset() is not called.
SPECIFICATION PeriodFairSpec
CONSTANTS
    Callers = {c1, c2}
    failure_threshold = 1
    success_threshold = 2
    half_open_max_requests = 1
    MaxInterrupts = 0
PROPERTIES
    ClosesAfterSuccesses

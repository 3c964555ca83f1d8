\* Either transport: two calls, one slot, one event stream.
CONSTANTS
    Calls = {c1, c2}
    MaxConcurrentCalls = 1
    Transports = {"stdio", "http"}
    IdleStreams = 1
SPECIFICATION RunFairSpec
INVARIANTS
    CleanExitLosesNothing
    FailedExitHasReason
PROPERTIES
    DrainEnds

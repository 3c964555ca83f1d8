\* Three calls for one slot: one in flight, two waiting.
CONSTANTS
    Calls = {c1, c2, c3}
    MaxConcurrentCalls = 1
SPECIFICATION FairSpec
INVARIANTS
    SlotsMatchHolders
    AuditedOnce
    UnauditedCallsBounded
    BusyDidNothing
PROPERTIES
    OnlyHandlersDelay
    KeepsContract
    KeepsPromise
